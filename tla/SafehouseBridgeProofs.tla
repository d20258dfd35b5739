----------------------- MODULE SafehouseBridgeProofs -----------------------
(***************************************************************************)
(* Proofs about the safehouse bridge for every choice of its constants.    *)
(***************************************************************************)
EXTENDS SafehouseBridge, TLAPS

(***************************************************************************)
(* Geometry.                                                               *)
(***************************************************************************)

\* rects_overlap of the panel and rectsOverlap of the mod are one relation.
LEMMA OverlapsAgree ==
    \A a, b \in Rects : PanelRectsOverlap(a, b) <=> RectsOverlap(a, b)
BY RectsAssumption, SMT DEF PanelRectsOverlap, RectsOverlap

\* Overlapping is symmetric, so applyCreate may look from the new zone only.
LEMMA OverlapSymmetric ==
    \A a, b \in Rects : RectsOverlap(a, b) <=> RectsOverlap(b, a)
BY RectsAssumption, SMT DEF RectsOverlap

\* A zone that meets no other can be added.
LEMMA AddKeepsDisjoint ==
    ASSUME NEW hs \in SUBSET House, NEW h \in House,
           Disjoint(hs), Overlapping(h.rect, hs) = {}
    PROVE  Disjoint(hs \cup {h})
<1> SUFFICES ASSUME NEW g \in hs \cup {h}, NEW k \in hs \cup {h}, g # k
             PROVE  ~ RectsOverlap(g.rect, k.rect)
    BY DEF Disjoint
<1>1. \A o \in hs : ~ RectsOverlap(h.rect, o.rect)
    BY DEF Overlapping
<1>2. \A o \in hs : ~ RectsOverlap(o.rect, h.rect)
    BY <1>1, OverlapSymmetric DEF House
<1>3. CASE g \in hs /\ k \in hs
    BY <1>3 DEF Disjoint
<1>4. CASE g = h \/ k = h
    BY <1>1, <1>2, <1>4
<1> QED BY <1>3, <1>4

\* Zones may disappear.
LEMMA SubsetKeepsDisjoint ==
    ASSUME NEW hs, NEW gs \in SUBSET hs, Disjoint(hs)
    PROVE  Disjoint(gs)
BY DEF Disjoint

\* A zone may change hands: its rectangle is what the others do not meet.
LEMMA HandOverKeepsDisjoint ==
    ASSUME NEW hs \in SUBSET House, NEW h \in hs, NEW o \in Players, Disjoint(hs)
    PROVE  Disjoint((hs \ {h}) \cup {[h EXCEPT !.owner = o]})
<1> DEFINE k == [h EXCEPT !.owner = o]
<1>1. k.rect = h.rect /\ k \in House
    BY DEF House
<1>2. Overlapping(k.rect, hs \ {h}) = {}
    BY <1>1 DEF Overlapping, Disjoint
<1>3. Disjoint(hs \ {h})
    BY SubsetKeepsDisjoint
<1> QED BY <1>1, <1>2, <1>3, AddKeepsDisjoint

(***************************************************************************)
(* What one command may do to the zones: nothing, one new zone, one zone   *)
(* fewer, or one zone with another owner.                                  *)
(***************************************************************************)
Change(hs, new) ==
    \/ new = hs
    \/ \E h \in House : Overlapping(h.rect, hs) = {} /\ new = hs \cup {h}
    \/ \E h \in hs : new = hs \ {h}
    \/ \E h \in hs, o \in Players : new = (hs \ {h}) \cup {[h EXCEPT !.owner = o]}

LEMMA FoundIsThere ==
    ASSUME NEW hs, NEW r, NEW o
    PROVE  FindHouse(r, o, hs) \subseteq hs
BY DEF FindHouse, FindExact, FindOverlapping, Overlapping

(***************************************************************************)
(* A command as the mod may read it.  Its rectangle may be any once the    *)
(* owner is missing, which every cut within the rectangle entails.         *)
(***************************************************************************)
Readable(c) ==
    /\ c.op \in {"create", "update", "release"}
    /\ c.owner \in Players \cup {NoOwner}
    /\ c.op = "create" /\ c.owner # NoOwner => c.rect \in Rects

LEMMA EffectsAreChanges ==
    ASSUME NEW hs \in SUBSET House, NEW c, Readable(c), NEW e \in Effects(c, hs)
    PROVE  Change(hs, e.houses) /\ e.ok \in BOOLEAN
<1>1. \A f \in Failed(hs) : f.houses = hs /\ f.ok = FALSE
    BY DEF Failed
<1>2. CASE c.op = "create"
    <2>1. e \in ApplyCreate(c, hs)
        BY <1>2 DEF Effects
    <2> DEFINE refused == c.rect.w < 1 \/ c.rect.h < 1 \/ c.owner = NoOwner
                            \/ Overlapping(c.rect, hs) # {} \/ c.rect \in Restricted
    <2>2. CASE refused
        BY <1>1, <2>1, <2>2 DEF ApplyCreate, Change
    <2>3. CASE ~ refused
        <3> DEFINE h == [rect |-> c.rect, owner |-> c.owner]
        <3>1. e = [houses |-> hs \cup {h}, ok |-> TRUE]
            BY <2>1, <2>3 DEF ApplyCreate
        <3>2. h \in House /\ Overlapping(h.rect, hs) = {}
            BY <1>2, <2>3 DEF Readable, House
        <3> QED BY <3>1, <3>2 DEF Change
    <2> QED BY <2>2, <2>3
<1>3. CASE c.op = "update"
    <2>1. e \in ApplyUpdate(c, hs)
        BY <1>3 DEF Effects
    <2>2. CASE FindHouse(c.rect, c.owner, hs) = {}
        BY <1>1, <2>1, <2>2 DEF ApplyUpdate, Change
    <2>3. CASE FindHouse(c.rect, c.owner, hs) # {}
        <3>1. PICK h \in FindHouse(c.rect, c.owner, hs) :
                e = [houses |-> (hs \ {h}) \cup
                        {IF c.owner = NoOwner THEN h ELSE [h EXCEPT !.owner = c.owner]},
                     ok |-> TRUE]
            BY <2>1, <2>3 DEF ApplyUpdate
        <3>2. h \in hs
            BY FoundIsThere
        <3>3. CASE c.owner = NoOwner
            <4>1. e.houses = hs /\ e.ok = TRUE
                BY <3>1, <3>2, <3>3
            <4> QED BY <4>1 DEF Change
        <3>4. CASE c.owner # NoOwner
            <4>1. c.owner \in Players
                BY <3>4 DEF Readable
            <4>2. e.houses = (hs \ {h}) \cup {[h EXCEPT !.owner = c.owner]} /\ e.ok = TRUE
                BY <3>1, <3>4
            <4> QED BY <3>2, <4>1, <4>2 DEF Change
        <3> QED BY <3>3, <3>4
    <2> QED BY <2>2, <2>3
<1>4. CASE c.op = "release"
    <2>1. e \in ApplyRelease(c, hs)
        BY <1>4 DEF Effects
    <2>2. CASE FindHouse(c.rect, c.owner, hs) = {}
        BY <1>1, <2>1, <2>2 DEF ApplyRelease, Change
    <2>3. CASE FindHouse(c.rect, c.owner, hs) # {}
        <3>1. PICK h \in FindHouse(c.rect, c.owner, hs) :
                e = [houses |-> hs \ {h}, ok |-> TRUE]
            BY <2>1, <2>3 DEF ApplyRelease
        <3>2. h \in hs
            BY FoundIsThere
        <3> QED BY <3>1, <3>2 DEF Change
    <2> QED BY <2>2, <2>3
<1> QED BY <1>2, <1>3, <1>4 DEF Readable

\* Whatever a torn block is read as, it is a command of this kind.
LEMMA TornIsReadable ==
    ASSUME NEW c \in Cmds, NEW d \in TornCommands(c)
    PROVE  Readable(d)
<1>1. /\ c \in [op : {"create", "update", "release"}, rect : Rects,
                owner : Players \cup {NoOwner}]
      /\ c.op \in {"create", "update", "release"} /\ c.rect \in Rects
      /\ c.owner \in Players \cup {NoOwner}
    BY CmdsAssumption
<1>2. ASSUME NEW r, d = [c EXCEPT !.rect = r, !.owner = NoOwner] PROVE Readable(d)
    <2>1. d.op = c.op /\ d.owner = NoOwner
        BY <1>1, <1>2
    <2> QED BY <1>1, <2>1 DEF Readable
<1>3. ASSUME c.owner # NoOwner, NEW o \in Clipped[c.owner], d = [c EXCEPT !.owner = o]
      PROVE  Readable(d)
    <2>1. o \in Players
        BY <1>1, <1>3, SetupAssumption
    <2>2. d.op = c.op /\ d.rect = c.rect /\ d.owner = o
        BY <1>1, <1>3
    <2> QED BY <1>1, <2>1, <2>2 DEF Readable
<1>4. CASE d = c
    BY <1>1, <1>4 DEF Readable
<1> QED BY <1>2, <1>3, <1>4 DEF TornCommands

LEMMA TornEffectsAreChanges ==
    ASSUME NEW hs \in SUBSET House, NEW c \in Cmds, NEW e \in TornEffects(c, hs)
    PROVE  Change(hs, e.houses) /\ e.ok \in BOOLEAN
<1>1. PICK d \in TornCommands(c) : e \in Effects(d, hs)
    BY DEF TornEffects
<1> QED BY <1>1, TornIsReadable, EffectsAreChanges

LEMMA ChangeKeepsZones ==
    ASSUME NEW hs \in SUBSET House, NEW new, Change(hs, new)
    PROVE  new \subseteq House /\ (Disjoint(hs) => Disjoint(new))
<1>1. CASE new = hs
    BY <1>1
<1>2. CASE \E h \in House : Overlapping(h.rect, hs) = {} /\ new = hs \cup {h}
    BY <1>2, AddKeepsDisjoint
<1>3. CASE \E h \in hs : new = hs \ {h}
    BY <1>3, SubsetKeepsDisjoint
<1>4. CASE \E h \in hs, o \in Players : new = (hs \ {h}) \cup {[h EXCEPT !.owner = o]}
    <2>1. PICK h \in hs, o \in Players : new = (hs \ {h}) \cup {[h EXCEPT !.owner = o]}
        BY <1>4
    <2>2. [h EXCEPT !.owner = o] \in House
        BY DEF House
    <2> QED BY <2>1, <2>2, HandOverKeepsDisjoint
<1> QED BY <1>1, <1>2, <1>3, <1>4 DEF Change
-----------------------------------------------------------------------------
(***************************************************************************)
(* Type correctness.                                                       *)
(***************************************************************************)

\* A function on 1 .. n is a sequence of length n.
LEMMA FunctionIsSeq ==
    ASSUME NEW S, NEW n \in Nat, NEW f \in [1 .. n -> S]
    PROVE  f \in Seq(S) /\ Len(f) = n /\ DOMAIN f = 1 .. n
OBVIOUS

\* Marking an ack changes statuses only.
LEMMA MarkKeepsType ==
    ASSUME NEW js \in Seq(Job), NEW ack \in Ack \cup {NoAck}
    PROVE  MarkJobAck(js, ack) \in Seq(Job) /\ DOMAIN MarkJobAck(js, ack) = DOMAIN js
<1>1. \A i \in 1 .. Len(js) : js[i] \in Job
    OBVIOUS
<1>2. MarkJobAck(js, ack) \in [1 .. Len(js) -> Job]
    BY <1>1 DEF MarkJobAck, Job, Statuses
<1> QED BY <1>2, FunctionIsSeq

\* So does the end of a request.
LEMMA EndKeepsType ==
    ASSUME NEW uploaded \in BOOLEAN, jobs \in Seq(Job), jobs # <<>>, EndRequest(uploaded)
    PROVE  jobs' \in Seq(Job) /\ DOMAIN jobs' = DOMAIN jobs
                /\ panel' = "idle" /\ body' = {}
<1>1. Len(jobs) \in DOMAIN jobs /\ jobs[Len(jobs)] \in Job
    OBVIOUS
<1>2. [jobs[Len(jobs)] EXCEPT !.status = "upload_failed"] \in Job
    BY <1>1 DEF Job, Statuses
<1> DEFINE new == [jobs EXCEPT ![Len(jobs)] = [@ EXCEPT !.status = "upload_failed"]]
<1>3. new \in Seq(Job) /\ DOMAIN new = DOMAIN jobs
    BY <1>1, <1>2
<1>4. jobs' = jobs \/ jobs' = new
    BY DEF EndRequest
<1> QED BY <1>3, <1>4 DEF EndRequest

LEMMA TypeInit == Init => TypeOK
BY DEF Init, TypeOK

LEMMA EnqueueType ==
    ASSUME TypeOK, NEW c \in Cmds, NEW upload \in BOOLEAN, Enqueue(c, upload)
    PROVE  TypeOK'
<1>1. jobs' \in Seq(Job) /\ jobs' # <<>> /\ DOMAIN jobs \subseteq DOMAIN jobs'
    BY DEF Enqueue, TypeOK, Job, Statuses
<1>2. oldest' \in Nat \ {0}
    BY <1>1, SetupAssumption DEF Enqueue, TypeOK, Cut
<1>3. PendingJobs(jobs', oldest) \subseteq DOMAIN jobs'
    BY <1>1 DEF PendingJobs, TypeOK
<1>4. body' \subseteq DOMAIN jobs' /\ left' \in Nat /\ (panel' = "write" => left' > 0)
    BY <1>1, <1>3 DEF Enqueue, TypeOK
<1>5. panel' \in {"idle", "write", "upload", "storing", "verify", "pulled"}
    BY DEF Enqueue, TypeOK
<1> QED BY <1>1, <1>2, <1>3, <1>4, <1>5
        DEF Enqueue, TypeOK, copyVars, modFiles, jvmVars, worldVars, history, bounds

\* The blocks written for a set of jobs are blocks of these jobs.
LEMMA WholeType ==
    ASSUME NEW D, NEW ids \in SUBSET D
    PROVE  Whole(ids) \subseteq [id : D, whole : BOOLEAN]
<1> SUFFICES ASSUME NEW i \in ids
             PROVE  [id |-> i, whole |-> TRUE] \in [id : D, whole : BOOLEAN]
    BY DEF Whole
<1> QED OBVIOUS

LEMMA WriteLocalType == ASSUME TypeOK, WriteLocalCmd PROVE TypeOK'
<1>1. jobs \in Seq(Job) /\ jobs # <<>> /\ body \subseteq DOMAIN jobs /\ left \in Nat /\ left > 0
    BY DEF TypeOK, WriteLocalCmd
<1>2. /\ jobs' \in Seq(Job) /\ DOMAIN jobs' = DOMAIN jobs
      /\ body' \subseteq DOMAIN jobs' /\ left' \in Nat
      /\ panel' \in {"idle", "write"} /\ (panel' = "write" => left' > 0 /\ jobs' # <<>>)
    <2>1. CASE left = 1
        <3>1. EndRequest(FALSE)
            BY <2>1 DEF WriteLocalCmd
        <3>2. jobs' \in Seq(Job) /\ DOMAIN jobs' = DOMAIN jobs /\ panel' = "idle" /\ body' = {}
            BY <1>1, <3>1, EndKeepsType
        <3>3. left' = 0
            BY <2>1 DEF WriteLocalCmd
        <3> QED BY <3>2, <3>3
    <2>2. CASE left # 1
        BY <1>1, <2>2 DEF WriteLocalCmd
    <2> QED BY <2>1, <2>2
<1>3. cmdFile' \subseteq [id : DOMAIN jobs', whole : BOOLEAN]
    BY <1>1, <1>2, WholeType DEF WriteLocalCmd
<1> QED BY <1>2, <1>3
        DEF WriteLocalCmd, TypeOK, copyVars, modFiles, jvmVars, worldVars, history, bounds

LEMMA UploadStoredType == ASSUME TypeOK, UploadStored PROVE TypeOK'
<1>1. cmdFile' \subseteq [id : DOMAIN jobs, whole : BOOLEAN]
    BY WholeType DEF UploadStored, TypeOK
<1> QED BY <1>1 DEF UploadStored, TypeOK, queueVars, copyVars, modFiles, jvmVars,
                    worldVars, history, bounds

LEMMA StoredType ==
    ASSUME TypeOK, NEW k \in body, NEW torn \in BOOLEAN
    PROVE  Stored(k, torn) \subseteq [id : DOMAIN jobs, whole : BOOLEAN]
<1>1. body \subseteq DOMAIN jobs
    BY DEF TypeOK
<1>2. Whole({i \in body : i < k}) \subseteq [id : DOMAIN jobs, whole : BOOLEAN]
    BY <1>1, WholeType
<1>3. [id |-> k, whole |-> FALSE] \in [id : DOMAIN jobs, whole : BOOLEAN]
    BY <1>1
<1> QED BY <1>2, <1>3 DEF Stored

LEMMA UploadBrokenType == ASSUME TypeOK, UploadBroken PROVE TypeOK'
<1>1. jobs \in Seq(Job) /\ jobs # <<>> /\ EndRequest(FALSE)
    BY DEF TypeOK, UploadBroken
<1>2. jobs' \in Seq(Job) /\ DOMAIN jobs' = DOMAIN jobs /\ panel' = "idle" /\ body' = {}
    BY <1>1, EndKeepsType
<1>3. cmdFile' \subseteq [id : DOMAIN jobs, whole : BOOLEAN]
    BY StoredType DEF UploadBroken, TypeOK
<1> QED BY <1>2, <1>3 DEF UploadBroken, TypeOK, copyVars, modFiles, jvmVars,
                          worldVars, history, bounds

LEMMA StorePartType == ASSUME TypeOK, StorePart PROVE TypeOK'
<1>1. /\ cmdFile' \subseteq [id : DOMAIN jobs, whole : BOOLEAN]
      /\ left' \in Nat
    BY StoredType DEF StorePart, TypeOK
<1> QED BY <1>1 DEF StorePart, TypeOK, queueVars, copyVars, modFiles, jvmVars,
                    worldVars, history, bounds

LEMMA StoreRestType == ASSUME TypeOK, StoreRest PROVE TypeOK'
<1>1. cmdFile' \subseteq [id : DOMAIN jobs, whole : BOOLEAN]
    <2>1. body \subseteq DOMAIN jobs
        BY DEF TypeOK
    <2>2. /\ Whole(body) \subseteq [id : DOMAIN jobs, whole : BOOLEAN]
          /\ Whole({i \in body : i > left}) \subseteq [id : DOMAIN jobs, whole : BOOLEAN]
        BY <2>1, WholeType
    <2> QED BY <2>2 DEF StoreRest
<1>2. lost' \subseteq Nat
    <2>1. body \subseteq Nat /\ lost \subseteq Nat
        BY DEF TypeOK
    <2>2. lost' \subseteq lost \cup body
        BY DEF StoreRest
    <2> QED BY <2>1, <2>2
<1> QED BY <1>1, <1>2 DEF StoreRest, TypeOK, queueVars, copyVars, modFiles, jvmVars,
                    worldVars, history, bounds

LEMMA UploadVerifiedType == ASSUME TypeOK, UploadVerified PROVE TypeOK'
<1>1. PICK uploaded \in BOOLEAN : EndRequest(uploaded)
    BY DEF UploadVerified
<1>2. jobs' \in Seq(Job) /\ DOMAIN jobs' = DOMAIN jobs /\ panel' = "idle" /\ body' = {}
    BY <1>1, EndKeepsType DEF TypeOK, UploadVerified
<1> QED BY <1>2 DEF UploadVerified, TypeOK, copyVars, modFiles, jvmVars,
                    worldVars, history, bounds

LEMMA PullDumpType == ASSUME TypeOK, PullDump PROVE TypeOK'
<1>1. shownDump' \subseteq House
    BY DEF PullDump, Copies, TypeOK
<1> QED BY <1>1 DEF PullDump, TypeOK, queueVars, modFiles, jvmVars,
                    worldVars, history, bounds

LEMMA PullAckType == ASSUME TypeOK, PullAck PROVE TypeOK'
<1>1. shownAck' \in Ack \cup {NoAck}
    BY DEF PullAck, Copies, TypeOK
<1>2. jobs' \in Seq(Job) /\ DOMAIN jobs' = DOMAIN jobs
    BY <1>1, MarkKeepsType DEF PullAck, TypeOK
<1> QED BY <1>1, <1>2 DEF PullAck, TypeOK, modFiles, jvmVars, worldVars, history, bounds

LEMMA PanelCrashType ==
    ASSUME TypeOK, NEW torn \in BOOLEAN, PanelCrash(torn) PROVE TypeOK'
BY DEF PanelCrash, TypeOK, copyVars, modFiles, jvmVars, worldVars, history

LEMMA ModReadType == ASSUME TypeOK, ModRead PROVE TypeOK'
BY DEF ModRead, TypeOK, panelVars, queueVars, copyVars, modFiles, worldVars, history, bounds

LEMMA ModClearType == ASSUME TypeOK, ModClear PROVE TypeOK'
BY DEF ModClear, TypeOK, panelVars, queueVars, copyVars, modFiles, worldVars, history, bounds

(***************************************************************************)
(* What running a block does to the zones and to the two result files.     *)
(***************************************************************************)
LEMMA RunBlockEffect ==
    ASSUME TypeOK, NEW b \in todo, RunBlock(b)
    PROVE  /\ b.id \in DOMAIN jobs /\ b.id \in Nat
           /\ Change(houses, houses')
           /\ \E ok \in BOOLEAN : /\ ackFile' = [id |-> b.id, ok |-> ok]
                                 /\ results' = results \cup {[id |-> b.id, ok |-> ok]}
<1>1. b.id \in DOMAIN jobs /\ b.id \in Nat /\ houses \in SUBSET House
    BY DEF TypeOK
<1>2. jobs[b.id].cmd \in Cmds /\ Readable(jobs[b.id].cmd)
    <2>1. jobs[b.id] \in Job
        BY <1>1 DEF TypeOK
    <2>2. jobs[b.id].cmd \in Cmds
        BY <2>1 DEF Job
    <2> QED BY <2>2, TornIsReadable DEF TornCommands
<1>3. PICK e \in IF b.whole THEN Effects(jobs[b.id].cmd, houses)
                             ELSE TornEffects(jobs[b.id].cmd, houses) :
            /\ houses' = e.houses
            /\ ackFile' = [id |-> b.id, ok |-> e.ok]
            /\ results' = results \cup {[id |-> b.id, ok |-> e.ok]}
    BY DEF RunBlock
<1>4. Change(houses, e.houses) /\ e.ok \in BOOLEAN
    <2>1. CASE b.whole
        BY <1>1, <1>2, <1>3, <2>1, EffectsAreChanges
    <2>2. CASE ~ b.whole
        BY <1>1, <1>2, <1>3, <2>2, TornEffectsAreChanges
    <2> QED BY <2>1, <2>2
<1> QED BY <1>1, <1>3, <1>4

\* A run under a cut nonce is a change of the zones too, and no result.
LEMMA NamelessEffect ==
    ASSUME TypeOK, NEW b \in todo, RunNameless(b)
    PROVE  Change(houses, houses')
<1>1. b.id \in DOMAIN jobs /\ houses \in SUBSET House
    BY DEF TypeOK
<1>2. jobs[b.id].cmd \in Cmds
    <2>1. jobs[b.id] \in Job
        BY <1>1 DEF TypeOK
    <2> QED BY <2>1 DEF Job
<1> DEFINE c == [jobs[b.id].cmd EXCEPT !.rect = Nowhere, !.owner = NoOwner]
<1>3. c.op = jobs[b.id].cmd.op /\ c.owner = NoOwner
      /\ jobs[b.id].cmd.op \in {"create", "update", "release"}
    BY <1>2, CmdsAssumption
<1>4. Readable(c)
    BY <1>3 DEF Readable
<1>5. PICK e \in Effects(c, houses) : houses' = e.houses
    BY DEF RunNameless
<1> HIDE DEF c
<1> QED BY <1>1, <1>4, <1>5, EffectsAreChanges

LEMMA RunNamelessType ==
    ASSUME TypeOK, NEW b \in todo, RunNameless(b) PROVE TypeOK'
<1>1. houses' \subseteq House
    BY NamelessEffect, ChangeKeepsZones DEF TypeOK
<1> QED BY <1>1
        DEF RunNameless, NextBlock, TypeOK, panelVars, queueVars, copyVars, history, bounds

LEMMA RunBlockType ==
    ASSUME TypeOK, NEW b \in todo, RunBlock(b) PROVE TypeOK'
<1>1. houses' \subseteq House
    BY RunBlockEffect, ChangeKeepsZones DEF TypeOK
<1>2. /\ ackFile' \in Ack \cup {NoAck} /\ results' \subseteq Ack
      /\ b.id \in DOMAIN jobs /\ b.id \in Nat
    BY RunBlockEffect DEF TypeOK, Ack
<1>3. seen' \subseteq DOMAIN jobs /\ lifeLog' \in Seq(Nat) /\ dumpFile' \subseteq House
    BY <1>1, <1>2 DEF RunBlock, TypeOK
<1> QED BY <1>1, <1>2, <1>3
        DEF RunBlock, NextBlock, TypeOK, panelVars, queueVars, copyVars, bounds

LEMMA SkipBlockType ==
    ASSUME TypeOK, NEW b \in todo, SkipBlock(b) PROVE TypeOK'
BY DEF SkipBlock, NextBlock, TypeOK, panelVars, queueVars, copyVars, modFiles, worldVars,
       history, bounds

LEMMA PulseType == ASSUME TypeOK, Pulse PROVE TypeOK'
BY DEF Pulse, TypeOK, panelVars, queueVars, copyVars, jvmVars, worldVars, history, bounds

LEMMA ClaimType == ASSUME TypeOK, NEW h \in House, Claim(h) PROVE TypeOK'
BY DEF Claim, TypeOK, panelVars, queueVars, copyVars, jvmVars, history

LEMMA LeaveType == ASSUME TypeOK, NEW h \in House, Leave(h) PROVE TypeOK'
BY DEF Leave, TypeOK, panelVars, queueVars, copyVars, modFiles, jvmVars, history

LEMMA WorldSaveType == ASSUME TypeOK, WorldSave PROVE TypeOK'
BY DEF WorldSave, TypeOK, panelVars, queueVars, copyVars, modFiles, jvmVars, history, bounds

LEMMA JvmStopType == ASSUME TypeOK, JvmStop PROVE TypeOK'
BY DEF JvmStop, TypeOK, panelVars, queueVars, copyVars, modFiles

LEMMA JvmStartType == ASSUME TypeOK, JvmStart PROVE TypeOK'
BY DEF JvmStart, TypeOK, panelVars, queueVars, copyVars, worldVars, history, bounds

LEMMA TypeStutter == ASSUME TypeOK, UNCHANGED vars PROVE TypeOK'
BY DEF vars, TypeOK, panelVars, queueVars, copyVars, modFiles, jvmVars, worldVars,
       history, bounds

LEMMA TypeStep == ASSUME TypeOK, [Next]_vars PROVE TypeOK'
<1>1. CASE UNCHANGED vars
    BY <1>1, TypeStutter
<1>2. ASSUME NEW c \in Cmds, NEW upload \in BOOLEAN, Enqueue(c, upload) PROVE TypeOK'
    BY <1>2, EnqueueType
<1>3. CASE PanelStep
    BY <1>3, WriteLocalType, UploadStoredType, UploadBrokenType, StorePartType,
       StoreRestType, UploadVerifiedType, PullAckType DEF PanelStep
<1>4. CASE PullDump
    BY <1>4, PullDumpType
<1>5. ASSUME NEW torn \in BOOLEAN, PanelCrash(torn) PROVE TypeOK'
    BY <1>5, PanelCrashType
<1>6. CASE ModStep
    BY <1>6, ModReadType, ModClearType, RunBlockType, RunNamelessType,
       SkipBlockType DEF ModStep
<1>7. CASE Pulse \/ WorldSave \/ JvmStop \/ JvmStart
    BY <1>7, PulseType, WorldSaveType, JvmStopType, JvmStartType
<1>8. ASSUME NEW h \in House, Claim(h) \/ Leave(h) PROVE TypeOK'
    BY <1>8, ClaimType, LeaveType
<1> QED BY <1>1, <1>2, <1>3, <1>4, <1>5, <1>6, <1>7, <1>8 DEF Next

(***************************************************************************)
(* Every variable of the bridge stays in its type, and every id in a file, *)
(* a body or the mod's memory names a job of the history.                  *)
(***************************************************************************)
THEOREM TypeCorrect == Spec => []TypeOK
<1>1. Init => TypeOK
    BY TypeInit
<1>2. TypeOK /\ [Next]_vars => TypeOK'
    BY TypeStep
<1> QED BY <1>1, <1>2, PTL DEF Spec
-----------------------------------------------------------------------------
(***************************************************************************)
(* The zones, and the refinement of the registry.                          *)
(***************************************************************************)

\* What a step of the bridge may do to the zones and to their last save.
LEMMA WorldStep ==
    ASSUME TypeOK, [Next]_vars
    PROVE  \/ Change(houses, houses') /\ saved' = saved
           \/ houses' = houses /\ saved' = houses
           \/ houses' = saved /\ saved' = saved
<1>1. CASE UNCHANGED vars
    BY <1>1 DEF vars, worldVars, Change
<1>2. ASSUME NEW c \in Cmds, NEW upload \in BOOLEAN, Enqueue(c, upload)
      PROVE  UNCHANGED worldVars
    BY <1>2 DEF Enqueue
<1>3. CASE PanelStep \/ PullDump
    BY <1>3 DEF PanelStep, WriteLocalCmd, UploadStored, UploadBroken, StorePart,
       StoreRest, UploadVerified, PullAck, PullDump, worldVars, Change
<1>4. ASSUME NEW torn \in BOOLEAN, PanelCrash(torn) PROVE UNCHANGED worldVars
    BY <1>4 DEF PanelCrash
<1>5. CASE ModRead \/ ModClear
    BY <1>5 DEF ModRead, ModClear, worldVars, Change
<1>6. ASSUME NEW b \in todo, RunBlock(b) \/ RunNameless(b) \/ SkipBlock(b)
      PROVE  Change(houses, houses') /\ saved' = saved
    <2>1. CASE RunBlock(b)
        BY <2>1, RunBlockEffect DEF RunBlock
    <2>3. CASE RunNameless(b)
        BY <2>3, NamelessEffect DEF RunNameless
    <2>2. CASE SkipBlock(b)
        BY <2>2 DEF SkipBlock, worldVars, Change
    <2> QED BY <1>6, <2>1, <2>2, <2>3
<1>7. CASE Pulse \/ JvmStart
    BY <1>7 DEF Pulse, JvmStart, worldVars, Change
<1>8. ASSUME NEW h \in House, Claim(h) \/ Leave(h)
      PROVE  Change(houses, houses') /\ saved' = saved
    BY <1>8 DEF Claim, Leave, Change
<1>9. CASE WorldSave
    BY <1>9 DEF WorldSave
<1>10. CASE JvmStop
    BY <1>10 DEF JvmStop
<1> QED
    BY <1>1, <1>2, <1>3, <1>4, <1>5, <1>6, <1>7, <1>8, <1>9, <1>10
       DEF Next, ModStep, worldVars, Change

\* The strengthening: the save a restart goes back to is disjoint as well.
ZonesInv == Disjoint(houses) /\ Disjoint(saved)

LEMMA ZonesStep == ASSUME TypeOK, ZonesInv, [Next]_vars PROVE ZonesInv'
<1>1. CASE Change(houses, houses') /\ saved' = saved
    BY <1>1, ChangeKeepsZones DEF TypeOK, ZonesInv
<1>2. CASE houses' = houses /\ saved' = houses
    BY <1>2 DEF ZonesInv
<1>3. CASE houses' = saved /\ saved' = saved
    BY <1>3 DEF ZonesInv
<1> QED BY <1>1, <1>2, <1>3, WorldStep

(***************************************************************************)
(* No two zones of the server ever overlap, for any set of rectangles and  *)
(* commands, any profile and any number of restarts and races.             *)
(***************************************************************************)
THEOREM ZonesNeverOverlap == Spec => []ZonesDisjoint
<1>1. Init => ZonesInv
    BY DEF Init, ZonesInv, Disjoint
<1>2. TypeOK /\ ZonesInv /\ [Next]_vars => ZonesInv'
    BY ZonesStep
<1>3. ZonesInv => ZonesDisjoint
    BY DEF ZonesInv, ZonesDisjoint
<1> QED BY <1>1, <1>2, <1>3, TypeCorrect, PTL DEF Spec

\* Each kind of change of the zones is an action of the registry.
LEMMA ChangeIsRegistryStep ==
    ASSUME TypeOK, Change(houses, houses'), saved' = saved
    PROVE  [Registry!Next]_(Registry!vars)
<1> USE DEF House, Registry!House
<1>0. \A h \in House : Registry!Overlapping(h.rect, houses) = Overlapping(h.rect, houses)
    BY DEF Overlapping, Registry!Overlapping, RectsOverlap, Registry!RectsOverlap
<1>1. CASE houses' = houses
    BY <1>1 DEF Registry!vars
<1>2. CASE \E h \in House : Overlapping(h.rect, houses) = {} /\ houses' = houses \cup {h}
    BY <1>0, <1>2 DEF Registry!Next, Registry!Settle
<1>3. CASE \E h \in houses : houses' = houses \ {h}
    BY <1>3 DEF Registry!Next, Registry!Vacate, TypeOK
<1>4. CASE \E h \in houses, o \in Players :
             houses' = (houses \ {h}) \cup {[h EXCEPT !.owner = o]}
    BY <1>4 DEF Registry!Next, Registry!HandOver, TypeOK
<1> QED BY <1>1, <1>2, <1>3, <1>4 DEF Change

(***************************************************************************)
(* The bridge implements the registry of zones: every step of panel, mod,  *)
(* players or host is a registry step on the server's list, or none.       *)
(***************************************************************************)
THEOREM BridgeImplementsRegistry == Spec => RegistrySpec
<1>1. Init => Registry!Init
    BY DEF Init, Registry!Init
<1>2. TypeOK /\ [Next]_vars => [Registry!Next]_(Registry!vars)
    <2> SUFFICES ASSUME TypeOK, [Next]_vars
                 PROVE  [Registry!Next]_(Registry!vars)
        OBVIOUS
    <2>1. CASE Change(houses, houses') /\ saved' = saved
        BY <2>1, ChangeIsRegistryStep
    <2>2. CASE houses' = houses /\ saved' = houses
        BY <2>2 DEF Registry!Next, Registry!Save
    <2>3. CASE houses' = saved /\ saved' = saved
        BY <2>3 DEF Registry!Next, Registry!Revert
    <2> QED BY <2>1, <2>2, <2>3, WorldStep
<1> QED BY <1>1, <1>2, TypeCorrect, PTL DEF Spec, RegistrySpec, Registry!Spec
-----------------------------------------------------------------------------
(***************************************************************************)
(* What the mod ran and what the panel believes.                           *)
(***************************************************************************)

\* Whatever ran in this life has its nonce in the mod's memory.
LogInv == OncePerLife /\ \A i \in DOMAIN lifeLog : lifeLog[i] \in seen

LEMMA LogStep == ASSUME TypeOK, LogInv, [Next]_vars PROVE LogInv'
<1> USE DEF LogInv, OncePerLife
<1>1. CASE UNCHANGED <<seen, lifeLog>>
    BY <1>1
<1>2. ASSUME NEW b \in todo, RunBlock(b) PROVE LogInv'
    <2>1. lifeLog \in Seq(Nat) /\ b.id \in Nat /\ b.id \notin seen
        BY <1>2, RunBlockEffect DEF RunBlock, SeenBefore, TypeOK
    <2>2. lifeLog' = Append(lifeLog, b.id) /\ seen' = seen \cup {b.id}
        BY <1>2 DEF RunBlock
    <2>3. /\ DOMAIN lifeLog' = DOMAIN lifeLog \cup {Len(lifeLog) + 1}
          /\ lifeLog'[Len(lifeLog) + 1] = b.id
          /\ \A i \in DOMAIN lifeLog : lifeLog'[i] = lifeLog[i]
        BY <2>1, <2>2
    <2> QED BY <2>1, <2>2, <2>3
<1>3. CASE JvmStop
    BY <1>3 DEF JvmStop
<1> QED
    BY <1>1, <1>2, <1>3
       DEF Next, vars, ModStep, PanelStep, Enqueue, WriteLocalCmd, UploadStored,
           UploadBroken, StorePart, StoreRest, UploadVerified, PullDump, PullAck,
           PanelCrash, ModRead, ModClear, RunNameless, SkipBlock, Pulse, Claim, Leave, WorldSave,
           JvmStart, jvmVars, history

(***************************************************************************)
(* One life of the JVM runs a job at most once, however often the panel    *)
(* sends it.                                                               *)
(***************************************************************************)
THEOREM RunsOncePerLife == Spec => []OncePerLife
<1>1. Init => LogInv
    BY DEF Init, LogInv, OncePerLife
<1>2. TypeOK /\ LogInv /\ [Next]_vars => LogInv'
    BY LogStep
<1>3. LogInv => OncePerLife
    BY DEF LogInv
<1> QED BY <1>1, <1>2, <1>3, TypeCorrect, PTL DEF Spec

(***************************************************************************)
(* The strengthening for the acks: an ack file and every copy of it, as    *)
(* old as it may be, report a result the mod did produce.  The status of   *)
(* the job being sent is what Enqueue gave it.                             *)
(***************************************************************************)
AckInv ==
    /\ ackFile # NoAck => ackFile \in results
    /\ shownAck # NoAck => shownAck \in results
    /\ AckTruthful
    /\ panel \in {"write", "upload", "storing", "verify"}
            => jobs[Len(jobs)].status = "queued"

\* The end of a request touches the status of the newest job only.
LEMMA EndKeepsStatus ==
    ASSUME NEW uploaded \in BOOLEAN, jobs \in Seq(Job), jobs # <<>>, EndRequest(uploaded),
           jobs[Len(jobs)].status = "queued"
    PROVE  \A i \in DOMAIN jobs :
               \/ jobs'[i].status = jobs[i].status
               \/ jobs[i].status = "queued" /\ jobs'[i].status = "upload_failed"
<1>1. Len(jobs) \in DOMAIN jobs /\ jobs[Len(jobs)] \in Job
    OBVIOUS
<1> DEFINE new == [jobs EXCEPT ![Len(jobs)] = [@ EXCEPT !.status = "upload_failed"]]
<1>2. \A i \in DOMAIN jobs : i # Len(jobs) => new[i] = jobs[i]
    BY <1>1
<1>3. new[Len(jobs)].status = "upload_failed"
    BY <1>1 DEF Job
<1>4. jobs' = jobs \/ jobs' = new
    BY DEF EndRequest
<1> QED BY <1>2, <1>3, <1>4

\* mark_job_ack gives an answer to a queued job only, and the ack's own answer.
LEMMA MarkGivesAck ==
    ASSUME NEW js \in Seq(Job), NEW ack \in Ack \cup {NoAck}, NEW i \in DOMAIN js
    PROVE  \/ MarkJobAck(js, ack)[i] = js[i]
           \/ /\ js[i].status = "queued" /\ ack # NoAck /\ i = ack.id
              /\ MarkJobAck(js, ack)[i].status = IF ack.ok THEN "ok" ELSE "error"
<1>1. js[i] \in Job
    OBVIOUS
<1>2. CASE ack # NoAck /\ i >= oldest /\ js[i].status = "queued" /\ i = ack.id
    <2>1. MarkJobAck(js, ack)[i] = [js[i] EXCEPT !.status = IF ack.ok THEN "ok" ELSE "error"]
        BY <1>2 DEF MarkJobAck
    <2> QED BY <1>1, <1>2, <2>1 DEF Job
<1>3. CASE ~(ack # NoAck /\ i >= oldest /\ js[i].status = "queued" /\ i = ack.id)
    BY <1>3 DEF MarkJobAck
<1> QED BY <1>2, <1>3

(***************************************************************************)
(* What a step may do to the statuses: it keeps them, gives a queued job   *)
(* an answer the copied ack holds, or marks a failed upload.               *)
(***************************************************************************)
StatusStep ==
    \A i \in DOMAIN jobs :
        \/ jobs'[i].status = jobs[i].status
        \/ jobs[i].status = "queued" /\ jobs'[i].status = "upload_failed"
        \/ /\ jobs[i].status = "queued" /\ shownAck' # NoAck /\ i = shownAck'.id
           /\ jobs'[i].status = IF shownAck'.ok THEN "ok" ELSE "error"

LEMMA StatusesChange ==
    ASSUME TypeOK, AckInv, [Next]_vars
    PROVE  StatusStep
<1>1. CASE UNCHANGED jobs
    BY <1>1 DEF StatusStep
<1>2. ASSUME NEW c \in Cmds, NEW upload \in BOOLEAN, Enqueue(c, upload)
      PROVE  StatusStep
    BY <1>2 DEF Enqueue, TypeOK, StatusStep
<1>3. ASSUME NEW uploaded \in BOOLEAN, EndRequest(uploaded),
             panel \in {"write", "upload", "storing", "verify"}
      PROVE  StatusStep
    BY <1>3, EndKeepsStatus DEF TypeOK, AckInv, StatusStep
<1>4. CASE PullAck
    <2>1. shownAck' \in Ack \cup {NoAck} /\ jobs' = MarkJobAck(jobs, shownAck')
        BY <1>4 DEF PullAck, Copies, TypeOK
    <2> QED BY <2>1, MarkGivesAck DEF TypeOK, StatusStep
<1> QED
    BY <1>1, <1>2, <1>3, <1>4
       DEF Next, vars, panelVars, queueVars, ModStep, PanelStep, WriteLocalCmd, UploadStored,
           UploadBroken, StorePart, StoreRest, UploadVerified, PullDump,
           PanelCrash, ModRead, ModClear, RunBlock, RunNameless, SkipBlock, Pulse, Claim,
           Leave, WorldSave, JvmStop, JvmStart

\* Results are never withdrawn, and the ack files hold only results.
LEMMA AckFilesStep ==
    ASSUME TypeOK, AckInv, [Next]_vars
    PROVE  /\ results \subseteq results'
           /\ ackFile' # NoAck => ackFile' \in results'
           /\ shownAck' # NoAck => shownAck' \in results'
<1>1. CASE UNCHANGED <<ackFile, shownAck, results>>
    BY <1>1 DEF AckInv
<1>2. CASE PullAck
    BY <1>2 DEF PullAck, Copies, AckInv, modFiles, history
<1>3. ASSUME NEW b \in todo, RunBlock(b)
      PROVE  /\ results \subseteq results'
             /\ ackFile' # NoAck => ackFile' \in results'
             /\ shownAck' # NoAck => shownAck' \in results'
    <2>1. shownAck' = shownAck
        BY <1>3 DEF RunBlock, panelVars, copyVars
    <2> QED BY <1>3, <2>1, RunBlockEffect DEF AckInv
<1>4. ASSUME NEW b \in todo, RunNameless(b) \/ SkipBlock(b)
      PROVE  /\ results' = results /\ shownAck' = shownAck
             /\ ackFile' = ackFile \/ ackFile' = NoAck
    BY <1>4 DEF RunNameless, SkipBlock, panelVars, copyVars, modFiles, history
<1>5. CASE \E b \in todo : RunBlock(b) \/ RunNameless(b) \/ SkipBlock(b)
    BY <1>3, <1>4, <1>5 DEF AckInv
<1> QED
    BY <1>1, <1>2, <1>5
       DEF Next, vars, panelVars, copyVars, modFiles, history, ModStep, PanelStep, Enqueue,
           WriteLocalCmd, UploadStored, UploadBroken, StorePart, StoreRest,
           UploadVerified, PullDump, PanelCrash, ModRead, ModClear, Pulse, Claim, Leave,
           WorldSave, JvmStop, JvmStart

\* The job being sent stays queued until its request ends.
LEMMA SendingStep ==
    ASSUME TypeOK, AckInv, [Next]_vars,
           panel' \in {"write", "upload", "storing", "verify"}
    PROVE  jobs'[Len(jobs')].status = "queued"
<1>1. CASE UNCHANGED jobs /\ panel \in {"write", "upload", "storing", "verify"}
    BY <1>1 DEF AckInv
<1>2. ASSUME NEW c \in Cmds, NEW upload \in BOOLEAN, Enqueue(c, upload)
      PROVE  jobs'[Len(jobs')].status = "queued"
    BY <1>2 DEF Enqueue, TypeOK
<1> QED
    BY <1>1, <1>2
       DEF Next, vars, panelVars, queueVars, ModStep, PanelStep, WriteLocalCmd, UploadStored,
           UploadBroken, EndRequest, StorePart, StoreRest, UploadVerified, PullDump, PullAck,
           PanelCrash, ModRead, ModClear, RunBlock, RunNameless, SkipBlock, Pulse, Claim,
           Leave, WorldSave, JvmStop, JvmStart

\* A job that enters the history is queued: it has no answer yet.
LEMMA NewJobsAreQueued ==
    ASSUME TypeOK, [Next]_vars, NEW i \in DOMAIN jobs', i \notin DOMAIN jobs
    PROVE  jobs'[i].status = "queued"
<1>1. ASSUME NEW c \in Cmds, NEW upload \in BOOLEAN, Enqueue(c, upload)
      PROVE  jobs'[i].status = "queued"
    <2>1. jobs \in Seq(Job) /\ jobs' = Append(jobs, [cmd |-> c, status |-> "queued"])
        BY <1>1 DEF Enqueue, TypeOK
    <2>2. i = Len(jobs) + 1
        BY <2>1
    <2> QED BY <2>1, <2>2
<1>2. CASE UNCHANGED jobs
    BY <1>2
<1>3. ASSUME NEW uploaded \in BOOLEAN, EndRequest(uploaded), jobs # <<>>
      PROVE  DOMAIN jobs' = DOMAIN jobs
    BY <1>3, EndKeepsType DEF TypeOK
<1>4. CASE PullAck
    BY <1>4 DEF PullAck, MarkJobAck
<1> QED
    BY <1>1, <1>2, <1>3, <1>4
       DEF Next, vars, panelVars, queueVars, ModStep, PanelStep, WriteLocalCmd, UploadStored,
           UploadBroken, StorePart, StoreRest, UploadVerified, PullDump,
           PanelCrash, ModRead, ModClear, RunBlock, RunNameless, SkipBlock, Pulse, Claim,
           Leave, WorldSave, JvmStop, JvmStart, TypeOK

LEMMA AckStep == ASSUME TypeOK, TypeOK', AckInv, [Next]_vars PROVE AckInv'
<1>1. AckTruthful'
    <2> SUFFICES ASSUME NEW i \in DOMAIN jobs', jobs'[i].status \in {"ok", "error"}
                 PROVE  [id |-> i, ok |-> jobs'[i].status = "ok"] \in results'
        BY DEF AckTruthful
    <2>1. i \in DOMAIN jobs
        BY NewJobsAreQueued
    <2>2. CASE jobs'[i].status = jobs[i].status
        BY <2>1, <2>2, AckFilesStep DEF AckInv, AckTruthful
    <2>3. CASE /\ shownAck' # NoAck /\ i = shownAck'.id
               /\ jobs'[i].status = IF shownAck'.ok THEN "ok" ELSE "error"
        <3>1. shownAck' \in results' /\ shownAck' \in Ack
            BY <2>3, AckFilesStep DEF TypeOK
        <3>2. shownAck' = [id |-> i, ok |-> shownAck'.ok] /\ shownAck'.ok \in BOOLEAN
            BY <2>3, <3>1 DEF Ack
        <3>3. (jobs'[i].status = "ok") = shownAck'.ok
            BY <2>3, <3>2
        <3> QED BY <3>1, <3>2, <3>3
    <2> QED BY <2>1, <2>2, <2>3, StatusesChange DEF StatusStep
<1> QED BY <1>1, AckFilesStep, SendingStep DEF AckInv

LEMMA AckInit == Init => AckInv
BY DEF Init, AckInv, AckTruthful

(***************************************************************************)
(* The panel shows an outcome only for a job that was run with it.         *)
(***************************************************************************)
THEOREM AcksAreTruthful == Spec => []AckTruthful
<1>1. TypeOK /\ TypeOK' /\ AckInv /\ [Next]_vars => AckInv'
    BY AckStep
<1>2. AckInv => AckTruthful
    BY DEF AckInv
<1> QED BY <1>1, <1>2, AckInit, TypeCorrect, PTL DEF Spec

(***************************************************************************)
(* A status other than "queued" is final for the panel's whole life.       *)
(***************************************************************************)
THEOREM AnswersStay == Spec => AnswersAreFinal
<1>1. TypeOK /\ TypeOK' /\ AckInv /\ [Next]_vars => AckInv'
    BY AckStep
<1>2. TypeOK /\ AckInv /\ [Next]_vars
        => [\A i \in DOMAIN jobs :
                jobs[i].status # "queued" => jobs'[i].status = jobs[i].status]_vars
    BY StatusesChange DEF StatusStep
<1> QED BY <1>1, <1>2, AckInit, TypeCorrect, PTL DEF Spec, AnswersAreFinal

(***************************************************************************)
(* Before the first restart the mod's memory covers every result, and a    *)
(* job has one result at most.                                             *)
(***************************************************************************)
SingleResult ==
    restarts = 0 =>
        /\ RanIds(results) \subseteq seen
        /\ \A r, q \in results : r.id = q.id => r = q

LEMMA SingleResultStep == ASSUME TypeOK, SingleResult, [Next]_vars PROVE SingleResult'
<1>1. CASE UNCHANGED <<seen, results, restarts>>
    BY <1>1 DEF SingleResult
<1>2. ASSUME NEW b \in todo, RunBlock(b) PROVE SingleResult'
    <2>1. PICK ok \in BOOLEAN : results' = results \cup {[id |-> b.id, ok |-> ok]}
        BY <1>2, RunBlockEffect
    <2>2. b.id \notin seen /\ seen' = seen \cup {b.id} /\ restarts' = restarts
        BY <1>2 DEF RunBlock, SeenBefore, bounds
    <2> SUFFICES ASSUME restarts = 0
                 PROVE  /\ RanIds(results') \subseteq seen'
                        /\ \A r, q \in results' : r.id = q.id => r = q
        BY <2>2 DEF SingleResult
    <2>3. \A r \in results : r.id \in seen
        BY DEF SingleResult, RanIds
    <2> QED BY <2>1, <2>2, <2>3 DEF SingleResult, RanIds
<1>3. CASE JvmStop
    BY <1>3 DEF JvmStop, SingleResult, TypeOK
<1> QED
    BY <1>1, <1>2, <1>3
       DEF Next, vars, ModStep, PanelStep, Enqueue, WriteLocalCmd, UploadStored,
           UploadBroken, StorePart, StoreRest, UploadVerified, PullDump, PullAck,
           PanelCrash, ModRead, ModClear, RunNameless, SkipBlock, Pulse, Claim, Leave, WorldSave,
           JvmStart, jvmVars, history, bounds

(***************************************************************************)
(* Until the JVM is restarted, "error" means that the job changed nothing. *)
(***************************************************************************)
THEOREM ErrorsHadNoEffect == Spec => []ErrorMeansNoEffect
<1>1. Init => SingleResult
    BY DEF Init, SingleResult, RanIds
<1>2. TypeOK /\ SingleResult /\ [Next]_vars => SingleResult'
    BY SingleResultStep
<1>3. TypeOK /\ AckTruthful /\ SingleResult => ErrorMeansNoEffect
    <2> SUFFICES ASSUME TypeOK, AckTruthful, SingleResult, restarts = 0,
                        NEW i \in DOMAIN jobs, jobs[i].status = "error",
                        [id |-> i, ok |-> TRUE] \in results
                 PROVE  FALSE
        BY DEF ErrorMeansNoEffect
    <2>1. [id |-> i, ok |-> FALSE] \in results
        BY DEF AckTruthful
    <2>2. [id |-> i, ok |-> FALSE] = [id |-> i, ok |-> TRUE]
        BY <2>1 DEF SingleResult
    <2> QED BY <2>2
<1> QED BY <1>1, <1>2, <1>3, TypeCorrect, AcksAreTruthful, PTL DEF Spec
-----------------------------------------------------------------------------
(***************************************************************************)
(* Jobs take effect in the order they were sent.                           *)
(*                                                                         *)
(* A job that has not run can still reach the mod from four places: the    *)
(* blocks the mod has read (todo), the command file, the body the panel is *)
(* sending, and the queued jobs of the queue file, which every later body  *)
(* repeats.  The mod drains them in this order.  The invariant says that a *)
(* job is never in a later place than a younger one unless it is also in   *)
(* the younger one's place, and in none once a younger one ran; save for   *)
(* the jobs a hole in a half-cleared store has overtaken.                  *)
(***************************************************************************)
Ids(blocks) == {b.id : b \in blocks}

\* Ran, lost in a hole, in todo, in the command file, in the body, pending.
Ordered(R, L, T, F, B, P) ==
    \A i, j \in Nat : i < j /\ i \notin R /\ i \notin L =>
        /\ j \in R => i \notin T \cup F \cup B \cup P
        /\ j \in T /\ i \notin T => i \notin F \cup B \cup P
        /\ j \in F /\ i \notin F => i \notin B \cup P

\* Only the last block of a text can be torn, and ids do not repeat.
TornLast(blocks) ==
    \A b \in blocks : ~ b.whole => \A c \in blocks \ {b} : c.id < b.id

Ran == RanIds(results)
Pend == PendingJobs(jobs, oldest)

OrderInv ==
    /\ seen \subseteq Ran
    /\ Ran \subseteq DOMAIN jobs
    /\ TornLast(todo) /\ TornLast(cmdFile)
    /\ jvm \in {"idle", "down"} => todo = {}
    /\ panel \in {"idle", "pulled"} => body = {}
    /\ panel \in {"write", "upload", "storing", "verify"} => Pend \subseteq body
    /\ Ordered(Ran, lost, Ids(todo), Ids(cmdFile), body, Pend)

(***************************************************************************)
(* The moves of jobs between the places, on sets of numbers.               *)
(***************************************************************************)

\* Bodies end and queued jobs get answers.
LEMMA OrderedShrink ==
    ASSUME NEW R, NEW L, NEW T, NEW F, NEW B, NEW P, Ordered(R, L, T, F, B, P),
           NEW B1 \in SUBSET B, NEW P1 \in SUBSET P
    PROVE  Ordered(R, L, T, F, B1, P1)
BY DEF Ordered

\* The mod reads the file.
LEMMA OrderedRead ==
    ASSUME NEW R, NEW L, NEW F, NEW B, NEW P, Ordered(R, L, {}, F, B, P)
    PROVE  Ordered(R, L, F, F, B, P)
BY DEF Ordered

\* The mod clears the file.
LEMMA OrderedClear ==
    ASSUME NEW R, NEW L, NEW T, NEW F, NEW B, NEW P, Ordered(R, L, T, F, B, P)
    PROVE  Ordered(R, L, T, {}, B, P)
BY DEF Ordered

\* The file becomes an initial part of the body, which holds all the pending.
LEMMA OrderedStore ==
    ASSUME NEW R, NEW L, NEW T, NEW F, NEW B, NEW P, Ordered(R, L, T, F, B, P),
           P \subseteq B, NEW F1 \in SUBSET B,
           \A i \in B, j \in F1 : i < j => i \in F1
    PROVE  Ordered(R, L, T, F1, B, P)
BY DEF Ordered

\* The file becomes a later part of the body, and what is before it is lost.
LEMMA OrderedHole ==
    ASSUME NEW R, NEW L, NEW T, NEW F, NEW B, NEW P, Ordered(R, L, T, F, B, P),
           P \subseteq B, NEW F1 \in SUBSET B
    PROVE  Ordered(R, L \cup (B \ F1), T, F1, B, P)
BY DEF Ordered

\* The mod runs the first of the blocks it has read, or skips one that ran.
LEMMA OrderedRun ==
    ASSUME NEW R, NEW L, NEW T, NEW F, NEW B, NEW P, Ordered(R, L, T, F, B, P),
           T \subseteq Nat, NEW k \in T, \A j \in T : k <= j
    PROVE  Ordered(R \cup {k}, L, T \ {k}, F, B, P)
BY DEF Ordered

\* The mod forgets what it has read, or has nothing more.
LEMMA OrderedForget ==
    ASSUME NEW R, NEW L, NEW T, NEW F, NEW B, NEW P, Ordered(R, L, T, F, B, P)
    PROVE  Ordered(R, L, {}, F, B, P)
BY DEF Ordered

\* A new job is younger than every job in the four places.
LEMMA OrderedEnqueue ==
    ASSUME NEW n \in Nat, NEW L, NEW R \in SUBSET (1 .. n), NEW T \in SUBSET (1 .. n),
           NEW F \in SUBSET (1 .. n), NEW P \in SUBSET (1 .. n),
           Ordered(R, L, T, F, {}, P),
           NEW B1 \in SUBSET (P \cup {n + 1}), NEW P1 \in SUBSET (P \cup {n + 1})
    PROVE  Ordered(R, L, T, F, B1, P1)
<1> SUFFICES ASSUME NEW i \in Nat, NEW j \in Nat, i < j, i \notin R, i \notin L
             PROVE  /\ j \in R => i \notin T \cup F \cup B1 \cup P1
                    /\ j \in T /\ i \notin T => i \notin F \cup B1 \cup P1
                    /\ j \in F /\ i \notin F => i \notin B1 \cup P1
    BY DEF Ordered
<1>1. j \in R \cup T \cup F => i # n + 1
    OBVIOUS
<1>2. /\ j \in R => i \notin T \cup F \cup P
      /\ j \in T /\ i \notin T => i \notin F \cup P
      /\ j \in F /\ i \notin F => i \notin P
    BY DEF Ordered
<1>3. i \in B1 \cup P1 => i \in P \/ i = n + 1
    OBVIOUS
<1> QED BY <1>1, <1>2, <1>3

(***************************************************************************)
(* Blocks and their ids.                                                   *)
(***************************************************************************)

LEMMA WholeIds ==
    ASSUME NEW S
    PROVE  Ids(Whole(S)) = S /\ TornLast(Whole(S))
<1>1. \A i \in S : [id |-> i, whole |-> TRUE].id = i
    OBVIOUS
<1>2. \A b \in Whole(S) : b.id \in S /\ b.whole = TRUE
    BY DEF Whole
<1>3. S \subseteq Ids(Whole(S))
    <2> SUFFICES ASSUME NEW i \in S PROVE i \in Ids(Whole(S))
        OBVIOUS
    <2>1. [id |-> i, whole |-> TRUE] \in Whole(S)
        BY DEF Whole
    <2> QED BY <1>1, <2>1 DEF Ids
<1>4. Ids(Whole(S)) \subseteq S
    BY <1>2 DEF Ids
<1>5. TornLast(Whole(S))
    BY <1>2 DEF TornLast
<1> QED BY <1>3, <1>4, <1>5

\* What STOR leaves behind is an initial part of the body, its last block torn.
LEMMA StoredIds ==
    ASSUME TypeOK, NEW k \in body, NEW torn \in BOOLEAN
    PROVE  /\ Ids(Stored(k, torn)) \subseteq body
           /\ \A i \in body, j \in Ids(Stored(k, torn)) : i < j => i \in Ids(Stored(k, torn))
           /\ TornLast(Stored(k, torn))
<1>1. body \subseteq Nat
    BY DEF TypeOK
<1> DEFINE before == {i \in body : i < k}
<1>2. CASE torn
    <2> DEFINE b == [id |-> k, whole |-> FALSE]
    <2>1. Stored(k, torn) = Whole(before) \cup {b}
        BY <1>2 DEF Stored
    <2>2. Ids(Whole(before) \cup {b}) = Ids(Whole(before)) \cup {b.id}
        BY DEF Ids
    <2>3. Ids(Stored(k, torn)) = before \cup {k}
        BY <2>1, <2>2, WholeIds
    <2>4. \A c \in Whole(before) : c.whole = TRUE /\ c.id < k
        BY DEF Whole
    <2>5. b.id = k /\ b.whole = FALSE
        OBVIOUS
    <2>6. TornLast(Stored(k, torn))
        <3> HIDE DEF b
        <3> QED BY <2>1, <2>4, <2>5 DEF TornLast
    <2>7. \A i \in body, j \in before \cup {k} : i < j => i \in before \cup {k}
        BY <1>1
    <2>8. before \cup {k} \subseteq body
        OBVIOUS
    <2> HIDE DEF before
    <2> QED BY <2>3, <2>6, <2>7, <2>8
<1>3. CASE ~ torn
    <2>1. Stored(k, torn) = Whole(before)
        BY <1>3 DEF Stored
    <2>2. \A i \in body, j \in before : i < j => i \in before
        BY <1>1
    <2>3. before \subseteq body
        OBVIOUS
    <2> HIDE DEF before
    <2>4. Ids(Stored(k, torn)) = before /\ TornLast(Stored(k, torn))
        BY <2>1, WholeIds
    <2> QED BY <2>2, <2>3, <2>4
<1> QED BY <1>2, <1>3

LEMMA PlacesType ==
    ASSUME TypeOK
    PROVE  /\ Len(jobs) \in Nat /\ DOMAIN jobs = 1 .. Len(jobs)
           /\ Ids(todo) \subseteq DOMAIN jobs /\ Ids(cmdFile) \subseteq DOMAIN jobs
           /\ body \subseteq DOMAIN jobs /\ Pend \subseteq DOMAIN jobs
<1>1. /\ Len(jobs) \in Nat /\ DOMAIN jobs = 1 .. Len(jobs)
      /\ body \subseteq DOMAIN jobs /\ oldest \in Nat \ {0}
    BY DEF TypeOK
<1>2. Ids(todo) \subseteq DOMAIN jobs /\ Ids(cmdFile) \subseteq DOMAIN jobs
    BY DEF TypeOK, Ids
<1>3. Pend \subseteq DOMAIN jobs
    BY <1>1 DEF Pend, PendingJobs
<1> QED BY <1>1, <1>2, <1>3

\* Answers, and a queue file that was cut or lost, only take jobs off the pending.
LEMMA PendShrinks ==
    ASSUME TypeOK, TypeOK', AckInv, [Next]_vars, Len(jobs') = Len(jobs),
           oldest' >= oldest
    PROVE  Pend' \subseteq Pend
<1> SUFFICES ASSUME NEW i \in Pend' PROVE i \in Pend
    OBVIOUS
<1>1. /\ i \in oldest' .. Len(jobs') /\ jobs'[i].status = "queued"
      /\ oldest \in Nat \ {0} /\ oldest' \in Nat \ {0} /\ Len(jobs) \in Nat
      /\ DOMAIN jobs = 1 .. Len(jobs)
    BY DEF Pend, PendingJobs, TypeOK
<1>2. i \in oldest .. Len(jobs) /\ i \in DOMAIN jobs
    BY <1>1
<1>3. jobs[i].status = "queued"
    BY <1>1, <1>2, StatusesChange DEF StatusStep
<1> QED BY <1>2, <1>3 DEF Pend, PendingJobs

(***************************************************************************)
(* One step of the bridge preserves the order.                             *)
(***************************************************************************)

LEMMA OrderEnqueue ==
    ASSUME TypeOK, OrderInv, NEW c \in Cmds, NEW upload \in BOOLEAN, Enqueue(c, upload)
    PROVE  OrderInv'
<1> DEFINE n == Len(jobs)
<1>1. /\ n \in Nat /\ DOMAIN jobs = 1 .. n /\ Len(jobs') = n + 1
      /\ \A i \in 1 .. n : jobs'[i] = jobs[i]
      /\ DOMAIN jobs' = 1 .. (n + 1)
    BY DEF Enqueue, TypeOK
<1>2. oldest' \in Nat /\ oldest' >= oldest /\ oldest \in Nat \ {0}
    BY <1>1, SetupAssumption DEF Enqueue, TypeOK, Cut
<1>3. PendingJobs(jobs', oldest) \subseteq Pend \cup {n + 1}
    BY <1>1, <1>2 DEF Pend, PendingJobs
<1>4. Pend' \subseteq PendingJobs(jobs', oldest)
    BY <1>1, <1>2 DEF Pend, PendingJobs
<1>5. body = {} /\ panel = "idle"
    BY DEF Enqueue, OrderInv
<1>6. body' \subseteq Pend \cup {n + 1} /\ (panel' # "idle" => body' = PendingJobs(jobs', oldest))
    BY <1>3, <1>5 DEF Enqueue
<1>7. Ran' = Ran /\ todo' = todo /\ cmdFile' = cmdFile /\ seen' = seen /\ jvm' = jvm
      /\ lost' = lost
    BY DEF Enqueue, Ran, RanIds, jvmVars, history
<1>8. Ordered(Ran, lost, Ids(todo), Ids(cmdFile), body', Pend')
    <2>1. Ran \subseteq 1 .. n /\ Ids(todo) \subseteq 1 .. n /\ Ids(cmdFile) \subseteq 1 .. n
          /\ Pend \subseteq 1 .. n
        BY <1>1, PlacesType DEF OrderInv
    <2>2. Ordered(Ran, lost, Ids(todo), Ids(cmdFile), {}, Pend)
        BY <1>5 DEF OrderInv
    <2>3. Pend' \subseteq Pend \cup {n + 1}
        BY <1>3, <1>4
    <2> QED BY <1>1, <1>6, <2>1, <2>2, <2>3, OrderedEnqueue
<1>9. panel' \in {"idle", "pulled"} => body' = {}
    BY <1>5 DEF Enqueue
<1>10. panel' \in {"write", "upload", "storing", "verify"} => Pend' \subseteq body'
    BY <1>4, <1>6 DEF Enqueue
<1>11. Ran' \subseteq DOMAIN jobs'
    BY <1>1, <1>7 DEF OrderInv
<1> QED BY <1>7, <1>8, <1>9, <1>10, <1>11 DEF OrderInv, Ids

\* Steps of the panel that leave the command file and the mod alone.
LEMMA OrderQuiet ==
    ASSUME TypeOK, TypeOK', AckInv, OrderInv, [Next]_vars,
           UNCHANGED <<cmdFile, todo, seen, results, lost>>,
           jvm' = jvm \/ (todo = {} /\ jvm' # "read"),
           Len(jobs') = Len(jobs), oldest' >= oldest,
           \/ panel' = panel /\ body' = body
           \/ panel' \in {"idle", "pulled"} /\ body' = {}
           \/ panel \in {"write", "upload", "storing", "verify"} /\ panel' = "verify" /\ body' = body
    PROVE  OrderInv'
<1>1. Pend' \subseteq Pend /\ body' \subseteq body
    BY PendShrinks DEF OrderInv
<1>2. Ran' = Ran /\ Ids(todo)' = Ids(todo) /\ Ids(cmdFile)' = Ids(cmdFile)
    BY DEF Ran, RanIds, Ids
<1>3. Ordered(Ran, lost, Ids(todo), Ids(cmdFile), body', Pend')
    BY <1>1, OrderedShrink DEF OrderInv
<1>4. DOMAIN jobs' = DOMAIN jobs
    BY DEF TypeOK
<1>5. panel' \in {"write", "upload", "storing", "verify"} => Pend' \subseteq body'
    BY <1>1 DEF OrderInv
<1>6. panel' \in {"idle", "pulled"} => body' = {}
    BY DEF OrderInv
<1>7. TornLast(todo') /\ TornLast(cmdFile')
    BY DEF OrderInv
<1>8. jvm' \in {"idle", "down"} => todo' = {}
    BY DEF OrderInv
<1> QED BY <1>2, <1>3, <1>4, <1>5, <1>6, <1>7, <1>8 DEF OrderInv

\* The command file is written: a whole body, or an initial part of it.
LEMMA OrderStore ==
    ASSUME TypeOK, TypeOK', AckInv, OrderInv, [Next]_vars,
           UNCHANGED <<jvm, todo, seen, results, lost, oldest>>,
           Len(jobs') = Len(jobs),
           panel \in {"write", "upload", "storing"},
           Ids(cmdFile') \subseteq body, TornLast(cmdFile'),
           \A i \in body, j \in Ids(cmdFile') : i < j => i \in Ids(cmdFile'),
           \/ panel' \in {"write", "storing", "verify"} /\ body' = body
           \/ panel' = "idle" /\ body' = {}
    PROVE  OrderInv'
<1>1. Pend' \subseteq Pend /\ body' \subseteq body /\ Pend \subseteq body
    <2>1. oldest' >= oldest
        BY DEF TypeOK
    <2> QED BY <2>1, PendShrinks DEF OrderInv
<1>2. Ordered(Ran, lost, Ids(todo), Ids(cmdFile'), body, Pend)
    BY <1>1, OrderedStore DEF OrderInv
<1>3. Ordered(Ran, lost, Ids(todo), Ids(cmdFile'), body', Pend')
    BY <1>1, <1>2, OrderedShrink
<1>4. Ran' = Ran /\ Ids(todo)' = Ids(todo) /\ Ids(cmdFile)' = Ids(cmdFile')
    BY DEF Ran, RanIds, Ids
<1>5. DOMAIN jobs' = DOMAIN jobs
    BY DEF TypeOK
<1>6. panel' \in {"write", "upload", "storing", "verify"} => Pend' \subseteq body'
    BY <1>1
<1> QED BY <1>3, <1>4, <1>5, <1>6 DEF OrderInv

\* The rest of a body goes behind a hole: what the hole took is lost.
LEMMA OrderHole ==
    ASSUME TypeOK, OrderInv, panel = "storing", panel' = "verify",
           UNCHANGED <<jobs, body, jvm, todo, seen, results, oldest>>,
           cmdFile' = Whole({i \in body : i > left}),
           lost' = lost \cup {i \in body : i <= left}
    PROVE  OrderInv'
<1>1. left \in Nat /\ body \subseteq Nat /\ Pend \subseteq body
    BY DEF TypeOK, OrderInv
<1>2. Ordered(Ran, lost', Ids(todo), {i \in body : i > left}, body, Pend)
    <2>1. Ordered(Ran, lost, Ids(todo), Ids(cmdFile), body, Pend)
        BY DEF OrderInv
    <2> DEFINE rest == {i \in body : i > left}
    <2>2. rest \subseteq body /\ lost' = lost \cup (body \ rest)
        <3>1. \A i \in body : i <= left <=> ~ (i > left)
            BY <1>1
        <3>2. {i \in body : i <= left} = body \ rest
            BY <3>1
        <3> QED BY <3>2
    <2> HIDE DEF rest
    <2>3. Ordered(Ran, lost \cup (body \ rest), Ids(todo), rest, body, Pend)
        BY <1>1, <2>1, <2>2, OrderedHole
    <2>4. Ordered(Ran, lost', Ids(todo), rest, body, Pend)
        BY <2>2, <2>3
    <2> QED BY <2>4 DEF rest
<1>3. Ids(cmdFile') = {i \in body : i > left} /\ TornLast(cmdFile')
    BY WholeIds
<1>4. /\ Ran' = Ran /\ Pend' = Pend /\ Ids(todo)' = Ids(todo)
      /\ Ids(cmdFile)' = Ids(cmdFile')
    BY DEF Ran, RanIds, Pend, PendingJobs, Ids
<1>5. Ordered(Ran, lost, Ids(todo), Ids(cmdFile), body, Pend)'
    BY <1>2, <1>3, <1>4
<1> QED BY <1>1, <1>3, <1>4, <1>5 DEF OrderInv

LEMMA OrderRead == ASSUME TypeOK, OrderInv, ModRead PROVE OrderInv'
<1>1. todo = {} /\ Ids({}) = {}
    BY DEF ModRead, OrderInv, Ids
<1>2. Ordered(Ran, lost, Ids(cmdFile), Ids(cmdFile), body, Pend)
    BY <1>1, OrderedRead DEF OrderInv
<1>3. UNCHANGED <<jobs, oldest, panel, body, cmdFile, seen, results, lost>> /\ todo' = cmdFile /\ jvm' = "read"
    BY DEF ModRead, panelVars, queueVars, history
<1> QED BY <1>2, <1>3 DEF OrderInv, Ran, RanIds, Pend, PendingJobs, Ids

LEMMA OrderClear == ASSUME TypeOK, OrderInv, ModClear PROVE OrderInv'
<1>1. Ids({}) = {} /\ TornLast({})
    BY DEF Ids, TornLast
<1>2. Ordered(Ran, lost, Ids(todo), {}, body, Pend)
    BY OrderedClear DEF OrderInv
<1>3. /\ UNCHANGED <<jobs, oldest, panel, body, todo, seen, results, lost>>
      /\ cmdFile' = {} /\ jvm' = "apply"
    BY DEF ModClear, panelVars, queueVars, history
<1>4. Ids(cmdFile)' = {}
    BY <1>1, <1>3 DEF Ids
<1>5. Ran' = Ran /\ Pend' = Pend /\ Ids(todo)' = Ids(todo)
    BY <1>3 DEF Ran, RanIds, Pend, PendingJobs, Ids
<1> QED BY <1>1, <1>2, <1>3, <1>4, <1>5 DEF OrderInv

\* The first block's id is the least id read, and it leaves with its block.
LEMMA FirstLeaves ==
    ASSUME TypeOK, OrderInv, NEW b \in todo, FirstBlock(b), b.id \in Nat
    PROVE  /\ Ids(todo) \subseteq Nat /\ \A j \in Ids(todo) : b.id <= j
           /\ b.id \in Ids(todo)
           /\ Ids(todo \ {b}) \subseteq Ids(todo)
           /\ Ids(todo) \subseteq Ids(todo \ {b}) \cup {b.id}
           /\ TornLast(todo \ {b})
           /\ ~ b.whole => todo = {b}
<1>1. Ids(todo) \subseteq Nat
    BY PlacesType
<1>2. \A c \in todo : c.id \in Nat /\ b.id <= c.id
    BY <1>1 DEF FirstBlock, Ids
<1>3. ~ b.whole => todo = {b}
    BY <1>2 DEF OrderInv, TornLast
<1>4. TornLast(todo \ {b})
    BY DEF OrderInv, TornLast
<1> QED BY <1>1, <1>2, <1>3, <1>4 DEF Ids

\* The order survives when the first block read has run, now or before.
LEMMA OrderNext ==
    ASSUME TypeOK, OrderInv, NEW b \in todo, FirstBlock(b), NextBlock(b),
           b.id \in DOMAIN jobs,
           UNCHANGED <<jobs, oldest, panel, body, cmdFile, lost>>,
           Ran' = Ran \cup {b.id}, seen' \subseteq seen \cup {b.id}
    PROVE  OrderInv'
<1>1. b.id \in Nat /\ todo' = todo \ {b}
    BY PlacesType DEF NextBlock
<1>2. Ids(todo') \ {b.id} = Ids(todo) \ {b.id}
    BY <1>1, FirstLeaves
<1>3. Ordered(Ran', lost, Ids(todo) \ {b.id}, Ids(cmdFile), body, Pend)
    BY <1>1, FirstLeaves, OrderedRun DEF OrderInv
<1>4. Ordered(Ran', lost, Ids(todo'), Ids(cmdFile), body, Pend)
    <2> DEFINE T == Ids(todo)  T1 == Ids(todo')
    <2>1. T1 = T \ {b.id} \/ T1 = (T \ {b.id}) \cup {b.id}
        BY <1>1, <1>2, FirstLeaves
    <2>2. b.id \notin T1
        <3>1. CASE ~ b.whole
            <4>1. todo' = {}
                BY <1>1, <3>1, FirstLeaves
            <4> QED BY <4>1 DEF Ids
        <3>2. CASE b.whole
            <4>1. ASSUME NEW d \in todo', d.id = b.id
                  PROVE  FALSE
                <5>1. d \in todo /\ d # b /\ d \in [id : DOMAIN jobs, whole : BOOLEAN]
                      /\ b \in [id : DOMAIN jobs, whole : BOOLEAN]
                    BY <1>1 DEF TypeOK
                <5>2. ~ d.whole
                    BY <3>2, <4>1, <5>1
                <5>3. b.id < d.id
                    BY <5>1, <5>2 DEF OrderInv, TornLast
                <5> QED BY <1>1, <4>1, <5>3
            <4> QED BY <4>1 DEF Ids
        <3> QED BY <3>1, <3>2
    <2> QED BY <1>3, <2>1, <2>2
<1>5. jvm' \in {"idle", "down"} => todo' = {}
    BY <1>1 DEF NextBlock
<1>6. Ids(todo)' = Ids(todo') /\ Ids(cmdFile)' = Ids(cmdFile) /\ Pend' = Pend
    BY DEF Ids, Pend, PendingJobs
<1>7. TornLast(todo')
    BY <1>1, FirstLeaves
<1>8. seen' \subseteq Ran' /\ Ran' \subseteq DOMAIN jobs'
    BY DEF OrderInv
<1> QED BY <1>4, <1>5, <1>6, <1>7, <1>8 DEF OrderInv

LEMMA OrderRun ==
    ASSUME TypeOK, OrderInv, NEW b \in todo, RunBlock(b) PROVE OrderInv'
<1>1. Ran' = Ran \cup {b.id}
    BY RunBlockEffect DEF Ran, RanIds
<1> QED BY <1>1, RunBlockEffect, OrderNext DEF RunBlock, panelVars, queueVars

\* A torn block is the last one: after it the mod has nothing read.
LEMMA OrderTorn ==
    ASSUME TypeOK, OrderInv, NEW b \in todo, FirstBlock(b), NextBlock(b), ~ b.whole,
           b.id \in Nat,
           UNCHANGED <<jobs, oldest, panel, body, cmdFile, seen, results, lost>>
    PROVE  OrderInv'
<1>1. todo' = {} /\ Ids({}) = {} /\ TornLast({})
    BY FirstLeaves DEF NextBlock, Ids, TornLast
<1>2. Ordered(Ran, lost, {}, Ids(cmdFile), body, Pend)
    BY OrderedForget DEF OrderInv
<1>3. Ids(todo)' = {} /\ Ids(cmdFile)' = Ids(cmdFile) /\ Pend' = Pend /\ Ran' = Ran
    BY <1>1 DEF Ids, Pend, PendingJobs, Ran, RanIds
<1> QED BY <1>1, <1>2, <1>3 DEF OrderInv

LEMMA OrderNameless ==
    ASSUME TypeOK, OrderInv, NEW b \in todo, RunNameless(b) PROVE OrderInv'
<1>1. b.id \in Nat
    BY DEF TypeOK
<1> QED BY <1>1, OrderTorn DEF RunNameless, panelVars, queueVars, history

LEMMA OrderSkip ==
    ASSUME TypeOK, OrderInv, NEW b \in todo, SkipBlock(b) PROVE OrderInv'
<1>1. /\ FirstBlock(b) /\ NextBlock(b) /\ b.id \in DOMAIN jobs /\ b.id \in Nat
      /\ UNCHANGED <<jobs, oldest, panel, body, cmdFile, seen, results, lost>>
    BY DEF SkipBlock, TypeOK, panelVars, queueVars, history
<1>2. CASE b.id \in seen
    <2>1. Ran' = Ran
        BY <1>1 DEF Ran, RanIds
    <2>2. Ran' = Ran \cup {b.id}
        BY <1>2, <2>1 DEF OrderInv
    <2> QED BY <1>1, <2>2, OrderNext
<1>3. CASE ~ b.whole
    BY <1>1, <1>3, OrderTorn
<1> QED BY <1>2, <1>3 DEF SkipBlock, SeenBefore

LEMMA OrderStop == ASSUME TypeOK, OrderInv, JvmStop PROVE OrderInv'
<1>1. /\ UNCHANGED <<jobs, oldest, panel, body, cmdFile, results, lost>>
      /\ todo' = {} /\ seen' = {} /\ Ids({}) = {} /\ TornLast({})
    BY DEF JvmStop, panelVars, queueVars, Ids, TornLast
<1>2. Ordered(Ran, lost, {}, Ids(cmdFile), body, Pend)
    BY OrderedForget DEF OrderInv
<1>3. Ids(todo)' = {} /\ Ids(cmdFile)' = Ids(cmdFile) /\ Pend' = Pend /\ Ran' = Ran
    BY <1>1 DEF Ids, Pend, PendingJobs, Ran, RanIds
<1> QED BY <1>1, <1>2, <1>3 DEF OrderInv

LEMMA OrderPanel ==
    ASSUME TypeOK, TypeOK', AckInv, OrderInv, [Next]_vars,
           PanelStep \/ PullDump
    PROVE  OrderInv'
<1>1. CASE WriteLocalCmd
    <2>1. panel = "write" /\ cmdFile' = Whole(body)
          /\ UNCHANGED <<jvm, todo, seen, results, lost, oldest>>
        BY <1>1 DEF WriteLocalCmd, jvmVars, history
    <2>2. /\ Len(jobs') = Len(jobs)
          /\ \/ panel' \in {"write", "verify"} /\ body' = body
             \/ panel' = "idle" /\ body' = {}
        <3>1. CASE left = 1
            <4>1. EndRequest(FALSE) /\ jobs # <<>> /\ jobs \in Seq(Job)
                BY <1>1, <3>1 DEF WriteLocalCmd, TypeOK
            <4>2. DOMAIN jobs' = DOMAIN jobs /\ panel' = "idle" /\ body' = {}
                BY <4>1, EndKeepsType
            <4>3. Len(jobs') = Len(jobs)
                BY <4>2 DEF TypeOK
            <4> QED BY <4>2, <4>3
        <3>2. CASE left # 1
            BY <1>1, <2>1, <3>2 DEF WriteLocalCmd
        <3> QED BY <3>1, <3>2
    <2>3. Ids(cmdFile') = body /\ TornLast(cmdFile')
        BY <2>1, WholeIds
    <2> QED BY <2>1, <2>2, <2>3, OrderStore
<1>2. CASE UploadStored
    <2>1. /\ panel = "upload" /\ cmdFile' = Whole(body) /\ panel' = "verify"
          /\ UNCHANGED <<jobs, body, jvm, todo, seen, results, lost, oldest>>
        BY <1>2 DEF UploadStored, queueVars, jvmVars, history
    <2> QED BY <2>1, WholeIds, OrderStore
<1>3. ASSUME NEW uploaded \in BOOLEAN, EndRequest(uploaded),
             panel \in {"upload", "storing", "verify"}
      PROVE  Len(jobs') = Len(jobs) /\ panel' = "idle" /\ body' = {}
    <2>1. DOMAIN jobs' = DOMAIN jobs /\ panel' = "idle" /\ body' = {}
        BY <1>3, EndKeepsType DEF TypeOK
    <2> QED BY <2>1 DEF TypeOK
<1>4. CASE UploadBroken
    <2>1. /\ panel \in {"upload", "storing"} /\ Len(jobs') = Len(jobs) /\ panel' = "idle" /\ body' = {}
          /\ UNCHANGED <<jvm, todo, seen, results, lost, oldest>>
        BY <1>3, <1>4 DEF UploadBroken, jvmVars, history
    <2>2. CASE UNCHANGED cmdFile
        <3>1. oldest' >= oldest
            BY <2>1 DEF TypeOK
        <3> QED BY <2>1, <2>2, <3>1, OrderQuiet
    <2>3. ASSUME NEW k \in body, NEW torn \in BOOLEAN, cmdFile' = Stored(k, torn)
          PROVE  OrderInv'
        BY <2>1, <2>3, StoredIds, OrderStore
    <2> QED BY <1>4, <2>2, <2>3 DEF UploadBroken
<1>5. CASE StorePart
    <2>1. PICK k \in body, torn \in BOOLEAN : cmdFile' = Stored(k, torn)
        BY <1>5 DEF StorePart
    <2>2. /\ panel = "upload" /\ panel' = "storing"
          /\ UNCHANGED <<jobs, body, jvm, todo, seen, results, lost, oldest>>
        BY <1>5 DEF StorePart, queueVars, jvmVars, history
    <2> QED BY <2>1, <2>2, StoredIds, OrderStore
<1>9. CASE StoreRest
    <2>1. /\ panel = "storing" /\ panel' = "verify"
          /\ UNCHANGED <<jobs, body, jvm, todo, seen, results, oldest>>
        BY <1>9 DEF StoreRest, queueVars, jvmVars
    <2>2. CASE cmdFile # {}
        <3>1. cmdFile' = Whole(body) /\ lost' = lost
            BY <1>9, <2>2 DEF StoreRest
        <3> QED BY <2>1, <3>1, WholeIds, OrderStore
    <2>3. CASE cmdFile = {}
        <3>1. /\ cmdFile' = Whole({i \in body : i > left})
              /\ lost' = lost \cup {i \in body : i <= left}
            BY <1>9, <2>3 DEF StoreRest
        <3> QED BY <2>1, <3>1, OrderHole
    <2> QED BY <2>2, <2>3
<1>6. CASE UploadVerified
    <2>1. /\ panel = "verify" /\ Len(jobs') = Len(jobs) /\ panel' = "idle" /\ body' = {}
          /\ UNCHANGED <<jvm, todo, seen, results, lost, oldest, cmdFile>>
        BY <1>3, <1>6 DEF UploadVerified, jvmVars, history
    <2>2. oldest' >= oldest
        BY <2>1 DEF TypeOK
    <2> QED BY <2>1, <2>2, OrderQuiet
<1>7. CASE PullDump
    <2>1. /\ panel = "idle" /\ panel' = "pulled" /\ body = {}
          /\ UNCHANGED <<jobs, oldest, body, jvm, todo, seen, results, lost, cmdFile>>
        BY <1>7 DEF PullDump, OrderInv, queueVars, jvmVars, history
    <2>2. oldest' >= oldest
        BY <2>1 DEF TypeOK
    <2> QED BY <2>1, <2>2, OrderQuiet
<1>8. CASE PullAck
    <2>1. /\ panel = "pulled" /\ panel' = "idle" /\ body = {}
          /\ UNCHANGED <<oldest, body, jvm, todo, seen, results, lost, cmdFile>>
        BY <1>8 DEF PullAck, OrderInv, jvmVars, history
    <2>2. DOMAIN jobs' = DOMAIN jobs
        BY <1>8 DEF PullAck, MarkJobAck
    <2>3. Len(jobs') = Len(jobs) /\ oldest' >= oldest
        BY <2>1, <2>2 DEF TypeOK
    <2> QED BY <2>1, <2>3, OrderQuiet
<1> QED BY <1>1, <1>2, <1>4, <1>5, <1>6, <1>7, <1>8, <1>9 DEF PanelStep

LEMMA OrderStep ==
    ASSUME TypeOK, TypeOK', AckInv, OrderInv, [Next]_vars
    PROVE  OrderInv'
<1> DEFINE Same == UNCHANGED <<jobs, oldest, panel, body, cmdFile, todo, seen, results, lost>>
                   /\ (jvm' = jvm \/ (jvm = "down" /\ jvm' = "idle"))
<1>1. CASE Same
    <2>1. jvm' = jvm \/ (todo = {} /\ jvm' # "read")
        BY <1>1 DEF OrderInv
    <2>2. oldest' >= oldest
        BY <1>1 DEF TypeOK
    <2> QED BY <1>1, <2>1, <2>2, OrderQuiet
<1>2. ASSUME NEW c \in Cmds, NEW upload \in BOOLEAN, Enqueue(c, upload) PROVE OrderInv'
    BY <1>2, OrderEnqueue
<1>3. CASE PanelStep \/ PullDump
    BY <1>3, OrderPanel
<1>4. ASSUME NEW torn \in BOOLEAN, PanelCrash(torn) PROVE OrderInv'
    <2>1. /\ UNCHANGED <<jobs, cmdFile, jvm, todo, seen, results, lost>>
          /\ panel' = "idle" /\ body' = {}
          /\ oldest' = IF torn THEN Len(jobs) + 1 ELSE oldest
        BY <1>4 DEF PanelCrash, jvmVars, history
    <2>2. CASE oldest' >= oldest
        BY <2>1, <2>2, OrderQuiet
    <2>3. CASE ~ (oldest' >= oldest)
        <3>1. Pend' = {}
            BY <2>1, <2>3 DEF Pend, PendingJobs, TypeOK
        <3>2. Ordered(Ran, lost, Ids(todo), Ids(cmdFile), {}, {})
            BY OrderedShrink DEF OrderInv
        <3>3. Ran' = Ran /\ Ids(todo)' = Ids(todo) /\ Ids(cmdFile)' = Ids(cmdFile)
            BY <2>1 DEF Ran, RanIds, Ids
        <3> QED BY <2>1, <3>1, <3>2, <3>3 DEF OrderInv
    <2> QED BY <2>2, <2>3
<1>5. CASE ModStep
    BY <1>5, OrderRead, OrderClear, OrderRun, OrderNameless, OrderSkip DEF ModStep
<1>6. CASE JvmStop
    BY <1>6, OrderStop
<1>7. CASE Pulse \/ WorldSave \/ JvmStart \/ UNCHANGED vars
    BY <1>1, <1>7 DEF Pulse, WorldSave, JvmStart, vars, panelVars, queueVars, jvmVars, history
<1>8. ASSUME NEW h \in House, Claim(h) \/ Leave(h) PROVE OrderInv'
    BY <1>1, <1>8 DEF Claim, Leave, panelVars, queueVars, jvmVars, history
<1> QED BY <1>2, <1>3, <1>4, <1>5, <1>6, <1>7, <1>8 DEF Next

\* A first run of a job finds no younger job that ran.
LEMMA FirstRunIsYoungest ==
    ASSUME TypeOK, OrderInv, [Next]_vars
    PROVE  \A i \in RanIds(results') \ RanIds(results), j \in RanIds(results) :
              j < i \/ i \in lost
<1> SUFFICES ASSUME NEW i \in RanIds(results') \ RanIds(results), NEW j \in RanIds(results)
             PROVE  j < i \/ i \in lost
    OBVIOUS
<1>1. CASE UNCHANGED results
    BY <1>1
<1>2. ASSUME NEW b \in todo, RunBlock(b) PROVE j < i \/ i \in lost
    <2>1. i = b.id /\ i \in Nat /\ j \in Nat
        BY <1>2, RunBlockEffect, PlacesType DEF RanIds, OrderInv, Ran
    <2>2. i \in Ids(todo)
        BY <2>1 DEF Ids
    <2>3. i \notin lost => ~ (i < j)
        BY <2>1, <2>2 DEF OrderInv, Ordered, Ran
    <2>4. i # j
        OBVIOUS
    <2> QED BY <2>1, <2>3, <2>4
<1> QED
    BY <1>1, <1>2
       DEF Next, vars, ModStep, PanelStep, Enqueue, WriteLocalCmd, UploadStored,
           UploadBroken, StorePart, StoreRest, UploadVerified, PullDump, PullAck,
           PanelCrash, ModRead, ModClear, RunNameless, SkipBlock, Pulse, Claim, Leave, WorldSave,
           JvmStop, JvmStart, history

(***************************************************************************)
(* Jobs run for the first time in the order they were sent, through failed *)
(* and broken uploads, stores the mod reads half-way, torn blocks,         *)
(* restarts of the JVM, deaths of the panel and a cut queue: all but those *)
(* named by lost, which the hole of a half-cleared store has delayed.      *)
(***************************************************************************)
THEOREM JobsRunInOrder == Spec => FirstRunsInOrder
<1>1. Init => OrderInv
    BY DEF Init, OrderInv, Ordered, TornLast, Ran, RanIds, Pend, PendingJobs, Ids
<1>2. TypeOK /\ TypeOK' /\ AckInv /\ [Next]_vars => AckInv'
    BY AckStep
<1>3. TypeOK /\ TypeOK' /\ AckInv /\ OrderInv /\ [Next]_vars => OrderInv'
    BY OrderStep
<1>4. TypeOK /\ OrderInv /\ [Next]_vars
        => [\A i \in RanIds(results') \ RanIds(results), j \in RanIds(results) :
                j < i \/ i \in lost]_vars
    BY FirstRunIsYoungest
<1> QED BY <1>1, <1>2, <1>3, <1>4, AckInit, TypeCorrect, PTL DEF Spec, FirstRunsInOrder
=============================================================================
