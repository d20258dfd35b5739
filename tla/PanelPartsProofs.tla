-------------------------- MODULE PanelPartsProofs --------------------------
(***************************************************************************)
(* Theorems about the parts of the panel, for every value of their         *)
(* constants: any number of requests, browsers, files, jobs and bounds.    *)
(* A step of all the parts together changes one of them as a step of its   *)
(* own, or not at all.                                                     *)
(***************************************************************************)
EXTENDS MCPanelParts, SequenceTheorems, FiniteSetTheorems, WellFoundedInduction, TLAPS

\* A set of numbers has a least one, and one that ends has a greatest.
LEMMA Least ==
    ASSUME NEW T \in SUBSET Nat, T # {}
    PROVE  \E m \in T : \A i \in T : m <= i
<1>1. PICK m \in T : \A i \in T : ~ <<i, m>> \in OpToRel(<, Nat)
    BY NatLessThanWellFounded, WFMin
<1>2. \A i \in T : m <= i
    <2>1. ASSUME NEW i \in T, i < m
          PROVE  FALSE
        <3>1. <<i, m>> \in Nat \X Nat /\ <<i, m>>[1] = i /\ <<i, m>>[2] = m
            OBVIOUS
        <3>2. <<i, m>> \in OpToRel(<, Nat)
            BY <2>1, <3>1 DEF OpToRel
        <3> QED BY <1>1, <3>2
    <2> QED BY <2>1
<1> QED BY <1>2

LEMMA Greatest ==
    ASSUME NEW n \in Nat, NEW T \in SUBSET (1 .. n), T # {}
    PROVE  \E m \in T : \A i \in T : m >= i
<1> DEFINE D == {n - i : i \in T}
<1>1. D \in SUBSET Nat /\ D # {}
    <2>1. \A i \in T : i \in Int /\ n - i \in Nat
        OBVIOUS
    <2>2. PICK i \in T : TRUE
        OBVIOUS
    <2>3. n - i \in D
        BY <2>2
    <2> QED BY <2>1, <2>3
<1>2. PICK d \in D : \A e \in D : d <= e
    <2> HIDE DEF D
    <2> QED BY <1>1, Least
<1>3. PICK m \in T : d = n - m
    OBVIOUS
<1>4. ASSUME NEW i \in T PROVE m >= i
    <2>1. n - i \in D /\ m \in 1 .. n /\ i \in 1 .. n
        OBVIOUS
    <2>2. n - m <= n - i
        BY <1>2, <1>3, <2>1
    <2> QED BY <2>1, <2>2
<1> QED BY <1>4

\* A sequence without its element i, and with one more at its end.
LEMMA Removed ==
    ASSUME NEW S, NEW s \in Seq(S), NEW i \in DOMAIN s
    PROVE  LET t == SubSeq(s, 1, i - 1) \o SubSeq(s, i + 1, Len(s))
           IN  /\ t \in Seq(S) /\ Len(t) = Len(s) - 1
               /\ \A k \in 1 .. Len(t) : t[k] = s[IF k < i THEN k ELSE k + 1]
<1>1. /\ Len(s) \in Nat /\ DOMAIN s = 1 .. Len(s) /\ i \in 1 .. Len(s)
      /\ \A j \in 1 .. Len(s) : s[j] \in S
    BY LenProperties, ElementOfSeq
<1> DEFINE a == SubSeq(s, 1, i - 1)  b == SubSeq(s, i + 1, Len(s))
<1>2. /\ a \in Seq(S) /\ Len(a) = i - 1
      /\ \A j \in 1 .. i - 1 : a[j] = s[j]
    <2>1. \A j \in 1 .. i - 1 : s[j] \in S
        BY <1>1
    <2> QED BY <1>1, <2>1, SubSeqProperties
<1>3. /\ b \in Seq(S) /\ Len(b) = Len(s) - i
      /\ \A j \in 1 .. Len(s) - i : b[j] = s[j + i]
    <2>1. \A j \in i + 1 .. Len(s) : s[j] \in S
        BY <1>1
    <2>2. /\ b \in Seq(S)
          /\ Len(b) = IF i + 1 <= Len(s) THEN Len(s) - (i + 1) + 1 ELSE 0
          /\ \A j \in 1 .. Len(s) - (i + 1) + 1 : b[j] = s[(i + 1) + j - 1]
        BY <1>1, <2>1, SubSeqProperties
    <2> QED BY <1>1, <2>2
<1> HIDE DEF a, b
<1>4. /\ a \o b \in Seq(S) /\ Len(a \o b) = Len(s) - 1
      /\ \A k \in 1 .. Len(s) - 1 : (a \o b)[k] = IF k <= i - 1 THEN a[k] ELSE b[k - (i - 1)]
    <2>1. /\ a \o b \in Seq(S) /\ Len(a \o b) = Len(a) + Len(b)
          /\ \A k \in 1 .. Len(a) + Len(b) :
                (a \o b)[k] = IF k <= Len(a) THEN a[k] ELSE b[k - Len(a)]
        BY <1>2, <1>3, ConcatProperties
    <2>2. Len(a) = i - 1 /\ Len(a) + Len(b) = Len(s) - 1
        BY <1>1, <1>2, <1>3
    <2> QED BY <2>1, <2>2
<1>5. ASSUME NEW k \in 1 .. Len(s) - 1
      PROVE  (a \o b)[k] = s[IF k < i THEN k ELSE k + 1]
    <2>1. CASE k < i
        BY <1>1, <1>2, <1>4, <2>1
    <2>2. CASE ~ k < i
        <3>1. k - (i - 1) \in 1 .. Len(s) - i /\ (k - (i - 1)) + i = k + 1
            BY <1>1, <2>2
        <3> QED BY <1>1, <1>3, <1>4, <2>2, <3>1
    <2> QED BY <2>1, <2>2
<1> QED BY <1>4, <1>5 DEF a, b

LEMMA Appended ==
    ASSUME NEW S, NEW s \in Seq(S), NEW e \in S
    PROVE  /\ Append(s, e) \in Seq(S)
           /\ DOMAIN Append(s, e) = 1 .. Len(s) + 1 /\ Len(s) \in Nat
           /\ \A k \in DOMAIN s : Append(s, e)[k] = s[k]
           /\ DOMAIN s = 1 .. Len(s)
           /\ Append(s, e)[Len(s) + 1] = e
OBVIOUS
-----------------------------------------------------------------------------

(***************************************************************************)
(* The heartbeat.  A mod that is down has not beaten since it went down,   *)
(* and no copy is younger than the pull that brought it.                   *)
(***************************************************************************)
Dated ==
    /\ TypeOK
    /\ ~ up => beat <= downAt
    /\ copy <= pulledAt

LEMMA DatedInit == Init => Dated
<1> SUFFICES ASSUME Init PROVE Dated
    OBVIOUS
<1>1. /\ filesKind \in {"local", "remote"} /\ now = 1 /\ up \in BOOLEAN
      /\ beat = 0 /\ copy = 0 /\ downAt = 0 /\ pulledAt = 0
    BY DEF Init
<1>2. 0 \in 0 .. now
    BY <1>1
<1> QED BY <1>1, <1>2 DEF Dated, TypeOK

LEMMA DatedStep == Dated /\ [Next]_vars => Dated'
<1> SUFFICES ASSUME Dated, [Next]_vars PROVE Dated'
    OBVIOUS
<1> USE HeartbeatAssumption DEF Dated, TypeOK
<1>1. CASE Tick BY <1>1 DEF Tick
<1>2. CASE Beat BY <1>2 DEF Beat
<1>3. CASE JvmStart BY <1>3 DEF JvmStart
<1>4. CASE JvmStop
    <2>1. up' \in BOOLEAN
        BY <1>4 DEF JvmStop
    <2>2. downAt' = now /\ UNCHANGED <<filesKind, now, beat, copy, pulledAt>>
        BY <1>4 DEF JvmStop
    <2> QED BY <2>1, <2>2
<1>5. CASE Pull BY <1>5 DEF Pull
<1>6. CASE UNCHANGED vars BY <1>6 DEF vars
<1> QED BY <1>1, <1>2, <1>3, <1>4, <1>5, <1>6 DEF Next

LEMMA HeartbeatOnly ==
    [PartsNext]_<<part, vars, schedVars, monVars, deployVars, jobVars, upVars, localVars,
                  busVars, accessVars, chunkVars, slotVars>>
        => [Next]_vars
BY DEF PartsNext, vars

LEMMA HeartbeatInitially == PartsInit => Init
BY DEF PartsInit

(***************************************************************************)
(* A server that has been down for longer than the stale time is not shown *)
(* as loaded, for every stale time; nor on a remote profile, once no pull  *)
(* has brought a heartbeat for that long (safehouses.py _bridge_status).   *)
(***************************************************************************)
THEOREM StoppedServersAreNoticed == PartsSpec => []StoppedIsNoticed
<1>1. Dated => StoppedIsNoticed
    BY HeartbeatAssumption DEF Dated, TypeOK, StoppedIsNoticed, Loaded, Young, Shown
<1> QED BY <1>1, HeartbeatOnly, HeartbeatInitially, DatedInit, DatedStep, PTL DEF PartsSpec
-----------------------------------------------------------------------------

(***************************************************************************)
(* The trainers' line.  The number of a request's setting is the newest    *)
(* one while the request has the event loop to itself, so that the file it *)
(* writes is not older than any other request's setting, and what it reads *)
(* there later is its own, a newer one, or empty.                          *)
(***************************************************************************)
Sent == [pc : {"idle", "temp", "hash", "put", "send", "verify", "good", "bad", "ok", "failed",
               "kept"}, own : Nat, hash : Nat, read : Nat]

SlotsInv ==
    /\ stored \in Nat /\ temp \subseteq Nat
    /\ sendings \in [Sendings -> Sent]
    /\ \A r \in Sendings :
          /\ sendings[r].own <= stored
          /\ sendings[r].pc = "temp" => sendings[r].own = stored
          /\ sendings[r].pc = "hash" => \A c \in temp : c = 0 \/ c >= sendings[r].own
          /\ sendings[r].pc \in {"put", "send", "verify"} =>
                sendings[r].hash = 0 \/ sendings[r].hash >= sendings[r].own

LEMMA SlotsOnly == [PartsNext]_<<part, vars, schedVars, monVars, deployVars, jobVars, upVars,
                        localVars, busVars, accessVars, chunkVars, slotVars>>
                    => [Slots!SlotsNext]_slotVars
BY DEF PartsNext

LEMMA SlotsInitially == PartsInit => SlotsInv
BY DEF PartsInit, Slots!SlotsInit, SlotsInv, Sent, Slots!Blank

\* A request that moves on, with the files as they were.
LEMMA SlotMoves ==
    ASSUME SlotsInv, NEW r \in Sendings, NEW s \in Sent, s.own = sendings[r].own,
           sendings' = [sendings EXCEPT ![r] = s],
           s.pc # "temp",
           s.pc = "hash" => \A c \in temp' : c = 0 \/ c >= s.own,
           s.pc \in {"put", "send", "verify"} => s.hash = 0 \/ s.hash >= s.own,
           stored' = stored, temp' \subseteq Nat,
           \A c \in temp' : c \in temp \/ c = 0 \/ c = stored
    PROVE  SlotsInv'
<1>1. sendings' \in [Sendings -> Sent]
    BY DEF SlotsInv
<1>2. ASSUME NEW q \in Sendings, q # r
      PROVE  sendings'[q] = sendings[q]
    BY <1>2 DEF SlotsInv
<1>3. sendings'[r] = s
    BY DEF SlotsInv
<1> QED BY <1>1, <1>2, <1>3 DEF SlotsInv, Sent

LEMMA SlotsStep == SlotsInv /\ [Slots!SlotsNext]_slotVars => SlotsInv'
<1> SUFFICES ASSUME SlotsInv, [Slots!SlotsNext]_slotVars PROVE SlotsInv'
    OBVIOUS
<1> USE DEF Slots!Blank
<1>0. /\ stored \in Nat /\ temp \subseteq Nat
      /\ sendings \in [Sendings -> Sent]
    BY DEF SlotsInv
<1>1. ASSUME NEW r \in Sendings, NEW push \in BOOLEAN, Slots!SetSlots(r, push)
      PROVE  SlotsInv'
    <2>1. stored' = stored + 1 /\ stored' \in Nat
        BY <1>0, <1>1 DEF Slots!SetSlots
    <2> PICK p \in {"temp", "kept"} :
            sendings' = [sendings EXCEPT ![r] = [@ EXCEPT !.own = stored', !.pc = p]]
        BY <1>1 DEF Slots!SetSlots
    <2> PICK n \in Nat : n = stored'
        BY <2>1
    <2> DEFINE new == [sendings[r] EXCEPT !.own = n, !.pc = p]
    <2>2. new \in Sent /\ new.own = n /\ new.pc = p
        BY <1>0 DEF Sent
    <2>3. temp' \subseteq {0} \/ temp' = temp
        BY <1>1 DEF Slots!SetSlots
    <2>4. \A q \in Sendings : sendings[q].pc # "temp"
        BY <1>1 DEF Slots!SetSlots, Slots!LoopFree
    <2>5. sendings' \in [Sendings -> Sent] /\ sendings'[r] = new
          /\ \A q \in Sendings \ {r} : sendings'[q] = sendings[q]
        BY <1>0, <2>1, <2>2
    <2> QED BY <1>0, <2>1, <2>2, <2>3, <2>4, <2>5 DEF SlotsInv, Sent
<1>2. ASSUME NEW r \in Sendings, Slots!WriteTemp(r)
      PROVE  SlotsInv'
    <2>1. temp' = {stored}
        BY <1>2 DEF SlotsInv, Slots!WriteTemp, Slots!Line
    <2>2. [sendings[r] EXCEPT !.pc = "hash"] \in Sent
        BY <1>0 DEF Sent
    <2> QED BY <1>0, <1>2, <2>1, <2>2, SlotMoves DEF SlotsInv, Sent, Slots!WriteTemp
<1>3. ASSUME NEW r \in Sendings, Slots!Hash(r)
      PROVE  SlotsInv'
    <2>1. PICK c \in temp : sendings' = [sendings EXCEPT ![r] = [@ EXCEPT !.pc = "put", !.hash = c]]
        BY <1>3 DEF Slots!Hash
    <2>2. [sendings[r] EXCEPT !.pc = "put", !.hash = c] \in Sent
        BY <1>0 DEF Sent
    <2>3. c = 0 \/ c >= sendings[r].own
        BY <1>3 DEF SlotsInv, Slots!Hash
    <2> QED BY <1>0, <1>3, <2>1, <2>2, <2>3, SlotMoves DEF Sent, Slots!Hash
<1>4. ASSUME NEW r \in Sendings, Slots!PutOpens(r)
      PROVE  SlotsInv'
    <2>1. PICK c \in temp : sendings' = [sendings EXCEPT ![r] = [@ EXCEPT !.pc = "send", !.read = c]]
        BY <1>4 DEF Slots!PutOpens
    <2>2. [sendings[r] EXCEPT !.pc = "send", !.read = c] \in Sent
        BY <1>0 DEF Sent
    <2> QED BY <1>0, <1>4, <2>1, <2>2, SlotMoves DEF SlotsInv, Sent, Slots!PutOpens
<1>5. ASSUME NEW r \in Sendings, Slots!PutEnds(r)
      PROVE  SlotsInv'
    <2>1. [sendings[r] EXCEPT !.pc = "verify", !.read = 0] \in Sent
        BY <1>0 DEF Sent
    <2> QED BY <1>0, <1>5, <2>1, SlotMoves DEF SlotsInv, Sent, Slots!PutEnds
<1>6. ASSUME NEW r \in Sendings, Slots!Verify(r)
      PROVE  SlotsInv'
    <2>1. \A p \in {"good", "bad"} : [sendings[r] EXCEPT !.pc = p] \in Sent
        BY <1>0 DEF Sent
    <2> QED BY <1>0, <1>6, <2>1, SlotMoves DEF Sent, Slots!Verify
<1>7. ASSUME NEW r \in Sendings, Slots!UploadFails(r)
      PROVE  SlotsInv'
    <2>1. [sendings[r] EXCEPT !.pc = "bad", !.read = 0] \in Sent
        BY <1>0 DEF Sent
    <2> QED BY <1>0, <1>7, <2>1, SlotMoves DEF Sent, Slots!UploadFails
<1>8. ASSUME NEW r \in Sendings, Slots!SendingEnds(r)
      PROVE  SlotsInv'
    <2>1. \A p \in {"ok", "failed"} : [sendings[r] EXCEPT !.pc = p] \in Sent
        BY <1>0 DEF Sent
    <2> QED BY <1>0, <1>8, <2>1, SlotMoves DEF Sent, Slots!SendingEnds
<1>9. CASE Slots!PanelDies
    BY <1>0, <1>9 DEF SlotsInv, Sent, Slots!PanelDies
<1>10. CASE Slots!ModTick \/ Slots!GameRestarts \/ (\E t \in 1 .. MaxSlots : Slots!BodyDies(t))
            \/ UNCHANGED slotVars
    BY <1>10 DEF SlotsInv, Slots!ModTick, Slots!GameRestarts, Slots!BodyDies, slotVars
<1> QED BY <1>1, <1>2, <1>3, <1>4, <1>5, <1>6, <1>7, <1>8, <1>9, <1>10 DEF Slots!SlotsNext

(***************************************************************************)
(* Whatever requests do to each other's temporary file, an upload found    *)
(* good is of the request's own setting or of a newer one, or of a file    *)
(* caught empty (panel/server.py api_slots_set).                           *)
(***************************************************************************)
THEOREM UploadsAreNotOlder == PartsSpec => SentIsNotOlder
<1> DEFINE Good == \A r \in Sendings : sendings[r].pc = "verify" /\ sendings'[r].pc = "good" =>
                       hostLine = Slots!Blank \/ hostLine >= sendings[r].own
<1>1. SlotsInv /\ [Slots!SlotsNext]_slotVars => [Good]_(Slots!slotVars)
    <2> SUFFICES ASSUME SlotsInv, Slots!SlotsNext, NEW r \in Sendings,
                        sendings[r].pc = "verify", sendings'[r].pc = "good"
                 PROVE  hostLine = 0 \/ hostLine >= sendings[r].own
        BY DEF Slots!Blank, slotVars, Slots!slotVars
    <2>1. PICK q \in Sendings : Slots!Verify(q)
        <3>1. sendings \in [Sendings -> Sent]
            BY DEF SlotsInv
        <3>2. ASSUME NEW q \in Sendings, NEW push \in BOOLEAN, Slots!SetSlots(q, push)
              PROVE  FALSE
            BY <3>1, <3>2 DEF Slots!SetSlots, Sent
        <3>3. ASSUME NEW q \in Sendings,
                     Slots!WriteTemp(q) \/ Slots!PutEnds(q) \/ Slots!UploadFails(q)
                        \/ Slots!SendingEnds(q)
              PROVE  FALSE
            BY <3>1, <3>3 DEF Slots!WriteTemp, Slots!PutEnds, Slots!UploadFails,
                              Slots!SendingEnds, Sent
        <3>4. ASSUME NEW q \in Sendings, Slots!Hash(q) \/ Slots!PutOpens(q)
              PROVE  FALSE
            BY <3>1, <3>4 DEF Slots!Hash, Slots!PutOpens, Sent
        <3>5. CASE Slots!PanelDies \/ Slots!ModTick \/ Slots!GameRestarts
                      \/ (\E t \in 1 .. MaxSlots : Slots!BodyDies(t))
            BY <3>5 DEF Slots!PanelDies, Slots!ModTick, Slots!GameRestarts, Slots!BodyDies
        <3> QED BY <3>2, <3>3, <3>4, <3>5 DEF Slots!SlotsNext
    <2>2. q = r /\ hostLine = sendings[r].hash
        BY <2>1 DEF Slots!Verify, Slots!Verified, SlotsInv, Sent
    <2> QED BY <2>2 DEF SlotsInv
<1>2. SentIsNotOlder <=> [][Good]_(Slots!slotVars)
    BY DEF SentIsNotOlder, Slots!SentIsNotOlder
<1> HIDE DEF Good
<1> QED BY <1>1, <1>2, SlotsOnly, SlotsInitially, SlotsStep, PTL DEF PartsSpec
-----------------------------------------------------------------------------
(***************************************************************************)
(* The flag of a restart.  A guided sequence is under way whenever it is   *)
(* up: it goes up with one, and the end of any one takes it down.          *)
(***************************************************************************)
Run == [guided : BOOLEAN, stage : {"warn", "count", "save", "quit"}]

FlagInv ==
    /\ rs \in Seq(Run)
    /\ restarting => \E i \in DOMAIN rs : rs[i].guided

LEMMA MonitorOnly == [PartsNext]_<<part, vars, schedVars, monVars, deployVars, jobVars, upVars,
                          localVars, busVars, accessVars, chunkVars, slotVars>>
                      => [Monitor!MonNext]_monVars
BY DEF PartsNext

LEMMA FlagInitially == PartsInit => FlagInv
BY DEF PartsInit, Monitor!MonInit, FlagInv

\* What becomes of the sequences when the one of number i goes on.
LEMMA KeptRuns ==
    ASSUME rs \in Seq(Run), NEW i \in DOMAIN rs,
           NEW next \in {"count", "save", "quit", "over"}
    PROVE  /\ Monitor!Kept(i, next) \in Seq(Run)
           /\ next # "over" => \A j \in DOMAIN rs : j \in DOMAIN Monitor!Kept(i, next)
                                  /\ Monitor!Kept(i, next)[j].guided = rs[j].guided
           /\ next = "over" => \A j \in DOMAIN rs \ {i} :
                 \E k \in DOMAIN Monitor!Kept(i, next) : Monitor!Kept(i, next)[k] = rs[j]
<1>0. Len(rs) \in Nat /\ DOMAIN rs = 1 .. Len(rs)
    BY LenProperties
<1>1. CASE next = "over"
    <2> DEFINE t == SubSeq(rs, 1, i - 1) \o SubSeq(rs, i + 1, Len(rs))
    <2>1. Monitor!Kept(i, next) = t
        BY <1>1 DEF Monitor!Kept, Monitor!RemoveAt
    <2>2. /\ t \in Seq(Run) /\ Len(t) = Len(rs) - 1
          /\ \A k \in 1 .. Len(t) : t[k] = rs[IF k < i THEN k ELSE k + 1]
        BY Removed
    <2> HIDE DEF t
    <2>3. DOMAIN t = 1 .. Len(rs) - 1
        BY <2>2, LenProperties
    <2>4. ASSUME NEW j \in DOMAIN rs \ {i}
          PROVE  \E k \in DOMAIN t : t[k] = rs[j]
        <3>1. CASE j < i
            <4>1. j \in DOMAIN t /\ t[j] = rs[j]
                BY <1>0, <2>2, <2>3, <3>1
            <4> QED BY <4>1
        <3>2. CASE ~ j < i
            <4>1. j - 1 \in DOMAIN t /\ ~ j - 1 < i /\ (j - 1) + 1 = j
                BY <1>0, <2>3, <3>2
            <4>2. t[j - 1] = rs[j]
                BY <2>2, <2>3, <4>1
            <4> QED BY <4>1, <4>2
        <3> QED BY <3>1, <3>2
    <2> QED BY <1>1, <2>1, <2>2, <2>4
<1>2. CASE next # "over"
    <2>1. Monitor!Kept(i, next) = [rs EXCEPT ![i] = [@ EXCEPT !.stage = next]]
        BY <1>2 DEF Monitor!Kept
    <2>2. rs[i] \in Run
        BY <1>0, ElementOfSeq
    <2>3. [rs[i] EXCEPT !.stage = next] \in Run /\ [rs[i] EXCEPT !.stage = next].guided = rs[i].guided
        BY <1>2, <2>2 DEF Run
    <2>4. Monitor!Kept(i, next) \in Seq(Run) /\ DOMAIN Monitor!Kept(i, next) = DOMAIN rs
          /\ \A j \in DOMAIN rs : Monitor!Kept(i, next)[j].guided = rs[j].guided
        BY <1>0, <2>1, <2>3, ExceptSeq
    <2> QED BY <1>2, <2>4
<1> QED BY <1>1, <1>2

LEMMA FlagStep == FlagInv /\ [Monitor!MonNext]_monVars => FlagInv'
<1> SUFFICES ASSUME FlagInv, [Monitor!MonNext]_monVars PROVE FlagInv'
    OBVIOUS
<1>0. /\ rs \in Seq(Run) /\ Len(rs) \in Nat /\ DOMAIN rs = 1 .. Len(rs)
      /\ \A i \in DOMAIN rs : rs[i] \in Run
    BY LenProperties, ElementOfSeq DEF FlagInv
<1>1. ASSUME NEW p \in Monitor!Threads, Monitor!StartSets(p)
      PROVE  FlagInv'
    <2>1. rs' = Append(rs, [guided |-> TRUE, stage |-> "warn"])
          /\ [guided |-> TRUE, stage |-> "warn"] \in Run
        BY <1>1 DEF Monitor!StartSets, Run
    <2> QED BY <1>0, <2>1, Appended DEF FlagInv
<1>2. CASE Monitor!StartBlind
    <2>1. rs' = Append(rs, [guided |-> FALSE, stage |-> "warn"])
          /\ [guided |-> FALSE, stage |-> "warn"] \in Run /\ restarting' = restarting
        BY <1>2 DEF Monitor!StartBlind, Run
    <2> QED BY <1>0, <2>1, Appended DEF FlagInv
<1>3. ASSUME NEW i \in DOMAIN rs, Monitor!GuidedStep(i)
      PROVE  FlagInv'
    <2>1. PICK ok \in BOOLEAN :
             LET next == IF ok THEN Monitor!After[rs[i].stage] ELSE "over"
             IN  rs' = Monitor!Kept(i, next) /\ restarting' = Monitor!FlagAfter(next, ok)
        BY <1>3 DEF Monitor!GuidedStep
    <2> DEFINE next == IF ok THEN Monitor!After[rs[i].stage] ELSE "over"
    <2>2. next \in {"count", "save", "quit", "over"}
        BY <1>0 DEF Monitor!After, Run
    <2>3. rs' = Monitor!Kept(i, next) /\ (next = "over" => restarting' = FALSE)
        BY <2>1 DEF Monitor!FlagAfter
    <2>4. rs[i].guided
        BY <1>3 DEF Monitor!GuidedStep
    <2> HIDE DEF next
    <2> QED BY <1>0, <2>2, <2>3, <2>4, KeptRuns DEF FlagInv
<1>4. ASSUME NEW i \in DOMAIN rs, Monitor!BlindStep(i)
      PROVE  FlagInv'
    <2> DEFINE next == Monitor!After[rs[i].stage]
    <2>1. rs' = Monitor!Kept(i, next) /\ ~ rs[i].guided /\ restarting' = restarting
        BY <1>4 DEF Monitor!BlindStep
    <2>2. next \in {"count", "save", "quit", "over"}
        BY <1>0 DEF Monitor!After, Run
    <2> HIDE DEF next
    <2>3. rs' \in Seq(Run)
        BY <1>0, <2>1, <2>2, KeptRuns
    <2>4. ASSUME restarting'
          PROVE  \E k \in DOMAIN rs' : rs'[k].guided
        <3>1. PICK j \in DOMAIN rs : rs[j].guided /\ j # i
            BY <2>1, <2>4 DEF FlagInv
        <3>2. CASE next = "over"
            BY <1>0, <2>1, <3>1, <3>2, KeptRuns
        <3>3. CASE next # "over"
            BY <1>0, <2>1, <2>2, <3>1, <3>3, KeptRuns
        <3> QED BY <3>2, <3>3
    <2> QED BY <2>3, <2>4 DEF FlagInv
<1>5. CASE Monitor!MonitorDies
    BY <1>5 DEF Monitor!MonitorDies, FlagInv
<1>6. CASE Monitor!SteamUpdates \/ Monitor!MirrorInstalls \/ Monitor!GameStarts
             \/ Monitor!MonitorWakes \/ Monitor!MonitorDecides \/ Monitor!CheckNow
             \/ UNCHANGED monVars
    BY <1>6 DEF FlagInv, Monitor!SteamUpdates, Monitor!MirrorInstalls, Monitor!GameStarts,
                Monitor!MonitorWakes, Monitor!MonitorDecides, Monitor!CheckNow, monVars
<1>7. CASE Monitor!Acknowledge \/ (\E on \in BOOLEAN : Monitor!SetAutoRestart(on))
    BY <1>7 DEF FlagInv, Monitor!Acknowledge, Monitor!SetAutoRestart, Monitor!HandlerReads
<1>8. ASSUME NEW p \in Monitor!Threads,
             Monitor!CheckReads(p) \/ Monitor!Truncates(p) \/ Monitor!Writes(p)
                \/ Monitor!SteamFails(p) \/ Monitor!StartLooks(p)
      PROVE  FlagInv'
    BY <1>8 DEF FlagInv, Monitor!CheckReads, Monitor!Truncates, Monitor!Writes,
                Monitor!SteamFails, Monitor!StartLooks
<1> QED BY <1>1, <1>2, <1>3, <1>4, <1>5, <1>6, <1>7, <1>8 DEF Monitor!MonNext

(***************************************************************************)
(* A flag that is up has a guided sequence that will take it down, for any *)
(* number of restarts, however they overlap and fail                       *)
(* (workshop_monitor.py start_graceful_restart, _run_graceful_restart).    *)
(***************************************************************************)
THEOREM FlagsHaveOwners == PartsSpec => []FlagHasOwner
<1>1. FlagInv => FlagHasOwner
    BY DEF FlagInv, FlagHasOwner, Monitor!FlagHasOwner, Monitor!Guided
<1> QED BY <1>1, MonitorOnly, FlagInitially, FlagStep, PTL DEF PartsSpec
-----------------------------------------------------------------------------
(***************************************************************************)
(* The installers.  A thread that copies one in compared it with a sum, or *)
(* its version is noted: as one without a sum, or as one that another      *)
(* thread was copying at the same time.                                    *)
(***************************************************************************)
Stages == {"check", "fetch", "compare", "copy", "tag", "panel", "tools", "build"}
Thread == [stage : Stages, ver : 0 .. MaxRelease, sum : BOOLEAN, whole : BOOLEAN]

\* A thread knows its version once it has asked, and what it copies is there.
Sound(t, files, noted) ==
    /\ t.stage \notin {"check", "tag"} => t.ver # 0
    /\ t.stage = "copy" => files[t.ver] # "none" /\ (t.whole \/ t.ver \in noted)

FolderInv ==
    /\ Updates!UpTypeOK
    /\ \A n \in DOMAIN ups : Sound(ups[n], updates, blind \cup entangled)
    /\ upJob.phase = "ready" => upJob.ver # 0
    /\ ReadyIsWhole

LEMMA UpdatesOnly == [PartsNext]_<<part, vars, schedVars, monVars, deployVars, jobVars, upVars,
                          localVars, busVars, accessVars, chunkVars, slotVars>>
                      => [Updates!UpNext]_upVars
BY DEF PartsNext

LEMMA UpAre ==
    /\ MaxRelease \in Nat \ {0} /\ MaxUps \in Nat /\ MaxApplies \in Nat
    /\ 0 \in 0 .. MaxRelease /\ 1 \in Updates!Versions
    /\ \A v \in Updates!Versions : v \in 0 .. MaxRelease /\ v # 0
    /\ \A v \in 0 .. MaxRelease : v # 0 => v \in Updates!Versions
BY PartsAssumption DEF Updates!Versions

LEMMA FolderInitially == PartsInit => FolderInv
<1> SUFFICES ASSUME PartsInit PROVE FolderInv
    OBVIOUS
<1>1. /\ installKind \in {"windows_setup", "docker"}
      /\ latest = 1 /\ summed = {1} /\ current = 1
      /\ updates = [v \in Updates!Versions |-> "none"]
      /\ upJob = [phase |-> "idle", ver |-> 0] /\ ups = <<>>
      /\ tree = [panel |-> 1, tools |-> 1] /\ blind = {} /\ entangled = {}
      /\ upCounts = [asks |-> 0, applies |-> 0]
    BY DEF PartsInit, Updates!UpInit
<1>2. upCounts \in [asks : 0 .. MaxUps, applies : 0 .. MaxApplies]
    BY <1>1, UpAre
<1>3. tree \in [panel : Updates!Versions, tools : Updates!Versions]
    BY <1>1, UpAre
<1>4. ups \in Seq(Thread)
    BY <1>1, EmptySeq
<1> QED BY <1>1, <1>2, <1>3, <1>4, UpAre
        DEF FolderInv, Updates!UpTypeOK, ReadyIsWhole, Updates!ReadyIsWhole, Thread, Stages

\* The threads without one of them, with one of them changed, and with one more.
LEMMA ThreadGone ==
    ASSUME ups \in Seq(Thread), NEW n \in DOMAIN ups
    PROVE  /\ Updates!RemoveAt(ups, n) \in Seq(Thread)
           /\ \A k \in DOMAIN Updates!RemoveAt(ups, n) :
                 \E m \in DOMAIN ups : Updates!RemoveAt(ups, n)[k] = ups[m]
<1>0. Len(ups) \in Nat /\ DOMAIN ups = 1 .. Len(ups)
    BY LenProperties
<1> DEFINE s == SubSeq(ups, 1, n - 1) \o SubSeq(ups, n + 1, Len(ups))
<1>1. /\ s \in Seq(Thread) /\ Len(s) = Len(ups) - 1
      /\ \A k \in 1 .. Len(s) : s[k] = ups[IF k < n THEN k ELSE k + 1]
    BY Removed
<1>2. Updates!RemoveAt(ups, n) = s
    BY DEF Updates!RemoveAt
<1> HIDE DEF s
<1>3. \A k \in DOMAIN s : k \in 1 .. Len(s) /\ (IF k < n THEN k ELSE k + 1) \in DOMAIN ups
    BY <1>0, <1>1, LenProperties
<1> QED BY <1>1, <1>2, <1>3

LEMMA ThreadGoes ==
    ASSUME ups \in Seq(Thread), NEW n \in DOMAIN ups, NEW t \in Thread
    PROVE  /\ [ups EXCEPT ![n] = t] \in Seq(Thread)
           /\ DOMAIN [ups EXCEPT ![n] = t] = DOMAIN ups
           /\ \A k \in DOMAIN ups : [ups EXCEPT ![n] = t][k] = IF k = n THEN t ELSE ups[k]
BY ExceptSeq, ElementOfSeq, LenProperties

\* A step that leaves the files and what is noted of them, and writes no "ready".
LEMMA RecordStep ==
    ASSUME FolderInv,
           ups' \in Seq(Thread),
           \A k \in DOMAIN ups' : Sound(ups'[k], updates, blind \cup entangled),
           upJob' \in [phase : {"idle", "download", "launched", "sync", "error"},
                      ver : 0 .. MaxRelease],
           latest' \in Updates!Versions, summed' \subseteq Updates!Versions,
           current' \in Updates!Versions,
           tree' \in [panel : Updates!Versions, tools : Updates!Versions],
           upCounts' \in [asks : 0 .. MaxUps, applies : 0 .. MaxApplies],
           UNCHANGED <<installKind, updates, blind, entangled>>
    PROVE  FolderInv'
<1>1. /\ upJob'.phase # "ready"
      /\ upJob' \in [phase : {"idle", "download", "ready", "launched", "sync", "error"},
                    ver : 0 .. MaxRelease]
    OBVIOUS
<1> QED BY <1>1 DEF FolderInv, Updates!UpTypeOK, ReadyIsWhole, Updates!ReadyIsWhole, Thread,
                    Stages

\* A step after which a thread that was copying still is.
LEMMA CopyStays ==
    ASSUME FolderInv,
           ups' \in Seq(Thread), DOMAIN ups \subseteq DOMAIN ups',
           \A k \in DOMAIN ups : ups[k].stage = "copy" => ups'[k] = ups[k],
           \A k \in DOMAIN ups' : Sound(ups'[k], updates, blind \cup entangled),
           latest' \in Updates!Versions, summed' \subseteq Updates!Versions,
           upCounts' \in [asks : 0 .. MaxUps, applies : 0 .. MaxApplies],
           UNCHANGED <<installKind, current, updates, upJob, tree, blind, entangled>>
    PROVE  FolderInv'
<1>1. Updates!UpTypeOK'
    BY DEF FolderInv, Updates!UpTypeOK, Thread, Stages
<1>2. ReadyIsWhole'
    <2>1. Updates!Copying(upJob.ver) => Updates!Copying(upJob.ver)'
        BY DEF Updates!Copying, Updates!At
    <2> QED BY <2>1 DEF FolderInv, ReadyIsWhole, Updates!ReadyIsWhole, Updates!There
<1> QED BY <1>1, <1>2 DEF FolderInv

LEMMA MoveInStep ==
    ASSUME FolderInv, NEW n \in DOMAIN ups, Updates!MoveIn(n)
    PROVE  FolderInv'
<1> DEFINE v == ups[n].ver
<1>0. /\ ups \in Seq(Thread) /\ ups[n] \in Thread /\ \A m \in DOMAIN ups : ups[m] \in Thread
      /\ v \in Updates!Versions /\ v \in 0 .. MaxRelease /\ v # 0
      /\ updates \in [Updates!Versions -> {"none", "part", "whole"}]
      /\ blind \subseteq Updates!Versions /\ entangled \subseteq Updates!Versions
    <2>1. ups \in Seq(Thread)
        BY DEF FolderInv, Updates!UpTypeOK, Thread, Stages
    <2>2. ups[n] \in Thread /\ \A m \in DOMAIN ups : ups[m] \in Thread
        BY <2>1, ElementOfSeq, LenProperties
    <2>3. v # 0 /\ v \in 0 .. MaxRelease
        BY <2>2 DEF FolderInv, Sound, Updates!MoveIn, Updates!At, Thread
    <2> QED BY <2>1, <2>2, <2>3, UpAre DEF FolderInv, Updates!UpTypeOK
<1>1. /\ updates[v] = "none" /\ (ups[n].sum => ups[n].whole)
      /\ updates' = [updates EXCEPT ![v] = IF ups[n].whole THEN "whole" ELSE "part"]
      /\ blind' = IF ups[n].sum THEN blind \ {v} ELSE blind \cup {v}
      /\ ups' = Updates!RemoveAt(ups, n) /\ upJob' = [phase |-> "ready", ver |-> v]
      /\ UNCHANGED <<installKind, latest, summed, current, tree, entangled, upCounts>>
    BY DEF Updates!MoveIn, Updates!Passes, Updates!Checked, Updates!Fetched, Updates!Ends
<1>2. /\ ups' \in Seq(Thread)
      /\ \A k \in DOMAIN ups' : \E m \in DOMAIN ups : ups'[k] = ups[m]
    BY <1>0, <1>1, ThreadGone
<1> HIDE DEF v
<1>3. \A k \in DOMAIN ups' : Sound(ups'[k], updates', blind' \cup entangled')
    <2>1. ASSUME NEW m \in DOMAIN ups
          PROVE  Sound(ups[m], updates', blind' \cup entangled')
        <3>1. Sound(ups[m], updates, blind \cup entangled)
            BY DEF FolderInv
        <3>2. ups[m].stage = "copy" =>
                 /\ ups[m].ver \in Updates!Versions /\ updates[ups[m].ver] # "none"
                 /\ ups[m].ver # v
            BY <1>0, <1>1, <3>1, UpAre DEF Sound, Thread
        <3> QED BY <1>0, <1>1, <3>1, <3>2 DEF Sound
    <2> QED BY <1>2, <2>1
<1>4. /\ updates' \in [Updates!Versions -> {"none", "part", "whole"}]
      /\ blind' \subseteq Updates!Versions
      /\ upJob'.phase = "ready" /\ upJob'.ver = v
      /\ updates'[v] = "whole" \/ (updates'[v] = "part" /\ v \in blind')
    BY <1>0, <1>1
<1>5. ReadyIsWhole'
    BY <1>0, <1>4 DEF ReadyIsWhole, Updates!ReadyIsWhole, Updates!There
<1>6. Updates!UpTypeOK'
    BY <1>0, <1>1, <1>2, <1>4 DEF FolderInv, Updates!UpTypeOK, Thread, Stages
<1> QED BY <1>0, <1>3, <1>4, <1>5, <1>6 DEF FolderInv

LEMMA CopyBeginsStep ==
    ASSUME FolderInv, NEW n \in DOMAIN ups, Updates!CopyBegins(n)
    PROVE  FolderInv'
<1> DEFINE v == ups[n].ver
<1>0. /\ ups \in Seq(Thread) /\ ups[n] \in Thread /\ \A m \in DOMAIN ups : ups[m] \in Thread
      /\ v \in Updates!Versions /\ v \in 0 .. MaxRelease /\ v # 0
      /\ updates \in [Updates!Versions -> {"none", "part", "whole"}]
      /\ blind \subseteq Updates!Versions /\ entangled \subseteq Updates!Versions
    <2>1. ups \in Seq(Thread)
        BY DEF FolderInv, Updates!UpTypeOK, Thread, Stages
    <2>2. ups[n] \in Thread /\ \A m \in DOMAIN ups : ups[m] \in Thread
        BY <2>1, ElementOfSeq, LenProperties
    <2>3. v # 0 /\ v \in 0 .. MaxRelease
        BY <2>2 DEF FolderInv, Sound, Updates!CopyBegins, Updates!At, Thread
    <2> QED BY <2>1, <2>2, <2>3, UpAre DEF FolderInv, Updates!UpTypeOK
<1>t. PICK t : t = [ups[n] EXCEPT !.stage = "copy"]
    OBVIOUS
<1>1. /\ ups[n].sum => ups[n].whole
      /\ updates' = [updates EXCEPT ![v] = "part"]
      /\ blind' = IF ups[n].sum THEN blind \ {v} ELSE blind \cup {v}
      /\ entangled' = IF Updates!Copying(v) THEN entangled \cup {v} ELSE entangled \ {v}
      /\ ups' = [ups EXCEPT ![n] = t]
      /\ UNCHANGED <<installKind, latest, summed, current, upJob, tree, upCounts>>
    BY <1>t DEF Updates!CopyBegins, Updates!Passes, Updates!Checked, Updates!Goes
<1>2. /\ t \in Thread /\ t.stage = "copy" /\ t.ver = v
      /\ t.sum = ups[n].sum /\ t.whole = ups[n].whole
    BY <1>0, <1>t DEF Thread, Stages
<1>3. /\ ups' \in Seq(Thread) /\ DOMAIN ups' = DOMAIN ups
      /\ \A k \in DOMAIN ups : ups'[k] = IF k = n THEN t ELSE ups[k]
    BY <1>0, <1>1, <1>2, ThreadGoes
<1>c. \A m \in DOMAIN ups : ups[m].stage = "copy" /\ ups[m].ver = v => Updates!Copying(v)
    BY DEF Updates!Copying, Updates!At
<1>n. ups[n].stage # "copy"
    BY DEF Updates!CopyBegins, Updates!At
<1> HIDE DEF v
<1>4. /\ updates' \in [Updates!Versions -> {"none", "part", "whole"}]
      /\ updates'[v] = "part" /\ \A w \in Updates!Versions : w # v => updates'[w] = updates[w]
      /\ blind' \subseteq Updates!Versions /\ entangled' \subseteq Updates!Versions
    BY <1>0, <1>1
<1>5. ASSUME NEW k \in DOMAIN ups'
      PROVE  Sound(ups'[k], updates', blind' \cup entangled')
    <2>1. CASE k = n
        <3>1. ups'[k] = t
            BY <1>3, <2>1
        <3>2. t.whole \/ v \in blind'
            BY <1>0, <1>1, <1>2 DEF Thread
        <3> QED BY <1>0, <1>2, <1>4, <3>1, <3>2 DEF Sound
    <2>2. CASE k # n
        <3>1. ups'[k] = ups[k] /\ k \in DOMAIN ups /\ Sound(ups[k], updates, blind \cup entangled)
            BY <1>3, <2>2 DEF FolderInv
        <3>2. CASE ups[k].stage = "copy" /\ ups[k].ver = v
            <4>1. v \in entangled'
                BY <1>1, <1>c, <3>1, <3>2
            <4> QED BY <1>4, <3>1, <3>2, <4>1 DEF Sound
        <3>3. CASE ups[k].stage = "copy" /\ ups[k].ver # v
            <4>1. ups[k].ver \in Updates!Versions
                BY <1>0, <3>1, <3>3, UpAre DEF Sound, Thread
            <4> QED BY <1>1, <1>4, <3>1, <3>3, <4>1 DEF Sound
        <3>4. CASE ups[k].stage # "copy"
            BY <3>1, <3>4 DEF Sound
        <3> QED BY <3>2, <3>3, <3>4
    <2> QED BY <2>1, <2>2
<1>6. ReadyIsWhole'
    <2> SUFFICES ASSUME upJob.phase = "ready"
                 PROVE  \/ updates'[upJob.ver] = "whole"
                        \/ /\ upJob.ver \in Updates!There'
                           /\ \/ upJob.ver \in blind' \cup entangled'
                              \/ Updates!Copying(upJob.ver)'
        BY <1>1 DEF ReadyIsWhole, Updates!ReadyIsWhole
    <2>1. CASE upJob.ver = v
        <3>2. v \in Updates!There'
            BY <1>0, <1>4 DEF Updates!There
        <3>3. Updates!Copying(upJob.ver)'
            BY <1>1, <1>2, <1>3, <2>1 DEF Updates!Copying, Updates!At
        <3> QED BY <2>1, <3>2, <3>3
    <2>2. CASE upJob.ver # v
        <3>1. upJob.ver \in Updates!Versions
            BY UpAre DEF FolderInv, Updates!UpTypeOK
        <3>2. Updates!Copying(upJob.ver) => Updates!Copying(upJob.ver)'
            BY <1>1, <1>3, <1>n DEF Updates!Copying, Updates!At
        <3>3. upJob.ver \in Updates!There => upJob.ver \in Updates!There'
            BY <1>4, <2>2, <3>1 DEF Updates!There
        <3>4. upJob.ver \in blind \cup entangled => upJob.ver \in blind' \cup entangled'
            BY <1>1, <2>2
        <3> QED BY <1>4, <2>2, <3>1, <3>2, <3>3, <3>4
                DEF FolderInv, ReadyIsWhole, Updates!ReadyIsWhole
    <2> QED BY <2>1, <2>2
<1>7. Updates!UpTypeOK'
    BY <1>0, <1>1, <1>3, <1>4 DEF FolderInv, Updates!UpTypeOK, Thread, Stages
<1> QED BY <1>1, <1>5, <1>6, <1>7 DEF FolderInv

LEMMA CopyEndsStep ==
    ASSUME FolderInv, NEW n \in DOMAIN ups, Updates!CopyEnds(n)
    PROVE  FolderInv'
<1> DEFINE v == ups[n].ver
<1>0. /\ ups \in Seq(Thread) /\ ups[n] \in Thread /\ \A m \in DOMAIN ups : ups[m] \in Thread
      /\ Sound(ups[n], updates, blind \cup entangled) /\ ups[n].stage = "copy"
      /\ v \in Updates!Versions /\ v \in 0 .. MaxRelease /\ v # 0
      /\ updates \in [Updates!Versions -> {"none", "part", "whole"}]
    <2>1. ups \in Seq(Thread)
        BY DEF FolderInv, Updates!UpTypeOK, Thread, Stages
    <2>2. ups[n] \in Thread /\ \A m \in DOMAIN ups : ups[m] \in Thread
        BY <2>1, ElementOfSeq, LenProperties
    <2>3. v # 0 /\ v \in 0 .. MaxRelease
        BY <2>2 DEF FolderInv, Sound, Updates!CopyEnds, Updates!At, Thread
    <2> QED BY <2>1, <2>2, <2>3, UpAre DEF FolderInv, Updates!UpTypeOK, Updates!CopyEnds, Updates!At
<1>1. PICK left \in {Updates!Fetched(ups[n])} \cup
                    (IF v \in entangled THEN {"part", "whole"} ELSE {}) :
         updates' = [updates EXCEPT ![v] = left]
    BY DEF Updates!CopyEnds
<1>2. /\ left \in {"part", "whole"}
      /\ left = "whole" \/ v \in blind \cup entangled
    BY <1>0, <1>1 DEF Updates!Fetched, Sound
<1>3. /\ ups' = Updates!RemoveAt(ups, n) /\ upJob' = [phase |-> "ready", ver |-> v]
      /\ UNCHANGED <<installKind, latest, summed, current, tree, blind, entangled, upCounts>>
    BY DEF Updates!CopyEnds, Updates!Ends
<1>4. /\ ups' \in Seq(Thread)
      /\ \A k \in DOMAIN ups' : \E m \in DOMAIN ups : ups'[k] = ups[m]
    BY <1>0, <1>3, ThreadGone
<1> HIDE DEF v
<1>5. /\ updates' \in [Updates!Versions -> {"none", "part", "whole"}]
      /\ updates'[v] = left /\ \A w \in Updates!Versions : w # v => updates'[w] = updates[w]
      /\ upJob'.phase = "ready" /\ upJob'.ver = v
    BY <1>0, <1>1, <1>2, <1>3
<1>6. \A k \in DOMAIN ups' : Sound(ups'[k], updates', blind' \cup entangled')
    <2>1. ASSUME NEW m \in DOMAIN ups
          PROVE  Sound(ups[m], updates', blind' \cup entangled')
        <3>1. Sound(ups[m], updates, blind \cup entangled)
            BY DEF FolderInv
        <3>2. ups[m].stage = "copy" => ups[m].ver \in Updates!Versions
            BY <1>0, <3>1, UpAre DEF Sound, Thread
        <3> QED BY <1>2, <1>3, <1>5, <3>1, <3>2 DEF Sound
    <2> QED BY <1>4, <2>1
<1>7. ReadyIsWhole'
    BY <1>0, <1>2, <1>3, <1>5 DEF ReadyIsWhole, Updates!ReadyIsWhole, Updates!There
<1>8. Updates!UpTypeOK'
    BY <1>0, <1>3, <1>4, <1>5 DEF FolderInv, Updates!UpTypeOK, Thread, Stages
<1> QED BY <1>0, <1>5, <1>6, <1>7, <1>8 DEF FolderInv

LEMMA FolderStep == FolderInv /\ [Updates!UpNext]_upVars => FolderInv'
<1> SUFFICES ASSUME FolderInv, [Updates!UpNext]_upVars PROVE FolderInv'
    OBVIOUS
<1> DEFINE noted == blind \cup entangled
<1>0. /\ ups \in Seq(Thread)
      /\ \A n \in DOMAIN ups : ups[n] \in Thread /\ Sound(ups[n], updates, noted)
      /\ latest \in Updates!Versions /\ summed \subseteq Updates!Versions
      /\ current \in Updates!Versions
      /\ tree \in [panel : Updates!Versions, tools : Updates!Versions]
      /\ upJob \in [phase : {"idle", "download", "ready", "launched", "sync", "error"},
                   ver : 0 .. MaxRelease]
      /\ upCounts \in [asks : 0 .. MaxUps, applies : 0 .. MaxApplies]
    <2>1. ups \in Seq(Thread)
        BY DEF FolderInv, Updates!UpTypeOK, Thread, Stages
    <2>2. \A m \in DOMAIN ups : ups[m] \in Thread
        BY <2>1, ElementOfSeq, LenProperties
    <2> QED BY <2>1, <2>2 DEF FolderInv, Updates!UpTypeOK
<1>1. /\ latest \in 0 .. MaxRelease /\ latest # 0 /\ 0 \in 0 .. MaxRelease
      /\ \A v \in Updates!Versions : v \in 0 .. MaxRelease
      /\ <<>> \in Seq(Thread) /\ DOMAIN <<>> = {}
    BY <1>0, UpAre, EmptySeq
<1> HIDE DEF noted
<1>2. CASE Updates!Publish
    <2>1. latest' \in Updates!Versions
        BY <1>0, <1>2, UpAre DEF Updates!Publish, Updates!Versions
    <2> QED BY <1>0, <1>2, <2>1, CopyStays DEF noted, Updates!Publish
<1>3. ASSUME NEW stage \in {"check", "tag"}, Updates!Asked(stage)
      PROVE  FolderInv'
    <2>1. PICK t : t = [stage |-> stage, ver |-> 0, sum |-> FALSE, whole |-> FALSE]
        OBVIOUS
    <2>2. t \in Thread /\ Sound(t, updates, noted)
        BY <2>1, <1>1 DEF Thread, Stages, Sound
    <2>3. ups' = Append(ups, t)
        BY <1>3, <2>1 DEF Updates!Asked
    <2>4. /\ ups' \in Seq(Thread) /\ DOMAIN ups' = 1 .. Len(ups) + 1
          /\ DOMAIN ups = 1 .. Len(ups) /\ Len(ups) \in Nat
          /\ \A k \in DOMAIN ups : ups'[k] = ups[k]
          /\ ups'[Len(ups) + 1] = t
        BY <1>0, <2>2, <2>3, Appended
    <2>5. /\ DOMAIN ups \subseteq DOMAIN ups'
          /\ \A k \in DOMAIN ups' : k \in DOMAIN ups \/ k = Len(ups) + 1
        BY <2>4
    <2>6. \A k \in DOMAIN ups' : Sound(ups'[k], updates, noted)
        BY <1>0, <2>2, <2>4, <2>5
    <2>7. upCounts' \in [asks : 0 .. MaxUps, applies : 0 .. MaxApplies]
        <3>1. upCounts.asks + 1 \in 0 .. MaxUps
            BY <1>0, <1>3, UpAre DEF Updates!Asked
        <3> QED BY <1>0, <1>3, <3>1 DEF Updates!Asked
    <2> QED BY <1>0, <1>3, <2>4, <2>5, <2>6, <2>7, CopyStays DEF noted, Updates!Asked
<1>4. ASSUME NEW v \in Updates!Versions, NEW given \in 0 .. MaxRelease, Updates!Apply(v, given)
      PROVE  FolderInv'
    <2>1. upCounts' \in [asks : 0 .. MaxUps, applies : 0 .. MaxApplies]
        <3>1. upCounts.applies + 1 \in 0 .. MaxApplies
            BY <1>0, <1>4, UpAre DEF Updates!Apply
        <3> QED BY <1>0, <1>4, <3>1 DEF Updates!Apply
    <2>2. /\ current' \in {current, v} /\ ups' \in {ups, <<>>}
          /\ upJob' \in {[phase |-> "idle", ver |-> 0], [phase |-> "launched", ver |-> v]}
          /\ UNCHANGED <<installKind, latest, summed, updates, tree, blind, entangled>>
        BY <1>4 DEF Updates!Apply
    <2>3. ups' \in Seq(Thread) /\ \A i \in DOMAIN ups' : Sound(ups'[i], updates, noted)
        BY <1>0, <1>1, <2>2
    <2>4. upJob' \in [phase : {"idle", "download", "launched", "sync", "error"},
                      ver : 0 .. MaxRelease]
        BY <1>1, <2>2
    <2> QED BY <1>0, <2>1, <2>2, <2>3, <2>4, RecordStep DEF noted
<1>5. ASSUME NEW n \in DOMAIN ups, Updates!Check(n)
      PROVE  FolderInv'
    <2>1. PICK sum \in BOOLEAN :
             Updates!Goes(n, [ups[n] EXCEPT !.stage = "fetch", !.ver = latest, !.sum = sum])
        BY <1>5 DEF Updates!Check
    <2>2. PICK t : t = [ups[n] EXCEPT !.stage = "fetch", !.ver = latest, !.sum = sum]
        OBVIOUS
    <2>3. t \in Thread /\ t.stage = "fetch" /\ t.ver = latest
        BY <1>0, <1>1, <2>2 DEF Thread, Stages
    <2>4. ups' = [ups EXCEPT ![n] = t]
        BY <2>1, <2>2 DEF Updates!Goes
    <2>5. /\ upJob' = [phase |-> "download", ver |-> latest]
          /\ UNCHANGED <<installKind, latest, summed, current, updates, tree, blind, entangled,
                         upCounts>>
        BY <1>5 DEF Updates!Check
    <2>6. upJob' \in [phase : {"idle", "download", "launched", "sync", "error"},
                      ver : 0 .. MaxRelease]
        BY <1>1, <2>5
    <2>7. ups' \in Seq(Thread) /\ \A k \in DOMAIN ups' : Sound(ups'[k], updates, noted)
        <3>1. Sound(t, updates, noted)
            BY <1>1, <2>3 DEF Sound
        <3> QED BY <1>0, <2>3, <2>4, <3>1, ThreadGoes
    <2> QED BY <1>0, <2>5, <2>6, <2>7, RecordStep DEF noted
<1>6. ASSUME NEW n \in DOMAIN ups, Updates!Fetch(n)
      PROVE  FolderInv'
    <2>1. PICK whole \in BOOLEAN :
             Updates!Goes(n, [ups[n] EXCEPT !.stage = "compare", !.whole = whole])
        BY <1>6 DEF Updates!Fetch
    <2>2. PICK t : t = [ups[n] EXCEPT !.stage = "compare", !.whole = whole]
        OBVIOUS
    <2>3. t \in Thread /\ t.stage = "compare" /\ t.ver = ups[n].ver /\ ups[n].stage = "fetch"
        BY <1>0, <1>6, <2>2 DEF Thread, Stages, Updates!Fetch, Updates!At
    <2>4. ups' = [ups EXCEPT ![n] = t]
        BY <2>1, <2>2 DEF Updates!Goes
    <2>5. Sound(t, updates, noted)
        BY <1>0, <2>3 DEF Sound
    <2>6. /\ ups' \in Seq(Thread) /\ DOMAIN ups' = DOMAIN ups
          /\ \A k \in DOMAIN ups : ups'[k] = IF k = n THEN t ELSE ups[k]
        BY <1>0, <2>3, <2>4, ThreadGoes
    <2>7. /\ \A k \in DOMAIN ups' : Sound(ups'[k], updates, noted)
          /\ \A k \in DOMAIN ups : ups[k].stage = "copy" => ups'[k] = ups[k]
        BY <1>0, <2>3, <2>5, <2>6
    <2> QED BY <1>0, <1>6, <2>6, <2>7, CopyStays DEF noted, Updates!Fetch
<1>7. ASSUME NEW n \in DOMAIN ups, Updates!ReadTag(n)
      PROVE  FolderInv'
    <2>1. PICK t : t = [ups[n] EXCEPT !.stage = "panel", !.ver = latest]
        OBVIOUS
    <2>2. t \in Thread /\ t.stage = "panel" /\ t.ver = latest
        BY <1>0, <1>1, <2>1 DEF Thread, Stages
    <2>3. /\ ups' = [ups EXCEPT ![n] = t] /\ upJob' = [phase |-> "download", ver |-> 0]
          /\ UNCHANGED <<installKind, latest, summed, current, updates, tree, blind, entangled,
                         upCounts>>
        BY <1>7, <2>1 DEF Updates!ReadTag, Updates!Goes
    <2>4. ups' \in Seq(Thread) /\ \A k \in DOMAIN ups' : Sound(ups'[k], updates, noted)
        <3>1. Sound(t, updates, noted)
            BY <1>1, <2>2 DEF Sound
        <3> QED BY <1>0, <2>2, <2>3, <3>1, ThreadGoes
    <2>5. upJob' \in [phase : {"idle", "download", "launched", "sync", "error"},
                      ver : 0 .. MaxRelease]
        BY <1>1, <2>3
    <2> QED BY <1>0, <2>3, <2>4, <2>5, RecordStep DEF noted
<1>8. ASSUME NEW n \in DOMAIN ups, Updates!Sync(n)
      PROVE  FolderInv'
    <2>1. ups[n].stage \in {"panel", "tools"}
        BY <1>8 DEF Updates!Sync, Updates!After
    <2>2. PICK after \in {"tools", "build"} : after = Updates!After[ups[n].stage]
        BY <2>1 DEF Updates!After
    <2>3. PICK t : t = [ups[n] EXCEPT !.stage = after]
        OBVIOUS
    <2>4. t \in Thread /\ t.stage = after /\ t.ver = ups[n].ver
        BY <1>0, <2>3 DEF Thread, Stages
    <2>5. ups[n].ver \in Updates!Versions /\ ups[n].ver # 0
        <3>1. ups[n].ver \in 0 .. MaxRelease /\ ups[n].ver # 0
            BY <1>0, <2>1 DEF Sound, Thread
        <3> QED BY <3>1, UpAre
    <2>6. /\ ups' = [ups EXCEPT ![n] = t]
          /\ tree' = [tree EXCEPT ![ups[n].stage] = ups[n].ver]
          /\ upJob' = [upJob EXCEPT !.phase = "sync"]
          /\ UNCHANGED <<installKind, latest, summed, current, updates, blind, entangled,
                         upCounts>>
        BY <1>0, <1>8, <2>2, <2>3 DEF Updates!Sync, Updates!Goes, Thread
    <2>7. ups' \in Seq(Thread) /\ \A k \in DOMAIN ups' : Sound(ups'[k], updates, noted)
        <3>1. Sound(t, updates, noted)
            BY <2>4, <2>5 DEF Sound
        <3> QED BY <1>0, <2>4, <2>6, <3>1, ThreadGoes
    <2>8. tree' \in [panel : Updates!Versions, tools : Updates!Versions]
        <3>1. CASE ups[n].stage = "panel"
            BY <1>0, <2>5, <2>6, <3>1
        <3>2. CASE ups[n].stage = "tools"
            BY <1>0, <2>5, <2>6, <3>2
        <3> QED BY <2>1, <3>1, <3>2
    <2>9. upJob' \in [phase : {"idle", "download", "launched", "sync", "error"},
                      ver : 0 .. MaxRelease]
        BY <1>0, <2>6
    <2> QED BY <1>0, <2>6, <2>7, <2>8, <2>9, RecordStep DEF noted
<1>9. ASSUME NEW n \in DOMAIN ups, Updates!Build(n)
      PROVE  FolderInv'
    <2>1. /\ current' = tree.panel /\ ups' = <<>> /\ upJob' = [phase |-> "idle", ver |-> 0]
          /\ UNCHANGED <<installKind, latest, summed, updates, tree, blind, entangled, upCounts>>
        BY <1>9 DEF Updates!Build
    <2>2. /\ current' \in Updates!Versions /\ upJob' \in [phase : {"idle", "download", "launched", "sync", "error"},
                      ver : 0 .. MaxRelease]
        BY <1>0, <1>1, <2>1
    <2> QED BY <1>0, <1>1, <2>1, <2>2, RecordStep DEF noted
<1>10. ASSUME NEW n \in DOMAIN ups, Updates!Fails(n)
       PROVE  FolderInv'
    <2>1. /\ ups' = Updates!RemoveAt(ups, n) /\ upJob' = [phase |-> "error", ver |-> upJob.ver]
          /\ UNCHANGED <<installKind, latest, summed, current, updates, tree, blind, entangled,
                         upCounts>>
        BY <1>10 DEF Updates!Fails, Updates!Ends
    <2>2. ups' \in Seq(Thread) /\ \A k \in DOMAIN ups' : Sound(ups'[k], updates, noted)
        BY <1>0, <2>1, ThreadGone
    <2>3. upJob' \in [phase : {"idle", "download", "launched", "sync", "error"},
                      ver : 0 .. MaxRelease]
        BY <1>0, <2>1
    <2> QED BY <1>0, <2>1, <2>2, <2>3, RecordStep DEF noted
<1>11. CASE UNCHANGED upVars
    BY <1>0, <1>11, CopyStays DEF upVars, noted
<1> QED BY <1>2, <1>3, <1>4, <1>5, <1>6, <1>7, <1>8, <1>9, <1>10, <1>11, MoveInStep,
           CopyBeginsStep, CopyEndsStep DEF Updates!UpNext, Updates!Download, Updates!Rebuild

(***************************************************************************)
(* While the record says "ready" the installer it names is whole, for any  *)
(* number of releases and of downloads side by side, but for one without a *)
(* sum and for two copies at a time (panel_updates.py                      *)
(* download_latest_setup).                                                 *)
(***************************************************************************)
THEOREM ReadyInstallersAreWhole == PartsSpec => []ReadyIsWhole
<1>1. FolderInv => ReadyIsWhole
    BY DEF FolderInv
<1> QED BY <1>1, UpdatesOnly, FolderInitially, FolderStep, PTL DEF PartsSpec
-----------------------------------------------------------------------------
(***************************************************************************)
(* The browsers.  An id is given to one handler only, so an id that is     *)
(* pruned because a send to it raised, or that a handler takes out when it *)
(* leaves, is never that of another browser.                               *)
(***************************************************************************)
Been == {"serves", "leaves", "over"}
Entry == [id : Nat, ws : Sockets]

\* An entry of the table was made by the handler of its connection.
Issued(c) == c \in Entry /\ handler[c.ws] \in Been /\ idOf[c.ws] = c.id

\* An id that did not answer is that of a broken connection.
Gone(d) == \E s \in broken : handler[s] \in Been /\ idOf[s] = d

BusInv ==
    /\ socket \in [Sockets -> {"new", "open", "closed"}]
    /\ handler \in [Sockets -> {"none", "accepted"} \cup Been]
    /\ idOf \in [Sockets -> Int] /\ nextId \in Nat /\ broken \subseteq Sockets
    /\ sends \in Seq([left : SUBSET Entry, dead : SUBSET Nat])
    /\ \A s \in Sockets : handler[s] \in Been => idOf[s] \in Nat /\ idOf[s] < nextId
    /\ \A s \in Sockets : socket[s] = "new" => handler[s] = "none"
    /\ \A s, t \in Sockets :
          handler[s] \in Been /\ handler[t] \in Been /\ idOf[s] = idOf[t] => s = t
    /\ \A c \in clients : Issued(c)
    /\ \A n \in DOMAIN sends :
          (\A c \in sends[n].left : Issued(c)) /\ (\A d \in sends[n].dead : Gone(d))
    /\ LiveStaySubscribed

LEMMA BusOnly == [PartsNext]_<<part, vars, schedVars, monVars, deployVars, jobVars, upVars,
                      localVars, busVars, accessVars, chunkVars, slotVars>>
                  => [Bus!BusNext]_busVars
BY DEF PartsNext

LEMMA BusInitially == PartsInit => BusInv
BY DEF PartsInit, Bus!BusInit, BusInv, Been, Issued, Gone, LiveStaySubscribed,
       Bus!LiveStaySubscribed

\* A handler that has its id keeps it, and a broken connection stays broken.
LEMMA Lasting ==
    ASSUME \A s \in Sockets : handler[s] \in Been => handler'[s] \in Been /\ idOf'[s] = idOf[s],
           broken \subseteq Sockets, broken \subseteq broken'
    PROVE  /\ \A c : Issued(c) => Issued(c)'
           /\ \A d : Gone(d) => Gone(d)'
BY DEF Issued, Gone, Entry

\* publish goes through its targets oldest first: there is an oldest one.
LEMMA Oldest ==
    ASSUME NEW T \in SUBSET Entry, T # {}
    PROVE  Bus!Nearest(T) \in T
<1> DEFINE I == {c.id : c \in T}
<1>1. I \subseteq Nat /\ I # {}
    BY DEF Entry
<1>2. PICK m \in I : \A i \in I : m <= i
    <2> HIDE DEF I
    <2> QED BY <1>1, Least
<1>3. PICK c \in T : c.id = m
    BY <1>2
<1>4. \A d \in T : c.id <= d.id
    BY <1>2, <1>3
<1> QED BY <1>4 DEF Bus!Nearest

LEMMA ConnectsStep ==
    ASSUME BusInv, NEW s \in Sockets, Bus!Connects(s) PROVE BusInv'
<1>1. /\ handler[s] = "accepted" /\ handler' = [handler EXCEPT ![s] = "serves"]
      /\ idOf' = [idOf EXCEPT ![s] = nextId] /\ nextId' = nextId + 1
      /\ clients' = clients \cup {[id |-> nextId, ws |-> s]}
      /\ socket' = socket /\ sends' = sends /\ broken' = broken /\ broken \subseteq Sockets
    BY DEF Bus!Connects, BusInv
<1>2. /\ handler' \in [Sockets -> {"none", "accepted"} \cup Been] /\ nextId' \in Nat
      /\ idOf' \in [Sockets -> Int]
      /\ \A t \in Sockets \ {s} : handler'[t] = handler[t] /\ idOf'[t] = idOf[t]
      /\ handler'[s] = "serves" /\ idOf'[s] = nextId /\ handler[s] \notin Been
    BY <1>1 DEF BusInv, Been
<1>3. /\ \A c : Issued(c) => Issued(c)'
      /\ \A d : Gone(d) => Gone(d)'
    BY <1>1, <1>2, Lasting
<1>4. PICK e \in Entry : e = [id |-> nextId, ws |-> s]
    BY DEF Entry, BusInv
<1>5. Issued(e)'
    BY <1>2, <1>4 DEF Issued, Entry, Been
<1>6. \A t, u \in Sockets :
         handler'[t] \in Been /\ handler'[u] \in Been /\ idOf'[t] = idOf'[u] => t = u
    BY <1>1, <1>2 DEF BusInv
<1>7. \A t \in Sockets : handler'[t] \in Been => idOf'[t] \in Nat /\ idOf'[t] < nextId'
    BY <1>1, <1>2 DEF BusInv
<1>8. LiveStaySubscribed'
    <2> SUFFICES ASSUME NEW t \in Sockets, handler'[t] = "serves", t \notin broken
                 PROVE  [id |-> idOf'[t], ws |-> t] \in clients'
        BY <1>1 DEF LiveStaySubscribed, Bus!LiveStaySubscribed
    <2>1. CASE t = s
        BY <1>1, <1>2, <2>1
    <2>2. CASE t # s
        BY <1>1, <1>2, <2>2 DEF BusInv, LiveStaySubscribed, Bus!LiveStaySubscribed
    <2> QED BY <2>1, <2>2
<1>9. \A c \in clients' : Issued(c)'
    BY <1>1, <1>3, <1>4, <1>5 DEF BusInv
<1>10. /\ sends' \in Seq([left : SUBSET Entry, dead : SUBSET Nat])
      /\ \A n \in DOMAIN sends' :
            (\A c \in sends'[n].left : Issued(c)') /\ (\A d \in sends'[n].dead : Gone(d)')
    BY <1>1, <1>3 DEF BusInv
<1>11. /\ socket' \in [Sockets -> {"new", "open", "closed"}]
       /\ \A t \in Sockets : socket'[t] = "new" => handler'[t] = "none"
    BY <1>1, <1>2 DEF BusInv
<1> QED BY <1>1, <1>2, <1>6, <1>7, <1>8, <1>9, <1>10, <1>11 DEF BusInv

LEMMA DisconnectsStep ==
    ASSUME BusInv, NEW s \in Sockets, Bus!Disconnects(s) PROVE BusInv'
<1>1. /\ handler[s] = "leaves" /\ handler' = [handler EXCEPT ![s] = "over"]
      /\ clients' = {c \in clients : c.id # idOf[s]}
      /\ UNCHANGED <<socket, idOf, nextId, sends, broken>> /\ broken \subseteq Sockets
    BY DEF Bus!Disconnects, BusInv
<1>2. /\ handler' \in [Sockets -> {"none", "accepted"} \cup Been]
      /\ \A t \in Sockets : handler[t] \in Been <=> handler'[t] \in Been
      /\ \A t \in Sockets \ {s} : handler'[t] = handler[t]
      /\ handler'[s] = "over"
    BY <1>1 DEF BusInv, Been
<1>3. /\ \A c : Issued(c) => Issued(c)'
      /\ \A d : Gone(d) => Gone(d)'
    BY <1>1, <1>2, Lasting
<1>4. LiveStaySubscribed'
    <2> SUFFICES ASSUME NEW t \in Sockets, handler'[t] = "serves", t \notin broken
                 PROVE  [id |-> idOf'[t], ws |-> t] \in clients'
        BY <1>1 DEF LiveStaySubscribed, Bus!LiveStaySubscribed
    <2>1. t # s /\ handler[t] = "serves"
        BY <1>1, <1>2
    <2>2. [id |-> idOf[t], ws |-> t] \in clients
        BY <2>1 DEF BusInv, LiveStaySubscribed, Bus!LiveStaySubscribed
    <2>3. idOf[t] # idOf[s]
        BY <1>1, <2>1 DEF BusInv, Been
    <2> QED BY <1>1, <2>2, <2>3
<1> QED BY <1>1, <1>2, <1>3, <1>4 DEF BusInv

LEMMA PrunesStep ==
    ASSUME BusInv, NEW n \in DOMAIN sends, Bus!Prunes(n) PROVE BusInv'
<1> DEFINE Send == [left : SUBSET Entry, dead : SUBSET Nat]
<1>1. /\ clients' = {c \in clients : c.id \notin sends[n].dead}
      /\ sends' = Bus!RemoveAt(sends, n)
      /\ UNCHANGED <<socket, handler, idOf, nextId, broken>> /\ broken \subseteq Sockets
    BY DEF Bus!Prunes, BusInv
<1>2. sends \in Seq(Send) /\ Len(sends) \in Nat /\ DOMAIN sends = 1 .. Len(sends)
    BY LenProperties DEF BusInv
<1> HIDE DEF Send
<1>3. /\ sends' \in Seq(Send)
      /\ \A k \in DOMAIN sends' : \E j \in DOMAIN sends : sends'[k] = sends[j]
    <2> DEFINE t == SubSeq(sends, 1, n - 1) \o SubSeq(sends, n + 1, Len(sends))
    <2>1. /\ t \in Seq(Send) /\ Len(t) = Len(sends) - 1
          /\ \A k \in 1 .. Len(t) : t[k] = sends[IF k < n THEN k ELSE k + 1]
        BY <1>2, Removed
    <2>2. sends' = t
        BY <1>1 DEF Bus!RemoveAt
    <2> HIDE DEF t
    <2>3. DOMAIN t = 1 .. Len(sends) - 1
        BY <2>1, LenProperties
    <2>4. ASSUME NEW k \in DOMAIN t
          PROVE  \E j \in DOMAIN sends : t[k] = sends[j]
        <3>1. (IF k < n THEN k ELSE k + 1) \in DOMAIN sends
            BY <1>2, <2>3
        <3> QED BY <1>2, <2>1, <2>3, <3>1
    <2> QED BY <2>1, <2>2, <2>4
<1>4. /\ \A c : Issued(c) => Issued(c)'
      /\ \A d : Gone(d) => Gone(d)'
    BY <1>1, Lasting
<1>5. LiveStaySubscribed'
    <2> SUFFICES ASSUME NEW t \in Sockets, handler[t] = "serves", t \notin broken
                 PROVE  [id |-> idOf[t], ws |-> t] \in clients'
        BY <1>1 DEF LiveStaySubscribed, Bus!LiveStaySubscribed
    <2>1. [id |-> idOf[t], ws |-> t] \in clients
        BY DEF BusInv, LiveStaySubscribed, Bus!LiveStaySubscribed
    <2>2. ASSUME idOf[t] \in sends[n].dead
          PROVE  FALSE
        <3>1. Gone(idOf[t])
            BY <2>2 DEF BusInv
        <3>2. PICK s \in broken : handler[s] \in Been /\ idOf[s] = idOf[t]
            BY <3>1 DEF Gone
        <3>3. s = t
            BY <1>1, <3>2 DEF BusInv, Been
        <3> QED BY <3>2, <3>3
    <2> QED BY <1>1, <2>1, <2>2
<1>6. /\ \A c \in clients' : Issued(c)'
      /\ \A k \in DOMAIN sends' :
            (\A c \in sends'[k].left : Issued(c)') /\ (\A d \in sends'[k].dead : Gone(d)')
    BY <1>1, <1>3, <1>4 DEF BusInv
<1> QED BY <1>1, <1>3, <1>5, <1>6 DEF BusInv, Send

LEMMA SendsStep ==
    ASSUME BusInv, NEW n \in DOMAIN sends, Bus!Sends(n) PROVE BusInv'
<1> DEFINE Send == [left : SUBSET Entry, dead : SUBSET Nat]
           c == Bus!Nearest(sends[n].left)
<1>0. PICK raises \in BOOLEAN :
         LET dead == IF raises THEN {c.id} ELSE {}
         IN  /\ sends' = [sends EXCEPT ![n] = [left |-> @.left \ {c}, dead |-> @.dead \cup dead]]
             /\ broken' = IF raises THEN broken \cup {c.ws} ELSE broken
    BY DEF Bus!Sends
<1> DEFINE dead == IF raises THEN {c.id} ELSE {}
<1>1. /\ sends' = [sends EXCEPT ![n] = [left |-> @.left \ {c}, dead |-> @.dead \cup dead]]
      /\ broken' = IF raises THEN broken \cup {c.ws} ELSE broken
      /\ sends[n].left # {} /\ broken \subseteq Sockets
      /\ UNCHANGED <<socket, handler, idOf, clients, nextId>>
    BY <1>0 DEF Bus!Sends, BusInv
<1>2. /\ sends \in Seq(Send) /\ Len(sends) \in Nat /\ DOMAIN sends = 1 .. Len(sends)
      /\ sends[n] \in Send
    <2>1. sends \in Seq(Send)
        BY DEF BusInv
    <2> HIDE DEF Send
    <2> QED BY <2>1, LenProperties, ElementOfSeq
<1>3. c \in sends[n].left /\ Issued(c) /\ c \in Entry
    BY <1>1, <1>2, Oldest DEF BusInv
<1>4. /\ broken \subseteq broken' /\ broken' \subseteq Sockets
      /\ \A d \in dead : \E s \in broken' : handler[s] \in Been /\ idOf[s] = d
    BY <1>1, <1>3 DEF Issued, Entry
<1>5. dead \subseteq Nat
    BY <1>3 DEF Entry
<1> HIDE DEF c, dead
<1>6. PICK new \in Send : /\ new.left = sends[n].left \ {c} /\ new.dead = sends[n].dead \cup dead
                          /\ sends' = [sends EXCEPT ![n] = new]
    <2> DEFINE new == [left |-> sends[n].left \ {c}, dead |-> sends[n].dead \cup dead]
    <2>1. new \in Send
        BY <1>2, <1>5
    <2>2. sends' = [sends EXCEPT ![n] = new]
        BY <1>1
    <2> QED BY <2>1, <2>2
<1> HIDE DEF Send
<1>7. /\ sends' \in Seq(Send) /\ DOMAIN sends' = DOMAIN sends /\ sends'[n] = new
      /\ \A k \in DOMAIN sends \ {n} : sends'[k] = sends[k]
    BY <1>2, <1>6, ExceptSeq
<1>8. /\ \A e : Issued(e) => Issued(e)'
      /\ \A d : Gone(d) => Gone(d)'
      /\ \A d \in dead : Gone(d)'
    BY <1>1, <1>4, Lasting DEF Gone
<1>9. \A k \in DOMAIN sends' :
         (\A e \in sends'[k].left : Issued(e)') /\ (\A d \in sends'[k].dead : Gone(d)')
    <2> SUFFICES ASSUME NEW k \in DOMAIN sends
                 PROVE  /\ \A e \in sends'[k].left : Issued(e)
                        /\ \A d \in sends'[k].dead : Gone(d) \/ d \in dead
        BY <1>7, <1>8
    <2>1. (\A e \in sends[k].left : Issued(e)) /\ (\A d \in sends[k].dead : Gone(d))
        BY DEF BusInv
    <2>2. CASE k = n
        BY <1>6, <1>7, <2>1, <2>2
    <2>3. CASE k # n
        BY <1>7, <2>1, <2>3
    <2> QED BY <2>2, <2>3
<1>10. /\ LiveStaySubscribed'
       /\ \A e \in clients' : Issued(e)'
    BY <1>1, <1>4, <1>8 DEF BusInv, LiveStaySubscribed, Bus!LiveStaySubscribed
<1> QED BY <1>1, <1>4, <1>7, <1>9, <1>10 DEF BusInv, Send

LEMMA PublishesStep == BusInv /\ Bus!Publishes => BusInv'
<1> SUFFICES ASSUME BusInv, Bus!Publishes PROVE BusInv'
    OBVIOUS
<1> DEFINE Send == [left : SUBSET Entry, dead : SUBSET Nat]
<1>1. UNCHANGED <<socket, handler, idOf, clients, nextId, broken>> /\ broken \subseteq Sockets
    BY DEF Bus!Publishes, BusInv
<1>2. PICK new \in Send :
         new.left = clients /\ new.dead = {} /\ sends' = Append(sends, new)
    BY DEF Bus!Publishes, BusInv, Issued
<1>3. sends \in Seq(Send)
    BY DEF BusInv
<1> HIDE DEF Send
<1>4. /\ sends' \in Seq(Send) /\ DOMAIN sends' = 1 .. Len(sends) + 1
      /\ Len(sends) \in Nat /\ DOMAIN sends = 1 .. Len(sends)
      /\ \A k \in DOMAIN sends : sends'[k] = sends[k]
      /\ sends'[Len(sends) + 1] = new
    BY <1>2, <1>3, Appended
<1>5. /\ \A c : Issued(c) => Issued(c)'
      /\ \A d : Gone(d) => Gone(d)'
    BY <1>1, Lasting
<1>6. \A k \in DOMAIN sends' : k \in DOMAIN sends \/ k = Len(sends) + 1
    BY <1>4
<1>7. \A k \in DOMAIN sends' :
         (\A c \in sends'[k].left : Issued(c)') /\ (\A d \in sends'[k].dead : Gone(d)')
    BY <1>2, <1>4, <1>5, <1>6 DEF BusInv
<1>8. /\ LiveStaySubscribed'
      /\ \A c \in clients' : Issued(c)'
    BY <1>1, <1>5 DEF BusInv, LiveStaySubscribed, Bus!LiveStaySubscribed
<1> QED BY <1>1, <1>4, <1>7, <1>8 DEF BusInv, Send

LEMMA BusStep == BusInv /\ [Bus!BusNext]_busVars => BusInv'
<1> SUFFICES ASSUME BusInv, [Bus!BusNext]_busVars PROVE BusInv'
    OBVIOUS
<1>0. ASSUME UNCHANGED <<idOf, clients, nextId, sends, broken>>,
             socket' \in [Sockets -> {"new", "open", "closed"}],
             handler' \in [Sockets -> {"none", "accepted"} \cup Been],
             \A s \in Sockets : handler[s] \in Been <=> handler'[s] \in Been,
             \A s \in Sockets : socket'[s] = "new" => handler'[s] = "none",
             \A s \in Sockets : handler'[s] = "serves" => handler[s] = "serves"
      PROVE  BusInv'
    <2>1. /\ \A c : Issued(c) => Issued(c)'
          /\ \A d : Gone(d) => Gone(d)'
        BY <1>0, Lasting DEF BusInv
    <2>2. LiveStaySubscribed'
        BY <1>0 DEF BusInv, LiveStaySubscribed, Bus!LiveStaySubscribed
    <2>3. /\ \A c \in clients' : Issued(c)'
          /\ \A k \in DOMAIN sends' :
                (\A c \in sends'[k].left : Issued(c)') /\ (\A d \in sends'[k].dead : Gone(d)')
        BY <1>0, <2>1 DEF BusInv
    <2> QED BY <1>0, <2>2, <2>3 DEF BusInv
<1>1. ASSUME NEW s \in Sockets, Bus!Accepts(s)
      PROVE  BusInv'
    <2>1. /\ socket' \in [Sockets -> {"new", "open", "closed"}]
          /\ handler' \in [Sockets -> {"none", "accepted"} \cup Been]
          /\ \A t \in Sockets \ {s} : socket'[t] = socket[t] /\ handler'[t] = handler[t]
          /\ socket[s] = "new" /\ socket'[s] = "open"
          /\ handler[s] = "none" /\ handler'[s] = "accepted"
        BY <1>1 DEF Bus!Accepts, BusInv
    <2>2. UNCHANGED <<idOf, clients, nextId, sends, broken>>
        BY <1>1 DEF Bus!Accepts
    <2>3. \A t \in Sockets : handler[t] \in Been <=> handler'[t] \in Been
        BY <2>1 DEF Been
    <2>4. \A t \in Sockets : socket'[t] = "new" => handler'[t] = "none"
        BY <2>1 DEF BusInv
    <2> QED BY <1>0, <2>1, <2>2, <2>3, <2>4
<1>2. ASSUME NEW s \in Sockets, Bus!BrowserCloses(s)
      PROVE  BusInv'
    BY <1>0, <1>2 DEF Bus!BrowserCloses, BusInv
<1>3. ASSUME NEW s \in Sockets, Bus!Leaves(s)
      PROVE  BusInv'
    BY <1>0, <1>3 DEF Bus!Leaves, BusInv, Been
<1>4. CASE UNCHANGED busVars
    BY <1>0, <1>4 DEF busVars, BusInv
<1> QED BY <1>1, <1>2, <1>3, <1>4, ConnectsStep, DisconnectsStep, PublishesStep, SendsStep,
           PrunesStep DEF Bus!BusNext

(***************************************************************************)
(* A browser stays in the table until a send to it raises, for any number  *)
(* of browsers and of events under way (event_bus.py publish, disconnect). *)
(***************************************************************************)
THEOREM BrowsersStaySubscribed == PartsSpec => []LiveStaySubscribed
<1>1. BusInv => LiveStaySubscribed
    BY DEF BusInv
<1> QED BY <1>1, BusOnly, BusInitially, BusStep, PTL DEF PartsSpec
-----------------------------------------------------------------------------
(***************************************************************************)
(* The wipe of a cell.  While a request has noted no error, each file it   *)
(* is through with is gone on both sides, and in the folder of the wipe;   *)
(* one whose backup was copied over, or that was written again, is among   *)
(* those it answers for no more.                                           *)
(***************************************************************************)
Wipe == [pc : {"idle", "list", "row", "copy", "unlink", "remote", "ok", "failed"},
         listed : SUBSET Copies, todo : SUBSET Copies, hand : SUBSET Copies,
         stamp : 1 .. MaxSecond, client : BOOLEAN, errors : BOOLEAN, loose : SUBSET Copies]

BackupOf(w, c) == [stamp |-> wipes[w].stamp, copy |-> c, whole |-> TRUE]

Past(w) == wipes[w].listed \ (wipes[w].todo \cup wipes[w].loose)

\* What a request without an error has behind it.
Clean(w) ==
    /\ wipes[w].client
    /\ wipes[w].pc \in {"row", "ok"} => wipes[w].hand = {}
    /\ wipes[w].pc = "ok" => wipes[w].todo = {}
    /\ \A c \in Past(w) :
          /\ BackupOf(w, c) \in backups \/ (wipes[w].pc = "copy" /\ c \in wipes[w].hand)
          /\ (wipes[w].pc \in {"copy", "unlink"} /\ c \in wipes[w].hand) \/ c \notin disk
          /\ c \in wipes[w].hand \/ RemoteOf[c] \notin saved

Works(w) == wipes[w].pc \in {"row", "copy", "unlink", "remote", "ok"} /\ ~ wipes[w].errors

WipeInv ==
    /\ disk \subseteq Copies /\ second \in 1 .. MaxSecond
    /\ backups \subseteq Chunks!Backup
    /\ wipes \in [Requests -> Wipe]
    /\ \A w \in Requests : wipes[w].pc = "ok" => ~ wipes[w].errors
    /\ \A w \in Requests : Works(w) => Clean(w)

LEMMA ChunksOnly == [PartsNext]_<<part, vars, schedVars, monVars, deployVars, jobVars, upVars,
                         localVars, busVars, accessVars, chunkVars, slotVars>>
                     => [Chunks!ChunkNext]_chunkVars
BY DEF PartsNext

LEMMA WipeInitially == PartsInit => WipeInv
BY PartsAssumption DEF PartsInit, Chunks!ChunkInit, Chunks!NoWipe, WipeInv, Wipe, Works

\* The requests that do not move keep what they have behind them, if
\* nothing of it comes back and no backup of it is lost.
LEMMA OthersClean ==
    ASSUME WipeInv, NEW v \in Requests, Clean(v), wipes'[v] = wipes[v],
           \A c \in Past(v) : /\ c \in disk' => c \in disk
                              /\ RemoteOf[c] \in saved' => RemoteOf[c] \in saved
                              /\ BackupOf(v, c) \in backups => BackupOf(v, c) \in backups'
    PROVE  Clean(v)'
BY DEF Clean, Past, BackupOf

\* A request that moves on while the files shrink and the backups stay.
LEMMA WipeMoves ==
    ASSUME WipeInv, NEW w \in Requests, NEW new \in Wipe,
           wipes' = [wipes EXCEPT ![w] = new],
           disk' \subseteq disk, saved' \subseteq saved, backups' = backups, second' = second,
           new.pc = "ok" => ~ new.errors,
           Works(w)' => Clean(w)'
    PROVE  WipeInv'
<1>1. /\ wipes' \in [Requests -> Wipe] /\ wipes'[w] = new
      /\ \A v \in Requests \ {w} : wipes'[v] = wipes[v]
    BY DEF WipeInv
<1>2. ASSUME NEW v \in Requests, Works(v)'
      PROVE  Clean(v)'
    <2>1. CASE v = w
        BY <1>2, <2>1
    <2>2. CASE v # w
        <3>1. wipes'[v] = wipes[v] /\ Works(v)
            BY <1>1, <1>2, <2>2 DEF Works
        <3>2. Clean(v)
            BY <3>1 DEF WipeInv
        <3> QED BY <3>1, <3>2, OthersClean
    <2> QED BY <2>1, <2>2
<1> QED BY <1>1, <1>2 DEF WipeInv

LEMMA NoWipeTyped ==
    Chunks!NoWipe \in Wipe /\ Chunks!NoWipe.hand = {} /\ Chunks!NoWipe.loose = {}
BY PartsAssumption DEF Chunks!NoWipe, Wipe

LEMMA AskStep ==
    ASSUME WipeInv, NEW w \in Requests, Chunks!Ask(w) PROVE WipeInv'
<1>1. PICK new \in Wipe : new.pc = "list" /\ wipes' = [wipes EXCEPT ![w] = new]
    <2>1. Chunks!NoWipe \in Wipe
        BY NoWipeTyped
    <2>2. PICK new \in Wipe : new = [Chunks!NoWipe EXCEPT !.pc = "list"]
        BY <2>1 DEF Wipe
    <2>3. new.pc = "list"
        BY <2>1, <2>2 DEF Wipe
    <2> QED BY <2>2, <2>3 DEF Chunks!Ask
<1>2. ~ Works(w)'
    BY <1>1 DEF Works, WipeInv
<1> QED BY <1>1, <1>2, WipeMoves DEF Chunks!Ask

LEMMA ListsStep ==
    ASSUME WipeInv, NEW w \in Requests, Chunks!Lists(w) PROVE WipeInv'
<1>1. PICK reached \in BOOLEAN :
         wipes' = [wipes EXCEPT ![w] = [Chunks!NoWipe EXCEPT
             !.pc = "row", !.listed = disk, !.todo = disk, !.stamp = second,
             !.client = reached, !.errors = ~ reached]]
    BY DEF Chunks!Lists, Chunks!Listed
<1>2. PICK new \in Wipe : /\ new.pc = "row" /\ new.listed = disk /\ new.todo = disk
                          /\ new.hand = {} /\ (~ new.errors => new.client)
                          /\ wipes' = [wipes EXCEPT ![w] = new]
    <2>1. disk \in SUBSET Copies /\ second \in 1 .. MaxSecond
        BY DEF WipeInv
    <2>2. PICK err \in BOOLEAN : err = ~ reached
        OBVIOUS
    <2>3. PICK new \in Wipe :
             new = [Chunks!NoWipe EXCEPT !.pc = "row", !.listed = disk, !.todo = disk,
                       !.stamp = second, !.client = reached, !.errors = err]
        BY <2>1, NoWipeTyped DEF Wipe
    <2>4. /\ new.pc = "row" /\ new.listed = disk /\ new.todo = disk /\ new.hand = {}
          /\ new.client = reached /\ new.errors = err
        BY <2>3, NoWipeTyped DEF Wipe
    <2>5. wipes' = [wipes EXCEPT ![w] = new]
        BY <1>1, <2>2, <2>3
    <2> QED BY <2>2, <2>4, <2>5
<1>3. wipes'[w] = new
    BY <1>2 DEF WipeInv
<1>4. Works(w)' => Clean(w)'
    BY <1>2, <1>3 DEF Works, Clean, Past
<1> QED BY <1>2, <1>4, WipeMoves DEF Chunks!Lists

LEMMA EndsStep ==
    ASSUME WipeInv, NEW w \in Requests,
           Chunks!ListFails(w) \/ Chunks!CopyFails(w) \/ Chunks!Answers(w)
    PROVE  WipeInv'
<1>0. wipes[w] \in Wipe
    BY DEF WipeInv
<1>1. CASE Chunks!ListFails(w) \/ Chunks!CopyFails(w)
    <2>1. PICK new \in Wipe : new.pc = "failed" /\ wipes' = [wipes EXCEPT ![w] = new]
        BY <1>0, <1>1 DEF Chunks!ListFails, Chunks!CopyFails, Wipe
    <2>2. ~ Works(w)'
        BY <2>1 DEF Works, WipeInv
    <2> QED BY <1>1, <2>1, <2>2, WipeMoves DEF Chunks!ListFails, Chunks!CopyFails
<1>2. CASE Chunks!Answers(w) /\ wipes[w].errors
    <2>1. PICK new \in Wipe : new.pc = "failed" /\ wipes' = [wipes EXCEPT ![w] = new]
        BY <1>0, <1>2 DEF Chunks!Answers, Wipe
    <2>2. ~ Works(w)'
        BY <2>1 DEF Works, WipeInv
    <2> QED BY <1>2, <2>1, <2>2, WipeMoves DEF Chunks!Answers
<1>3. CASE Chunks!Answers(w) /\ ~ wipes[w].errors
    <2>1. PICK new \in Wipe : new = [wipes[w] EXCEPT !.pc = "ok"]
        BY <1>0 DEF Wipe
    <2>2. wipes' = [wipes EXCEPT ![w] = new]
        BY <1>3, <2>1 DEF Chunks!Answers
    <2>3. wipes'[w] = new
        BY <2>2 DEF WipeInv
    <2>4. /\ new.pc = "ok" /\ ~ new.errors /\ new.listed = wipes[w].listed
          /\ new.todo = wipes[w].todo /\ new.hand = wipes[w].hand /\ new.loose = wipes[w].loose
          /\ new.stamp = wipes[w].stamp /\ new.client = wipes[w].client
        BY <1>0, <1>3, <2>1 DEF Wipe
    <2>5. Clean(w) /\ wipes[w].pc = "row" /\ wipes[w].todo = {}
        BY <1>3 DEF WipeInv, Works, Chunks!Answers
    <2>6. UNCHANGED <<disk, saved, backups, second>>
        BY <1>3 DEF Chunks!Answers
    <2>7. Clean(w)'
        BY <2>3, <2>4, <2>5, <2>6 DEF Clean, Past, BackupOf
    <2> QED BY <2>2, <2>4, <2>6, <2>7, WipeMoves
<1> QED BY <1>1, <1>2, <1>3

LEMMA SkipsStep ==
    ASSUME WipeInv, NEW w \in Requests, NEW c \in Copies, Chunks!Skips(w, c) PROVE WipeInv'
<1>0. wipes[w] \in Wipe
    BY DEF WipeInv
<1>1. PICK new \in Wipe :
         new = [wipes[w] EXCEPT !.todo = @ \ {c}, !.loose = @ \cup {c}]
    BY <1>0 DEF Wipe
<1>2. wipes' = [wipes EXCEPT ![w] = new] /\ UNCHANGED <<disk, saved, backups, second>>
    <2>1. wipes' = [wipes EXCEPT ![w].todo = @ \ {c}, ![w].loose = @ \cup {c}]
        BY DEF Chunks!Skips
    <2> QED BY <1>0, <1>1, <2>1 DEF WipeInv, Chunks!Skips, Wipe
<1>3. wipes'[w] = new
    BY <1>2 DEF WipeInv
<1>4. /\ new.pc = "row" /\ new.errors = wipes[w].errors /\ new.listed = wipes[w].listed
      /\ new.todo = wipes[w].todo \ {c} /\ new.loose = wipes[w].loose \cup {c}
      /\ new.hand = wipes[w].hand /\ new.stamp = wipes[w].stamp /\ new.client = wipes[w].client
      /\ wipes[w].pc = "row"
    BY <1>0, <1>1 DEF Wipe, Chunks!Skips
<1>5. Works(w)' => Clean(w)'
    <2> SUFFICES ASSUME Works(w)' PROVE Clean(w)'
        OBVIOUS
    <2>1. Clean(w)
        <3>1. ~ wipes[w].errors
            BY <1>3, <1>4 DEF Works
        <3> QED BY <1>4, <3>1 DEF Works, WipeInv
    <2>2. Past(w)' \subseteq Past(w)
        BY <1>3, <1>4 DEF Past
    <2>3. ASSUME NEW d \in Past(w)'
          PROVE  /\ BackupOf(w, d) \in backups /\ BackupOf(w, d)' = BackupOf(w, d)
                 /\ d \notin disk /\ RemoteOf[d] \notin saved
        BY <1>3, <1>4, <2>1, <2>2 DEF Clean, BackupOf
    <2> QED BY <1>2, <1>3, <1>4, <2>1, <2>3 DEF Clean
<1> QED BY <1>2, <1>4, <1>5, WipeMoves

\* The file in hand leaves the panel's disk, and then the host.
LEMMA UnlinkStep ==
    ASSUME WipeInv, NEW w \in Requests, Chunks!Unlink(w) PROVE WipeInv'
<1>0. wipes[w] \in Wipe /\ wipes[w].pc = "unlink"
    BY DEF WipeInv, Chunks!Unlink
<1>1. PICK fails \in BOOLEAN :
         /\ disk' = IF fails THEN disk ELSE disk \ wipes[w].hand
         /\ wipes' = [wipes EXCEPT ![w].errors = @ \/ fails,
                                   ![w].pc = IF wipes[w].client THEN "remote" ELSE "row",
                                   ![w].hand = IF wipes[w].client THEN @ ELSE {}]
    BY DEF Chunks!Unlink
<1>2. UNCHANGED <<saved, backups, second>>
    BY DEF Chunks!Unlink
<1>3. PICK new \in Wipe :
         /\ wipes' = [wipes EXCEPT ![w] = new]
         /\ (~ new.errors => ~ wipes[w].errors /\ ~ fails)
         /\ new.pc = (IF wipes[w].client THEN "remote" ELSE "row")
         /\ new.hand = (IF wipes[w].client THEN wipes[w].hand ELSE {})
         /\ new.listed = wipes[w].listed /\ new.todo = wipes[w].todo
         /\ new.loose = wipes[w].loose /\ new.stamp = wipes[w].stamp
         /\ new.client = wipes[w].client
    <2>1. PICK err \in BOOLEAN : err = (wipes[w].errors \/ fails)
        OBVIOUS
    <2>2. PICK pc \in {"remote", "row"} : pc = IF wipes[w].client THEN "remote" ELSE "row"
        OBVIOUS
    <2>3. PICK hand \in SUBSET Copies : hand = IF wipes[w].client THEN wipes[w].hand ELSE {}
        BY <1>0 DEF Wipe
    <2>4. PICK new \in Wipe : new = [wipes[w] EXCEPT !.errors = err, !.pc = pc, !.hand = hand]
        BY <1>0 DEF Wipe
    <2>5. wipes' = [wipes EXCEPT ![w] = new]
        BY <1>0, <1>1, <2>1, <2>2, <2>3, <2>4 DEF WipeInv, Wipe
    <2>6. /\ new.errors = err /\ new.pc = pc /\ new.hand = hand
          /\ new.listed = wipes[w].listed /\ new.todo = wipes[w].todo
          /\ new.loose = wipes[w].loose /\ new.stamp = wipes[w].stamp
          /\ new.client = wipes[w].client
        BY <1>0, <2>4 DEF Wipe
    <2> QED BY <2>1, <2>2, <2>3, <2>5, <2>6
<1>4. wipes'[w] = new
    BY <1>3 DEF WipeInv
<1>5. Works(w)' => Clean(w)'
    <2> SUFFICES ASSUME Works(w)' PROVE Clean(w)'
        OBVIOUS
    <2>1. ~ wipes[w].errors /\ ~ fails
        BY <1>3, <1>4 DEF Works
    <2>2. Clean(w) /\ wipes[w].client
        BY <1>0, <2>1 DEF Works, WipeInv, Clean
    <2>3. new.pc = "remote" /\ new.hand = wipes[w].hand /\ disk' = disk \ wipes[w].hand
        BY <1>1, <1>3, <2>1, <2>2
    <2>4. Past(w)' = Past(w) /\ \A c : BackupOf(w, c)' = BackupOf(w, c)
        BY <1>3, <1>4 DEF Past, BackupOf
    <2>5. ASSUME NEW c \in Past(w)
          PROVE  /\ BackupOf(w, c) \in backups'
                 /\ c \notin disk'
                 /\ c \in new.hand \/ RemoteOf[c] \notin saved'
        BY <1>0, <1>2, <2>2, <2>3 DEF Clean
    <2> QED BY <1>3, <1>4, <2>2, <2>3, <2>4, <2>5 DEF Clean
<1>6. disk' \subseteq disk /\ new.pc # "ok"
    BY <1>1, <1>3
<1> QED BY <1>2, <1>3, <1>5, <1>6, WipeMoves

LEMMA DeleteStep ==
    ASSUME WipeInv, NEW w \in Requests, Chunks!Delete(w) PROVE WipeInv'
<1>0. wipes[w] \in Wipe /\ wipes[w].pc = "remote"
    BY DEF WipeInv, Chunks!Delete
<1> DEFINE there == {RemoteOf[c] : c \in wipes[w].hand} \cap saved
<1>1. PICK fails \in BOOLEAN :
         /\ saved' \in IF fails THEN {saved, saved \ there} ELSE {saved \ there}
         /\ wipes' = [wipes EXCEPT ![w].errors = wipes[w].errors \/ fails,
                                   ![w].pc = "row", ![w].hand = {}]
    BY DEF Chunks!Delete, Chunks!ErrorsWith
<1>2. UNCHANGED <<disk, backups, second>>
    BY DEF Chunks!Delete
<1>3. PICK new \in Wipe :
         /\ wipes' = [wipes EXCEPT ![w] = new]
         /\ (~ new.errors => ~ wipes[w].errors /\ ~ fails)
         /\ new.pc = "row" /\ new.hand = {}
         /\ new.listed = wipes[w].listed /\ new.todo = wipes[w].todo
         /\ new.loose = wipes[w].loose /\ new.stamp = wipes[w].stamp
         /\ new.client = wipes[w].client
    <2>1. PICK err \in BOOLEAN : err = (wipes[w].errors \/ fails)
        OBVIOUS
    <2>2. PICK new \in Wipe : new = [wipes[w] EXCEPT !.errors = err, !.pc = "row", !.hand = {}]
        BY <1>0 DEF Wipe
    <2>3. wipes' = [wipes EXCEPT ![w] = new]
        BY <1>0, <1>1, <2>1, <2>2 DEF WipeInv, Wipe
    <2>4. /\ new.errors = err /\ new.pc = "row" /\ new.hand = {}
          /\ new.listed = wipes[w].listed /\ new.todo = wipes[w].todo
          /\ new.loose = wipes[w].loose /\ new.stamp = wipes[w].stamp
          /\ new.client = wipes[w].client
        BY <1>0, <2>2 DEF Wipe
    <2> QED BY <2>1, <2>3, <2>4
<1>4. wipes'[w] = new
    BY <1>3 DEF WipeInv
<1>5. Works(w)' => Clean(w)'
    <2> SUFFICES ASSUME Works(w)' PROVE Clean(w)'
        OBVIOUS
    <2>1. ~ wipes[w].errors /\ ~ fails
        BY <1>3, <1>4 DEF Works
    <2>2. Clean(w) /\ saved' = saved \ there
        BY <1>0, <1>1, <2>1 DEF Works, WipeInv
    <2>3. Past(w)' = Past(w) /\ \A c : BackupOf(w, c)' = BackupOf(w, c)
        BY <1>3, <1>4 DEF Past, BackupOf
    <2>4. ASSUME NEW c \in Past(w)
          PROVE  /\ BackupOf(w, c) \in backups'
                 /\ c \notin disk'
                 /\ RemoteOf[c] \notin saved'
        BY <1>0, <1>2, <2>2 DEF Clean
    <2> QED BY <1>3, <1>4, <2>2, <2>3, <2>4 DEF Clean
<1>6. saved' \subseteq saved /\ new.pc # "ok"
    BY <1>1, <1>3
<1> QED BY <1>2, <1>3, <1>5, <1>6, WipeMoves

\* A request that answers for fewer files than before, and moves not.
LEMMA Loosening ==
    ASSUME WipeInv, NEW v \in Requests, NEW more \in SUBSET Copies,
           wipes'[v] = [wipes[v] EXCEPT !.loose = @ \cup more] \/ wipes'[v] = wipes[v],
           Works(v)',
           \A c \in Past(v)' : Clean(v) /\ c \in Past(v) =>
               /\ c \in disk' => c \in disk
               /\ RemoteOf[c] \in saved' => RemoteOf[c] \in saved
               /\ BackupOf(v, c) \in backups => BackupOf(v, c) \in backups'
    PROVE  Clean(v)'
<1>0. wipes[v] \in Wipe
    BY DEF WipeInv
<1>1. /\ wipes'[v].pc = wipes[v].pc /\ wipes'[v].listed = wipes[v].listed
      /\ wipes'[v].todo = wipes[v].todo /\ wipes'[v].hand = wipes[v].hand
      /\ wipes'[v].stamp = wipes[v].stamp /\ wipes'[v].client = wipes[v].client
      /\ wipes'[v].errors = wipes[v].errors /\ wipes[v].loose \subseteq wipes'[v].loose
    BY <1>0 DEF Wipe
<1>2. Clean(v)
    BY <1>1 DEF Works, WipeInv
<1>3. Past(v)' \subseteq Past(v) /\ \A c : BackupOf(v, c)' = BackupOf(v, c)
    BY <1>1 DEF Past, BackupOf
<1>4. ASSUME NEW c \in Past(v)'
      PROVE  /\ BackupOf(v, c) \in backups' \/ (wipes[v].pc = "copy" /\ c \in wipes[v].hand)
             /\ (wipes[v].pc \in {"copy", "unlink"} /\ c \in wipes[v].hand) \/ c \notin disk'
             /\ c \in wipes[v].hand \/ RemoteOf[c] \notin saved'
    BY <1>2, <1>3 DEF Clean
<1> QED BY <1>1, <1>2, <1>3, <1>4 DEF Clean

\* A copy is at some stage; whoever shares the folder loses the backups it is
\* written into.
LEMMA BacksUpStep ==
    ASSUME WipeInv, NEW w \in Requests, NEW c \in Copies, NEW whole \in BOOLEAN,
           NEW pc \in {"copy", "unlink", "failed"}, NEW lost \in SUBSET Copies,
           wipes[w].pc \in {"row", "copy"}, wipes[w].pc = "copy" => wipes[w].hand = {c},
           Chunks!BacksUp(w, c, whole, pc, lost),
           \A b \in Chunks!Replaced(wipes[w].stamp, c) : b.copy \in lost \/ (b.copy = c /\ whole),
           pc = "unlink" => whole \/ c \in wipes[w].loose
    PROVE  WipeInv'
<1> DEFINE old == Chunks!Replaced(wipes[w].stamp, c)
           all == Chunks!Loosened(lost, {wipes[w].stamp})
           more == (lost \ {c}) \cup IF Chunks!Shared(w, c) THEN {c} ELSE {}
<1>0. /\ wipes \in [Requests -> Wipe] /\ wipes[w] \in Wipe
      /\ \A v \in Requests : wipes[v] \in Wipe
    BY DEF WipeInv
<1>1. /\ backups' = (backups \ old) \cup {[stamp |-> wipes[w].stamp, copy |-> c, whole |-> whole]}
      /\ wipes' = [all EXCEPT ![w] = [wipes[w] EXCEPT !.todo = @ \ {c}, !.hand = {c}, !.pc = pc,
             !.loose = @ \cup (lost \ {c}) \cup IF Chunks!Shared(w, c) THEN {c} ELSE {}]]
      /\ UNCHANGED <<disk, saved, second>>
    BY DEF Chunks!BacksUp
<1>2. \A b \in old : /\ b \in backups /\ b.stamp = wipes[w].stamp
                     /\ b.copy \in lost \/ (b.copy = c /\ whole)
    BY DEF Chunks!Replaced
<1>3. more \in SUBSET Copies /\ lost \ {c} \subseteq more
    OBVIOUS
<1>4. all = [v \in Requests |-> IF wipes[v].stamp = wipes[w].stamp
                                THEN [wipes[v] EXCEPT !.loose = @ \cup lost] ELSE wipes[v]]
    BY DEF Chunks!Loosened
<1>6. wipes[w].loose \cup (lost \ {c}) \cup (IF Chunks!Shared(w, c) THEN {c} ELSE {})
          = wipes[w].loose \cup more
    OBVIOUS
<1> HIDE DEF old, all, more
<1>5. /\ all \in [Requests -> Wipe]
      /\ \A v \in Requests : all[v] = wipes[v] \/ all[v] = [wipes[v] EXCEPT !.loose = @ \cup lost]
      /\ \A v \in Requests : wipes[v].stamp = wipes[w].stamp => lost \subseteq all[v].loose
    <2>1. \A r \in Wipe : LET l == [r EXCEPT !.loose = @ \cup lost]
                          IN  l \in Wipe /\ lost \subseteq l.loose
        BY DEF Wipe
    <2> QED BY <1>0, <1>4, <2>1
<1>7. PICK new \in Wipe :
         /\ wipes' = [all EXCEPT ![w] = new]
         /\ new.pc = pc /\ new.hand = {c} /\ new.todo = wipes[w].todo \ {c}
         /\ new.listed = wipes[w].listed /\ new.loose = wipes[w].loose \cup more
         /\ new.stamp = wipes[w].stamp /\ new.client = wipes[w].client
         /\ new.errors = wipes[w].errors
    <2>1. PICK l \in SUBSET Copies : l = wipes[w].loose \cup more
        BY <1>0, <1>3 DEF Wipe
    <2>2. PICK new \in Wipe : new = [wipes[w] EXCEPT !.todo = @ \ {c}, !.hand = {c}, !.pc = pc,
                                         !.loose = l]
        BY <1>0 DEF Wipe
    <2>3. wipes' = [all EXCEPT ![w] = new]
        BY <1>0, <1>1, <1>6, <2>1, <2>2 DEF Wipe
    <2>4. /\ new.pc = pc /\ new.hand = {c} /\ new.todo = wipes[w].todo \ {c}
          /\ new.listed = wipes[w].listed /\ new.loose = l
          /\ new.stamp = wipes[w].stamp /\ new.client = wipes[w].client
          /\ new.errors = wipes[w].errors
        BY <1>0, <2>2 DEF Wipe
    <2> QED BY <2>1, <2>3, <2>4
<1>8. /\ wipes' \in [Requests -> Wipe] /\ wipes'[w] = new
      /\ \A v \in Requests \ {w} : wipes'[v] = all[v]
    BY <1>5, <1>7
<1>9. backups' \subseteq Chunks!Backup
    BY <1>0, <1>1 DEF WipeInv, Chunks!Backup, Wipe
<1>10. ASSUME NEW v \in Requests,
              wipes[v].stamp # wipes[w].stamp \/ lost \ {c} \subseteq wipes'[v].loose,
              NEW d, BackupOf(v, d) \in backups, d \notin wipes'[v].loose,
              wipes[v].stamp # wipes[w].stamp \/ d # c \/ lost \subseteq wipes'[v].loose
       PROVE  BackupOf(v, d) \in backups'
    <2>1. CASE BackupOf(v, d) \in old
        <3>1. wipes[v].stamp = wipes[w].stamp /\ (d \in lost \/ (d = c /\ whole))
            BY <1>2, <2>1 DEF BackupOf
        <3>2. d = c /\ whole = TRUE
            BY <1>10, <3>1
        <3>3. BackupOf(v, d) = [stamp |-> wipes[w].stamp, copy |-> c, whole |-> whole]
            BY <3>1, <3>2, Zenon DEF BackupOf
        <3>4. [stamp |-> wipes[w].stamp, copy |-> c, whole |-> whole] \in backups'
            BY <1>1, Zenon
        <3> QED BY <3>3, <3>4
    <2>2. CASE BackupOf(v, d) \notin old
        BY <1>1, <1>10, <2>2
    <2> QED BY <2>1, <2>2
<1>11. ASSUME NEW v \in Requests \ {w}, Works(v)'
       PROVE  Clean(v)'
    <2>1. wipes'[v] = wipes[v] \/ wipes'[v] = [wipes[v] EXCEPT !.loose = @ \cup lost]
        BY <1>5, <1>8
    <2>2. wipes[v].stamp # wipes[w].stamp \/ lost \subseteq wipes'[v].loose
        BY <1>5, <1>8
    <2>3. ASSUME NEW d \in Past(v)', BackupOf(v, d) \in backups
          PROVE  BackupOf(v, d) \in backups'
        <3>1. d \notin wipes'[v].loose
            BY DEF Past
        <3> QED BY <1>10, <2>2, <2>3, <3>1
    <2>4. \A d \in Past(v)' : Clean(v) /\ d \in Past(v) =>
             /\ d \in disk' => d \in disk
             /\ RemoteOf[d] \in saved' => RemoteOf[d] \in saved
             /\ BackupOf(v, d) \in backups => BackupOf(v, d) \in backups'
        BY <1>1, <2>3
    <2> QED BY <1>11, <2>1, <2>4, Loosening
<1>12. ASSUME Works(w)'
       PROVE  Clean(w)'
    <2>1. pc \in {"copy", "unlink"} /\ ~ wipes[w].errors
        BY <1>7, <1>8, <1>12 DEF Works
    <2>2. Clean(w)
        BY <2>1 DEF Works, WipeInv
    <2>3. \A d : BackupOf(w, d)' = BackupOf(w, d)
        BY <1>7, <1>8 DEF BackupOf
    <2>4. \A d \in wipes[w].hand : d = c
        BY <2>2 DEF Clean
    <2>5. ASSUME NEW d \in Past(w)'
          PROVE  /\ BackupOf(w, d) \in backups' \/ (pc = "copy" /\ d = c)
                 /\ d = c \/ (d \notin disk /\ RemoteOf[d] \notin saved)
        <3>1. d \in wipes[w].listed /\ d \notin wipes[w].todo \ {c} /\ d \notin new.loose
            BY <1>7, <1>8 DEF Past
        <3>2. CASE d = c
            <4>1. CASE pc = "copy"
                BY <3>2, <4>1
            <4>2. CASE pc = "unlink"
                <5>1. whole = TRUE
                    BY <1>7, <3>1, <3>2, <4>2
                <5>2. BackupOf(w, d) = [stamp |-> wipes[w].stamp, copy |-> c, whole |-> whole]
                    BY <3>2, <5>1, Zenon DEF BackupOf
                <5>3. [stamp |-> wipes[w].stamp, copy |-> c, whole |-> whole] \in backups'
                    BY <1>1, Zenon
                <5>4. BackupOf(w, d) \in backups'
                    BY <5>2, <5>3
                <5> QED BY <3>2, <5>4
            <4> QED BY <2>1, <4>1, <4>2
        <3>3. CASE d # c
            <4>1. d \in Past(w) /\ d \notin wipes[w].hand
                BY <1>7, <2>4, <3>1, <3>3 DEF Past
            <4>2. /\ BackupOf(w, d) \in backups
                  /\ d \notin disk /\ RemoteOf[d] \notin saved
                BY <2>2, <4>1 DEF Clean
            <4>3. lost \ {c} \subseteq wipes'[w].loose
                BY <1>3, <1>7, <1>8
            <4>4. BackupOf(w, d) \in backups'
                BY <1>8, <1>10, <3>1, <3>3, <4>2, <4>3
            <4> QED BY <4>2, <4>4
        <3> QED BY <3>2, <3>3
    <2>6. wipes'[w].pc = pc /\ wipes'[w].hand = {c} /\ wipes'[w].client = wipes[w].client
        BY <1>7, <1>8
    <2>7. wipes[w].client /\ UNCHANGED <<disk, saved>>
        BY <1>1, <2>2 DEF Clean
    <2>8. ASSUME NEW d \in Past(w)'
          PROVE  /\ BackupOf(w, d)' \in backups' \/ (wipes'[w].pc = "copy" /\ d \in wipes'[w].hand)
                 /\ (wipes'[w].pc \in {"copy", "unlink"} /\ d \in wipes'[w].hand) \/ d \notin disk'
                 /\ d \in wipes'[w].hand \/ RemoteOf[d] \notin saved'
        BY <2>1, <2>3, <2>5, <2>6, <2>7
    <2> QED BY <2>1, <2>6, <2>7, <2>8 DEF Clean
<1>13. ASSUME NEW v \in Requests, wipes'[v].pc = "ok"
       PROVE  ~ wipes'[v].errors
    <2>1. v # w
        BY <1>7, <1>8, <1>13
    <2>2. wipes'[v].pc = wipes[v].pc /\ wipes'[v].errors = wipes[v].errors
        BY <1>0, <1>5, <1>8, <2>1 DEF Wipe
    <2> QED BY <1>13, <2>2 DEF WipeInv
<1>14. \A v \in Requests : Works(v)' => Clean(v)'
    BY <1>11, <1>12
<1> QED BY <1>1, <1>8, <1>9, <1>13, <1>14 DEF WipeInv

\* The two ends of a copy.
LEMMA CopyStep ==
    ASSUME WipeInv, NEW w \in Requests, NEW c \in Copies,
           Chunks!CopyBegins(w, c) \/ Chunks!CopyEnds(w, c)
    PROVE  WipeInv'
<1> DEFINE was == Chunks!CopiesOf(Chunks!Replaced(wipes[w].stamp, c))
<1>1. was \in SUBSET Copies
    BY DEF Chunks!CopiesOf, Chunks!Replaced, WipeInv, Chunks!Backup
<1>2. \A b \in Chunks!Replaced(wipes[w].stamp, c) : b.copy \in was
    BY DEF Chunks!CopiesOf
<1>3. CASE Chunks!CopyBegins(w, c)
    <2>1. wipes[w].pc = "row" /\ Chunks!BacksUp(w, c, FALSE, "copy", was)
        BY <1>3 DEF Chunks!CopyBegins
    <2> HIDE DEF was
    <2> QED BY <1>1, <1>2, <2>1, BacksUpStep
<1>4. CASE Chunks!CopyEnds(w, c)
    <2> DEFINE lost == was \ ({c} \ wipes[w].loose)
    <2>1. /\ wipes[w].pc = "copy" /\ wipes[w].hand = {c}
          /\ \/ Chunks!BacksUp(w, c, TRUE, "unlink", lost)
             \/ c \in wipes[w].loose
                /\ \E pc \in {"unlink", "failed"} : Chunks!BacksUp(w, c, FALSE, pc, lost)
        BY <1>4 DEF Chunks!CopyEnds
    <2>2. /\ lost \in SUBSET Copies
          /\ \A b \in Chunks!Replaced(wipes[w].stamp, c) : b.copy \in lost \/ b.copy = c
          /\ c \in wipes[w].loose =>
                \A b \in Chunks!Replaced(wipes[w].stamp, c) : b.copy \in lost
        BY <1>1, <1>2
    <2> HIDE DEF was, lost
    <2>3. CASE Chunks!BacksUp(w, c, TRUE, "unlink", lost)
        BY <2>1, <2>2, <2>3, BacksUpStep
    <2>4. ASSUME c \in wipes[w].loose, NEW pc \in {"unlink", "failed"},
                 Chunks!BacksUp(w, c, FALSE, pc, lost)
          PROVE  WipeInv'
        BY <2>1, <2>2, <2>4, BacksUpStep
    <2> QED BY <2>1, <2>3, <2>4
<1> QED BY <1>3, <1>4

\* A file that comes back: no request under way answers for it any more.
LEMMA SaveStep ==
    ASSUME WipeInv, NEW some \in SUBSET Copies,
           wipes' = Chunks!Loosened(some, 1 .. MaxSecond),
           disk' \subseteq disk \cup some,
           \A c \in Copies : RemoteOf[c] \in saved' => RemoteOf[c] \in saved \/ c \in some,
           UNCHANGED <<backups, second>>
    PROVE  WipeInv'
<1>0. /\ wipes \in [Requests -> Wipe]
      /\ \A v \in Requests : wipes[v] \in Wipe
    BY DEF WipeInv
<1>1. wipes' = [v \in Requests |-> IF wipes[v].stamp \in 1 .. MaxSecond
                                  THEN [wipes[v] EXCEPT !.loose = @ \cup some] ELSE wipes[v]]
    BY DEF Chunks!Loosened
<1>2. \A v \in Requests : wipes'[v] = [wipes[v] EXCEPT !.loose = @ \cup some]
    BY <1>0, <1>1 DEF Wipe
<1>3. \A r \in Wipe : LET l == [r EXCEPT !.loose = @ \cup some]
                      IN  l \in Wipe /\ some \subseteq l.loose /\ l.pc = r.pc /\ l.errors = r.errors
                          /\ l.listed = r.listed
    BY DEF Wipe
<1>4. /\ wipes' \in [Requests -> Wipe]
      /\ \A v \in Requests : some \subseteq wipes'[v].loose /\ wipes'[v].pc = wipes[v].pc
            /\ wipes'[v].errors = wipes[v].errors /\ wipes'[v].listed \subseteq Copies
    <2>1. ASSUME NEW v \in Requests
          PROVE  /\ wipes'[v] \in Wipe
                 /\ some \subseteq wipes'[v].loose /\ wipes'[v].pc = wipes[v].pc
                 /\ wipes'[v].errors = wipes[v].errors /\ wipes'[v].listed = wipes[v].listed
        <3>1. PICK r \in Wipe : r = wipes[v]
            BY <1>0
        <3>2. wipes'[v] = [r EXCEPT !.loose = @ \cup some]
            BY <1>2, <3>1
        <3> QED BY <1>3, <3>1, <3>2
    <2>2. wipes' = [v \in Requests |-> wipes'[v]]
        BY <1>1
    <2>3. wipes' \in [Requests -> Wipe]
        BY <2>1, <2>2
    <2> QED BY <1>0, <2>1, <2>3 DEF Wipe
<1>5. ASSUME NEW v \in Requests, Works(v)'
      PROVE  Clean(v)'
    <2>1. \A c \in Past(v)' : c \in Copies /\ c \notin some
        BY <1>4 DEF Past
    <2>2. \A c \in Past(v)' : /\ c \in disk' => c \in disk
                              /\ RemoteOf[c] \in saved' => RemoteOf[c] \in saved
        BY <2>1
    <2> QED BY <1>2, <1>5, <2>2, Loosening
<1>6. disk' \subseteq Copies
    BY DEF WipeInv
<1> QED BY <1>4, <1>5, <1>6 DEF WipeInv

LEMMA WipeStep == WipeInv /\ [Chunks!ChunkNext]_chunkVars => WipeInv'
<1> SUFFICES ASSUME WipeInv, [Chunks!ChunkNext]_chunkVars PROVE WipeInv'
    OBVIOUS
<1>2. ASSUME NEW c \in Copies, Chunks!LocalSave(c)
      PROVE  WipeInv'
    BY <1>2, SaveStep DEF Chunks!LocalSave
<1>3. ASSUME NEW r \in Chunks!Remotes, Chunks!HostSave(r)
      PROVE  WipeInv'
    <2> PICK some \in SUBSET Copies : some = {c \in Copies : RemoteOf[c] = r}
        OBVIOUS
    <2>1. wipes' = Chunks!Loosened(some, 1 .. MaxSecond)
        BY <1>3 DEF Chunks!HostSave
    <2>2. saved' = saved \cup {r}
        BY <1>3 DEF Chunks!HostSave
    <2>3. UNCHANGED <<disk, backups, second>>
        BY <1>3 DEF Chunks!HostSave
    <2>4. \A c \in Copies : RemoteOf[c] \in saved' => RemoteOf[c] \in saved \/ c \in some
        BY <2>2
    <2>5. disk' \subseteq disk \cup some
        BY <2>3
    <2>6. UNCHANGED <<backups, second>>
        BY <2>3
    <2> HIDE <2>2, <2>3
    <2> QED BY <2>1, <2>4, <2>5, <2>6, SaveStep
<1>4. CASE Chunks!ChunkTick
    <2>1. second' \in 1 .. MaxSecond
        BY <1>4, PartsAssumption DEF Chunks!ChunkTick, WipeInv
    <2>2. UNCHANGED <<disk, saved, backups, wipes>>
        BY <1>4 DEF Chunks!ChunkTick
    <2> QED BY <2>1, <2>2 DEF WipeInv, Works, Clean, Past, BackupOf
<1>5. CASE UNCHANGED chunkVars
    BY <1>5 DEF chunkVars, WipeInv, Works, Clean, Past, BackupOf
<1> QED BY <1>2, <1>3, <1>4, <1>5, AskStep, ListsStep, EndsStep, SkipsStep, CopyStep, UnlinkStep,
           DeleteStep DEF Chunks!ChunkNext

(***************************************************************************)
(* What a wipe answered ok for is gone on both sides and kept in its       *)
(* folder, for any number of copies, names and wipes side by side          *)
(* (panel/wipe.py apply).                                                  *)
(***************************************************************************)
THEOREM WipedFilesAreGone == PartsSpec => []WipedIsGone
<1>1. WipeInv => WipedIsGone
    <2> SUFFICES ASSUME WipeInv, NEW w \in Requests, wipes[w].pc = "ok",
                        NEW c \in wipes[w].listed \ wipes[w].loose
                 PROVE  c \notin disk /\ RemoteOf[c] \notin saved /\ BackupOf(w, c) \in backups
        BY DEF WipedIsGone, Chunks!WipedIsGone, BackupOf
    <2>1. Clean(w)
        BY DEF WipeInv, Works
    <2>2. c \in Past(w) /\ wipes[w].hand = {}
        BY <2>1 DEF Clean, Past
    <2> QED BY <2>1, <2>2 DEF Clean
<1> QED BY <1>1, ChunksOnly, WipeInitially, WipeStep, PTL DEF PartsSpec
-----------------------------------------------------------------------------
(***************************************************************************)
(* The jobs in threads.  What a thread has left behind so far is what its  *)
(* place and its list of items say, and no second thread of its kind is    *)
(* beside it, but for provisioning, whose threads only add to the machine. *)
(***************************************************************************)
Kinds == {"install", "download", "provision"}
Member == [kind : Kinds, todo : SUBSET Items, errors : BOOLEAN,
           at : {"fetch", "extract", "update", "dirs", "resolve", "item", "end",
                 "begin", "connect", "docker", "files", "up", "health"}]

\* An item of a batch has a folder, and its mods' names lead to items of the batch.
Kept(i, batch, folder, link) ==
    /\ folder[i] # "none"
    /\ folder[i] = "mods" =>
          \A f \in ModsOf[i] :
             link[f] \in batch /\ f \in ModsOf[link[f]] /\ folder[link[f]] = "mods"

\* A thread, for any flags, phases, items asked for, folders, links and machine.
Fine(e, raised, ph, ask, folder, link, box) ==
    /\ e.kind # "provision" =>
          raised[e.kind] /\ (ph[e.kind] # "done" \/ (e.kind = "download" /\ e.at = "end"))
    /\ e.kind = "download" =>
          /\ e.todo \subseteq ask
          /\ e.at = "end" => e.todo = {}
          /\ e.errors \/ \A i \in ask \ e.todo : Kept(i, ask \ e.todo, folder, link)
    /\ e.kind = "provision" =>
          /\ e.at \in {"files", "up", "health"} => box.docker
          /\ e.at \in {"up", "health"} => box.files

Sole(c) ==
    \A n, m \in DOMAIN c : c[n].kind = c[m].kind /\ c[n].kind # "provision" => n = m

JobSorts ==
    /\ flag \in [Kinds -> BOOLEAN]
    /\ phase \in [Kinds -> {"idle", "starting", "done", "error"}]
    /\ asked \subseteq Items
    /\ content \in [Items -> {"none", "bare", "mods"}]
    /\ vps \in [docker : BOOLEAN, bound : BOOLEAN, files : BOOLEAN]

JobsInv ==
    /\ JobSorts /\ DoneIsDone
    /\ crew \in Seq(Member) /\ Sole(crew)
    /\ \A n \in DOMAIN crew : Fine(crew[n], flag, phase, asked, content, mods, vps)

LEMMA JobsOnly == [PartsNext]_<<part, vars, schedVars, monVars, deployVars, jobVars, upVars,
                       localVars, busVars, accessVars, chunkVars, slotVars>>
                   => [Jobs!JobsNext]_jobVars
BY DEF PartsNext

LEMMA JobsInitially == PartsInit => JobsInv
BY DEF PartsInit, Jobs!JobsInit, Jobs!Kinds, JobsInv, JobSorts, Kinds, DoneIsDone,
       Jobs!DoneIsDone, Sole

LEMMA CrewTyped ==
    ASSUME crew \in Seq(Member)
    PROVE  /\ Len(crew) \in Nat /\ DOMAIN crew = 1 .. Len(crew)
           /\ \A n \in DOMAIN crew : crew[n] \in Member
BY LenProperties, ElementOfSeq

\* What thread n leaves alone.
Frame(n) ==
    /\ \A k \in Kinds \ {crew[n].kind} : flag'[k] = flag[k] /\ phase'[k] = phase[k]
    /\ crew[n].kind # "install" => steamcmd' = steamcmd
    /\ crew[n].kind # "download" => asked' = asked /\ content' = content /\ mods' = mods
    /\ vps.docker => vps'.docker
    /\ vps.files => vps'.files
    /\ vps.bound => vps'.bound

\* A result of its own is one it may give.
OwnDone(n) ==
    /\ crew[n].kind = "install" /\ phase'["install"] = "done" => steamcmd' = "ready"
    /\ crew[n].kind = "download" /\ phase'["download"] = "done" /\ ~ flag'["download"] =>
          \A i \in asked' : Kept(i, asked', content', mods')
    /\ crew[n].kind = "provision" /\ phase'["provision"] = "done" =>
          phase["provision"] = "done" \/ (vps'.docker /\ vps'.files /\ vps'.bound)

LEMMA DoneMeans ==
    DoneIsDone <=>
        /\ phase["install"] = "done" => steamcmd = "ready"
        /\ phase["download"] = "done" /\ ~ flag["download"] =>
              \A i \in asked : Kept(i, asked, content, mods)
        /\ phase["provision"] = "done" => vps.docker /\ vps.files /\ vps.bound
BY DEF DoneIsDone, Jobs!DoneIsDone, Jobs!Leads, Kept

LEMMA DoneStays ==
    ASSUME JobsInv, NEW n \in DOMAIN crew, Frame(n), OwnDone(n)
    PROVE  DoneIsDone'
<1>1. crew[n].kind \in Kinds
    BY CrewTyped DEF JobsInv, Member
<1>2. phase'["install"] = "done" => steamcmd' = "ready"
    BY <1>1, DoneMeans DEF JobsInv, Frame, OwnDone, Kinds
<1>3. phase'["download"] = "done" /\ ~ flag'["download"] =>
         \A i \in asked' : Kept(i, asked', content', mods')
    BY <1>1, DoneMeans DEF JobsInv, Frame, OwnDone, Kinds
<1>4. phase'["provision"] = "done" => vps'.docker /\ vps'.files /\ vps'.bound
    BY <1>1, DoneMeans DEF JobsInv, Frame, OwnDone, Kinds
<1> QED BY <1>2, <1>3, <1>4 DEF DoneIsDone, Jobs!DoneIsDone, Jobs!Leads, Kept

LEMMA OthersFine ==
    ASSUME JobsInv, NEW n \in DOMAIN crew, Frame(n), NEW m \in DOMAIN crew, m # n
    PROVE  Fine(crew[m], flag', phase', asked', content', mods', vps')
<1>1. crew[m].kind \in Kinds /\ Fine(crew[m], flag, phase, asked, content, mods, vps)
    BY CrewTyped DEF JobsInv, Member
<1>2. crew[m].kind = "provision" \/ crew[m].kind # crew[n].kind
    BY DEF JobsInv, Sole
<1>3. CASE crew[m].kind = "provision"
    BY <1>1, <1>3 DEF Fine, Frame
<1>4. CASE crew[m].kind # "provision" /\ crew[m].kind # crew[n].kind
    <2>1. flag'[crew[m].kind] = flag[crew[m].kind] /\ phase'[crew[m].kind] = phase[crew[m].kind]
        BY <1>1, <1>4 DEF Frame
    <2>2. crew[m].kind = "download" => asked' = asked /\ content' = content /\ mods' = mods
        BY <1>4 DEF Frame
    <2> QED BY <1>1, <1>4, <2>1, <2>2 DEF Fine
<1> QED BY <1>2, <1>3, <1>4

LEMMA ThreadEnds ==
    ASSUME JobsInv, NEW n \in DOMAIN crew, JobSorts', Frame(n), OwnDone(n),
           crew' = Jobs!RemoveAt(crew, n)
    PROVE  JobsInv'
<1> DEFINE t == SubSeq(crew, 1, n - 1) \o SubSeq(crew, n + 1, Len(crew))
<1>1. crew \in Seq(Member) /\ Len(crew) \in Nat /\ DOMAIN crew = 1 .. Len(crew)
    BY CrewTyped DEF JobsInv
<1>2. crew' = t
    BY DEF Jobs!RemoveAt
<1>3. /\ t \in Seq(Member) /\ Len(t) = Len(crew) - 1
      /\ \A k \in 1 .. Len(t) : t[k] = crew[IF k < n THEN k ELSE k + 1]
    BY <1>1, Removed
<1> HIDE DEF t
<1>4. DOMAIN t = 1 .. Len(crew) - 1
    BY <1>3, LenProperties
<1>5. ASSUME NEW k \in DOMAIN t
      PROVE  \E m \in DOMAIN crew \ {n} : m = (IF k < n THEN k ELSE k + 1) /\ t[k] = crew[m]
    BY <1>1, <1>3, <1>4
<1>6. \A k \in DOMAIN t : Fine(t[k], flag', phase', asked', content', mods', vps')
    BY <1>5, OthersFine
<1>7. Sole(t)
    <2> SUFFICES ASSUME NEW k \in DOMAIN t, NEW l \in DOMAIN t, t[k].kind = t[l].kind,
                        t[k].kind # "provision"
                 PROVE  k = l
        BY DEF Sole
    <2>1. (IF k < n THEN k ELSE k + 1) = (IF l < n THEN l ELSE l + 1)
        BY <1>5 DEF JobsInv, Sole
    <2> QED BY <1>1, <1>4, <2>1
<1> QED BY <1>2, <1>3, <1>6, <1>7, DoneStays DEF JobsInv

LEMMA ThreadGoesOn ==
    ASSUME JobsInv, NEW n \in DOMAIN crew, JobSorts', Frame(n), OwnDone(n), NEW e \in Member,
           crew' = [crew EXCEPT ![n] = e], e.kind = crew[n].kind,
           Fine(e, flag', phase', asked', content', mods', vps')
    PROVE  JobsInv'
<1>1. crew \in Seq(Member)
    BY DEF JobsInv
<1>2. crew' \in Seq(Member) /\ DOMAIN crew' = DOMAIN crew
      /\ \A m \in DOMAIN crew : crew'[m] = IF m = n THEN e ELSE crew[m]
    BY <1>1, CrewTyped, ExceptSeq
<1>3. \A m \in DOMAIN crew' : Fine(crew'[m], flag', phase', asked', content', mods', vps')
    BY <1>2, OthersFine
<1>4. Sole(crew')
    BY <1>2 DEF JobsInv, Sole
<1> QED BY <1>2, <1>3, <1>4, DoneStays DEF JobsInv

\* A new thread: of its kind, there was none whose flag was up.
LEMMA ThreadStarts ==
    ASSUME JobsInv, JobSorts', NEW e \in Member, crew' = Append(crew, e),
           e.kind # "provision" => ~ flag[e.kind],
           \A k \in Kinds : (k = e.kind /\ phase'[k] # "done")
                                \/ (flag'[k] = flag[k] /\ phase'[k] = phase[k]),
           e.kind # "download" => asked' = asked,
           steamcmd' = steamcmd, content' = content, mods' = mods, vps' = vps,
           Fine(e, flag', phase', asked', content', mods', vps')
    PROVE  JobsInv'
<1>1. /\ crew \in Seq(Member) /\ \A n \in DOMAIN crew : crew[n] \in Member
    BY CrewTyped DEF JobsInv
<1>2. /\ crew' \in Seq(Member) /\ DOMAIN crew' = 1 .. Len(crew) + 1 /\ Len(crew) \in Nat
      /\ DOMAIN crew = 1 .. Len(crew) /\ \A n \in DOMAIN crew : crew'[n] = crew[n]
      /\ crew'[Len(crew) + 1] = e
    BY <1>1, Appended
<1>3. ASSUME NEW n \in DOMAIN crew
      PROVE  /\ Fine(crew[n], flag', phase', asked', content', mods', vps')
             /\ crew[n].kind = e.kind => e.kind = "provision"
    <2>1. crew[n].kind \in Kinds /\ Fine(crew[n], flag, phase, asked, content, mods, vps)
        BY <1>1 DEF JobsInv, Member, Kinds
    <2>2. crew[n].kind = e.kind => e.kind = "provision"
        BY <2>1 DEF Fine
    <2> QED BY <2>1, <2>2 DEF Fine
<1>4. \A n \in DOMAIN crew' : Fine(crew'[n], flag', phase', asked', content', mods', vps')
    BY <1>2, <1>3
<1>5. Sole(crew')
    <2> SUFFICES ASSUME NEW n \in DOMAIN crew', NEW m \in DOMAIN crew',
                        crew'[n].kind = crew'[m].kind, crew'[n].kind # "provision"
                 PROVE  n = m
        BY DEF Sole
    <2>1. CASE n \in DOMAIN crew /\ m \in DOMAIN crew
        BY <1>2, <2>1 DEF JobsInv, Sole
    <2>2. CASE n \notin DOMAIN crew /\ m \notin DOMAIN crew
        BY <1>2, <2>2
    <2>3. CASE n \in DOMAIN crew /\ m = Len(crew) + 1
        BY <1>2, <1>3, <2>3
    <2>4. CASE m \in DOMAIN crew /\ n = Len(crew) + 1
        BY <1>2, <1>3, <2>4
    <2> QED BY <1>2, <2>1, <2>2, <2>3, <2>4
<1>6. DoneIsDone'
    <2>1. \A k \in Kinds : phase'[k] = "done" => phase[k] = "done"
        OBVIOUS
    <2>2. phase'["download"] = "done" /\ ~ flag'["download"] =>
             asked' = asked /\ ~ flag["download"]
        BY DEF Fine, Kinds
    <2>3. DoneIsDone
        BY DEF JobsInv
    <2>4. /\ phase'["install"] = "done" => phase["install"] = "done"
          /\ phase'["download"] = "done" => phase["download"] = "done"
          /\ phase'["provision"] = "done" => phase["provision"] = "done"
        BY <2>1 DEF Kinds
    <2>5. /\ phase'["install"] = "done" => steamcmd' = "ready"
          /\ phase'["download"] = "done" /\ ~ flag'["download"] =>
                \A i \in asked' : Kept(i, asked', content', mods')
          /\ phase'["provision"] = "done" => vps'.docker /\ vps'.files /\ vps'.bound
        BY <2>2, <2>3, <2>4, DoneMeans
    <2> QED BY <2>5 DEF DoneIsDone, Jobs!DoneIsDone, Jobs!Leads, Kept
<1> QED BY <1>2, <1>4, <1>5, <1>6 DEF JobsInv

LEMMA StartsStep ==
    ASSUME JobsInv,
           \/ Jobs!StartInstall \/ Jobs!StartProvision
           \/ \E ids \in SUBSET Items, missingOnly \in BOOLEAN :
                  Jobs!StartDownload(ids, missingOnly)
    PROVE  JobsInv'
<1>0. JobSorts
    BY DEF JobsInv
<1>1. CASE Jobs!StartInstall
    <2> DEFINE e == [kind |-> "install", at |-> "fetch", todo |-> {}, errors |-> FALSE]
    <2>1. e.kind = "install"
        OBVIOUS
    <2>2. e \in Member
        BY DEF Member, Kinds
    <2>3. crew' = Append(crew, e)
        BY <1>1 DEF Jobs!StartInstall, Jobs!Starts
    <2>4. UNCHANGED <<asked, steamcmd, content, mods, vps>> /\ ~ flag["install"]
        BY <1>1 DEF Jobs!StartInstall
    <2>5. /\ crew' = Append(crew, e) /\ ~ flag["install"] /\ vps' = vps
          /\ asked' = asked /\ steamcmd' = steamcmd /\ content' = content /\ mods' = mods
        BY <2>3, <2>4
    <2>6. /\ flag' = [flag EXCEPT !["install"] = TRUE]
          /\ phase' = [phase EXCEPT !["install"] = "starting"]
        BY <1>1 DEF Jobs!StartInstall, Jobs!Raised
    <2>7. JobSorts' /\ flag'["install"] /\ phase'["install"] = "starting"
        BY <1>0, <2>5, <2>6 DEF JobSorts, Kinds
    <2> HIDE DEF e
    <2>8. Fine(e, flag', phase', asked', content', mods', vps')
        BY <2>1, <2>7 DEF Fine
    <2>9. \A k \in Kinds : (k = e.kind /\ phase'[k] # "done")
                                \/ (flag'[k] = flag[k] /\ phase'[k] = phase[k])
        BY <1>0, <2>1, <2>6, <2>7 DEF JobSorts
    <2> QED BY <2>1, <2>5, <2>7, <2>8, <2>9, <2>2, ThreadStarts
<1>2. CASE Jobs!StartProvision
    <2> DEFINE e == [kind |-> "provision", at |-> "begin", todo |-> {}, errors |-> FALSE]
    <2>1. e.kind = "provision" /\ e.at = "begin"
        OBVIOUS
    <2>2. e \in Member
        BY DEF Member, Kinds
    <2>3. crew' = Append(crew, e)
        BY <1>2 DEF Jobs!StartProvision, Jobs!Starts
    <2>4. UNCHANGED <<flag, phase, asked, steamcmd, content, mods, vps>>
        BY <1>2 DEF Jobs!StartProvision
    <2>5. /\ crew' = Append(crew, e) /\ vps' = vps /\ flag' = flag /\ phase' = phase
          /\ asked' = asked /\ steamcmd' = steamcmd /\ content' = content /\ mods' = mods
        BY <2>3, <2>4
    <2>6. JobSorts'
        BY <1>0, <2>5 DEF JobSorts
    <2> HIDE DEF e
    <2>7. Fine(e, flag', phase', asked', content', mods', vps')
        BY <2>1 DEF Fine
    <2> QED BY <2>1, <2>5, <2>6, <2>7, <2>2, ThreadStarts
<1>3. ASSUME NEW ids \in SUBSET Items, NEW missingOnly \in BOOLEAN,
             Jobs!StartDownload(ids, missingOnly)
      PROVE  JobsInv'
    <2>1. PICK todo \in SUBSET Items :
              todo = (IF missingOnly THEN Jobs!Missing(ids) ELSE ids)
        BY DEF Jobs!Missing
    <2> DEFINE e == [kind |-> "download", at |-> "dirs", todo |-> todo, errors |-> FALSE]
    <2>2. e.kind = "download" /\ e.todo = todo /\ e.at = "dirs"
        OBVIOUS
    <2>3. e \in Member
        BY DEF Member, Kinds
    <2>4. crew' = Append(crew, e) /\ asked' = todo
        BY <1>3, <2>1 DEF Jobs!StartDownload, Jobs!Starts
    <2>5. UNCHANGED <<steamcmd, content, mods, vps>> /\ ~ flag["download"]
        BY <1>3 DEF Jobs!StartDownload
    <2>6. /\ crew' = Append(crew, e) /\ ~ flag["download"] /\ vps' = vps
          /\ asked' = todo /\ steamcmd' = steamcmd /\ content' = content /\ mods' = mods
        BY <2>4, <2>5
    <2>7. /\ flag' = [flag EXCEPT !["download"] = TRUE]
          /\ phase' = [phase EXCEPT !["download"] = "starting"]
        BY <1>3 DEF Jobs!StartDownload, Jobs!Raised
    <2>8. JobSorts' /\ flag'["download"] /\ phase'["download"] = "starting"
        BY <1>0, <2>6, <2>7 DEF JobSorts, Kinds
    <2> HIDE DEF e
    <2>9. Fine(e, flag', phase', asked', content', mods', vps')
        <3>1. asked' \ e.todo = {}
            BY <2>2, <2>6
        <3> QED BY <2>2, <2>6, <2>8, <3>1 DEF Fine
    <2>10. \A k \in Kinds : (k = e.kind /\ phase'[k] # "done")
                                \/ (flag'[k] = flag[k] /\ phase'[k] = phase[k])
        BY <1>0, <2>2, <2>7, <2>8 DEF JobSorts
    <2> QED BY <2>2, <2>6, <2>8, <2>9, <2>10, <2>3, ThreadStarts
<1> QED BY <1>1, <1>2, <1>3

\* A thread that goes on to its next place, or ends with its result.
LEMMA PlaceStep ==
    ASSUME JobsInv, NEW n \in DOMAIN crew, NEW next, Jobs!Goes(n, next), JobSorts', Frame(n),
           [crew[n] EXCEPT !.at = next] \in Member,
           crew[n].kind = "download" =>
               /\ asked' = asked /\ content' = content /\ mods' = mods
               /\ crew[n].at # "end" /\ next # "end",
           crew[n].kind = "provision" =>
               /\ next \in {"files", "up", "health"} => vps'.docker
               /\ next \in {"up", "health"} => vps'.files
    PROVE  JobsInv'
<1> DEFINE e == [crew[n] EXCEPT !.at = next]
<1>1. crew[n] \in Member /\ Fine(crew[n], flag, phase, asked, content, mods, vps)
    BY CrewTyped DEF JobsInv
<1>2. crew' = [crew EXCEPT ![n] = e] /\ flag' = flag /\ phase' = phase
    BY DEF Jobs!Goes
<1>3. e.kind = crew[n].kind /\ e.todo = crew[n].todo /\ e.errors = crew[n].errors /\ e.at = next
    BY <1>1 DEF Member
<1>4. e \in Member
    OBVIOUS
<1> HIDE DEF e
<1>5. Fine(e, flag', phase', asked', content', mods', vps')
    BY <1>1, <1>2, <1>3 DEF Fine
<1>6. OwnDone(n)
    BY <1>1, <1>2 DEF OwnDone, Fine
<1> QED BY <1>2, <1>3, <1>4, <1>5, <1>6, ThreadGoesOn

LEMMA ResultStep ==
    ASSUME JobsInv, NEW n \in DOMAIN crew, NEW result \in {"done", "error"},
           Jobs!Ends(n, result),
           asked' = asked, content' \in [Items -> {"none", "bare", "mods"}],
           vps' \in [docker : BOOLEAN, bound : BOOLEAN, files : BOOLEAN],
           vps.docker => vps'.docker, vps.files => vps'.files, vps.bound => vps'.bound,
           crew[n].kind # "download" => content' = content /\ mods' = mods,
           crew[n].kind # "install" => steamcmd' = steamcmd,
           result = "done" =>
               /\ crew[n].kind = "install" => steamcmd' = "ready"
               /\ crew[n].kind = "download" =>
                      \A i \in asked : Kept(i, asked, content', mods')
               /\ crew[n].kind = "provision" => vps'.docker /\ vps'.files /\ vps'.bound
    PROVE  JobsInv'
<1>1. /\ crew' = Jobs!RemoveAt(crew, n) /\ flag' = [flag EXCEPT ![crew[n].kind] = FALSE]
      /\ phase' = [phase EXCEPT ![crew[n].kind] = result]
    BY DEF Jobs!Ends
<1>2. JobSorts /\ crew[n].kind \in Kinds
    BY CrewTyped DEF JobsInv, Member, Kinds
<1>3. JobSorts'
    BY <1>1, <1>2 DEF JobSorts
<1>4. Frame(n)
    BY <1>1, <1>2 DEF Frame, JobSorts
<1>5. phase'[crew[n].kind] = result
    BY <1>1, <1>2 DEF JobSorts
<1>6. OwnDone(n)
    BY <1>5 DEF OwnDone
<1> QED BY <1>1, <1>3, <1>4, <1>6, ThreadEnds

LEMMA InstallStep ==
    ASSUME JobsInv, NEW n \in DOMAIN crew,
           Jobs!Fetch(n) \/ Jobs!Extract(n) \/ Jobs!SelfUpdate(n)
    PROVE  JobsInv'
<1>1. crew[n] \in Member /\ JobSorts
    BY CrewTyped DEF JobsInv
<1>2. crew[n].kind = "install" /\ UNCHANGED <<asked, content, mods, vps>>
    BY DEF Jobs!Fetch, Jobs!Extract, Jobs!SelfUpdate, Jobs!At
<1>3. /\ [crew[n] EXCEPT !.at = "extract"] \in Member
      /\ [crew[n] EXCEPT !.at = "update"] \in Member
    BY <1>1 DEF Member
<1>4. content' \in [Items -> {"none", "bare", "mods"}]
      /\ vps' \in [docker : BOOLEAN, bound : BOOLEAN, files : BOOLEAN]
    BY <1>1, <1>2 DEF JobSorts
<1>5. ASSUME NEW next \in {"extract", "update"}, Jobs!Goes(n, next)
      PROVE  JobsInv'
    <2>1. UNCHANGED <<flag, phase>>
        BY <1>5 DEF Jobs!Goes
    <2>2. JobSorts'
        BY <1>1, <1>2, <2>1 DEF JobSorts
    <2>3. Frame(n)
        BY <1>2, <2>1 DEF Frame
    <2> QED BY <1>2, <1>3, <1>5, <2>2, <2>3, PlaceStep
<1>6. ASSUME Jobs!Ends(n, "error")
      PROVE  JobsInv'
    BY <1>2, <1>4, <1>6, ResultStep
<1>7. ASSUME Jobs!Ends(n, "done"), steamcmd' = "ready"
      PROVE  JobsInv'
    BY <1>2, <1>4, <1>7, ResultStep
<1>8. \/ Jobs!Goes(n, "extract") \/ Jobs!Goes(n, "update") \/ Jobs!Ends(n, "error")
      \/ Jobs!Ends(n, "done") /\ steamcmd' = "ready"
    BY DEF Jobs!Fetch, Jobs!Extract, Jobs!SelfUpdate
<1> QED BY <1>5, <1>6, <1>7, <1>8

\* A disk that refuses ends the thread, and nothing else changes.
LEMMA VanishesStep ==
    ASSUME JobsInv, NEW n \in DOMAIN crew, crew[n].kind = "download",
           crew' = Jobs!RemoveAt(crew, n),
           UNCHANGED <<flag, phase, asked, steamcmd, content, mods, vps>>
    PROVE  JobsInv'
<1>1. Fine(crew[n], flag, phase, asked, content, mods, vps) /\ JobSorts
    BY DEF JobsInv
<1>2. JobSorts'
    BY <1>1 DEF JobSorts
<1>3. Frame(n)
    BY DEF Frame
<1>4. OwnDone(n)
    BY <1>1 DEF OwnDone, Fine
<1> QED BY <1>2, <1>3, <1>4, ThreadEnds

LEMMA DownloadStep ==
    ASSUME JobsInv, NEW n \in DOMAIN crew, NEW i \in Items, NEW code \in BOOLEAN,
           NEW folder \in {"none", "bare", "mods"}, Jobs!Download(n, i, code, folder)
    PROVE  JobsInv'
<1>1. /\ crew[n] \in Member /\ JobSorts
      /\ Fine(crew[n], flag, phase, asked, content, mods, vps)
    BY CrewTyped DEF JobsInv
<1>2. PICK bad \in BOOLEAN : bad = (crew[n].errors \/ ~ Jobs!RowOk(code, folder))
    BY <1>1 DEF Member
<1> DEFINE e == [crew[n] EXCEPT !.todo = @ \ {i}, !.errors = bad]
<1>3. crew' = [crew EXCEPT ![n].todo = @ \ {i}, ![n].errors = @ \/ ~ Jobs!RowOk(code, folder)]
    BY DEF Jobs!Download
<1>4. crew' = [crew EXCEPT ![n] = e]
    BY <1>2, <1>3
<1>5. /\ e \in Member /\ e.kind = crew[n].kind /\ e.todo = crew[n].todo \ {i} /\ e.errors = bad
      /\ e.at = crew[n].at
    BY <1>1 DEF Member
<1> HIDE DEF e
<1>6. /\ crew[n].kind = "download"
      /\ content' = [content EXCEPT ![i] = folder]
      /\ mods' = IF code /\ folder = "mods" THEN Jobs!Linked(ModsOf[i], i) ELSE mods
      /\ crew[n].at = "item" /\ i \in crew[n].todo
    BY <1>1 DEF Jobs!Download, Jobs!At
<1>7. UNCHANGED <<flag, phase, asked, steamcmd, vps>>
    BY DEF Jobs!Download
<1>8. JobSorts'
    BY <1>1, <1>6, <1>7 DEF JobSorts
<1>9. Frame(n)
    BY <1>6, <1>7 DEF Frame
<1>10. OwnDone(n)
    BY <1>1, <1>6, <1>7 DEF OwnDone, Fine
<1>11. ASSUME ~ e.errors
       PROVE  \A j \in asked \ e.todo : Kept(j, asked \ e.todo, content', mods')
    <2>1. /\ ~ crew[n].errors /\ code /\ folder # "none"
          /\ content \in [Items -> {"none", "bare", "mods"}] /\ asked \subseteq Items
          /\ crew[n].todo \subseteq asked
          /\ \A j \in asked \ crew[n].todo : Kept(j, asked \ crew[n].todo, content, mods)
        BY <1>1, <1>2, <1>5, <1>6, <1>11 DEF Jobs!RowOk, JobSorts, Fine
    <2>2. PICK old \in SUBSET asked : old = asked \ crew[n].todo
        BY <2>1
    <2>3. PICK new \in SUBSET asked : new = old \cup {i}
        BY <1>6, <2>1, <2>2
    <2>4. asked \ e.todo = new /\ i \notin old /\ i \in Items
        BY <1>5, <1>6, <2>1, <2>2, <2>3
    <2>5. /\ content'[i] = folder
          /\ \A j \in old : content'[j] = content[j]
        BY <1>6, <2>1, <2>4
    <2>6. \A k \in Items : \A f \in ModsOf[k] :
             mods'[f] = IF folder = "mods" /\ f \in ModsOf[i] THEN i ELSE mods[f]
        <3>1. \A k \in Items : \A f \in ModsOf[k] : f \in Jobs!Names
            BY DEF Jobs!Names
        <3> QED BY <1>6, <2>1, <3>1 DEF Jobs!Linked
    <2>7. ASSUME NEW j \in old
          PROVE  Kept(j, new, content', mods')
        <3>1. Kept(j, old, content, mods) /\ j \in Items
            BY <2>1, <2>2
        <3>2. ASSUME content'[j] = "mods", NEW f \in ModsOf[j]
              PROVE  mods'[f] \in new /\ f \in ModsOf[mods'[f]] /\ content'[mods'[f]] = "mods"
            <4>1. mods[f] \in old /\ f \in ModsOf[mods[f]] /\ content[mods[f]] = "mods"
                BY <2>5, <3>1, <3>2 DEF Kept
            <4> QED BY <2>3, <2>5, <2>6, <3>1, <4>1
        <3> QED BY <2>5, <3>1, <3>2 DEF Kept
    <2>8. Kept(i, new, content', mods')
        BY <2>1, <2>3, <2>4, <2>5, <2>6 DEF Kept
    <2> QED BY <2>2, <2>3, <2>4, <2>7, <2>8
<1>12. Fine(e, flag', phase', asked', content', mods', vps')
    <2>1. e.todo \subseteq asked /\ e.at # "end" /\ flag["download"] /\ phase["download"] # "done"
        BY <1>1, <1>5, <1>6 DEF Fine
    <2> QED BY <1>5, <1>6, <1>7, <1>11, <2>1 DEF Fine
<1> QED BY <1>4, <1>5, <1>8, <1>9, <1>10, <1>12, ThreadGoesOn

LEMMA BatchDoneStep ==
    ASSUME JobsInv, NEW n \in DOMAIN crew, Jobs!BatchDone(n)
    PROVE  JobsInv'
<1> DEFINE e == [crew[n] EXCEPT !.at = "end"]
<1>1. /\ crew[n] \in Member /\ JobSorts
      /\ Fine(crew[n], flag, phase, asked, content, mods, vps)
    BY CrewTyped DEF JobsInv
<1>2. /\ crew[n].kind = "download" /\ crew[n].at = "item" /\ crew[n].todo = {}
      /\ crew' = [crew EXCEPT ![n] = e]
      /\ phase' = [phase EXCEPT !["download"] = "done"]
      /\ UNCHANGED <<flag, asked, steamcmd, content, mods, vps>>
    BY DEF Jobs!BatchDone, Jobs!At
<1>3. /\ e \in Member /\ e.kind = "download" /\ e.at = "end"
      /\ e.todo = crew[n].todo /\ e.errors = crew[n].errors
    BY <1>1, <1>2 DEF Member
<1> HIDE DEF e
<1>4. JobSorts'
    BY <1>1, <1>2 DEF JobSorts, Kinds
<1>5. Frame(n)
    BY <1>1, <1>2 DEF Frame, JobSorts
<1>6. OwnDone(n)
    BY <1>1, <1>2 DEF OwnDone, Fine
<1>7. Fine(e, flag', phase', asked', content', mods', vps')
    BY <1>1, <1>2, <1>3 DEF Fine
<1> QED BY <1>2, <1>3, <1>4, <1>5, <1>6, <1>7, ThreadGoesOn

LEMMA DownloadsStep ==
    ASSUME JobsInv, NEW n \in DOMAIN crew,
           \/ Jobs!MakeDirs(n) \/ Jobs!Resolve(n) \/ Jobs!DownloadEnds(n)
           \/ \E i \in Items : Jobs!LinkFails(n, i)
    PROVE  JobsInv'
<1>1. /\ crew[n] \in Member /\ JobSorts
      /\ Fine(crew[n], flag, phase, asked, content, mods, vps)
    BY CrewTyped DEF JobsInv
<1>2. crew[n].kind = "download" /\ UNCHANGED <<asked, steamcmd, vps>>
    BY DEF Jobs!MakeDirs, Jobs!Resolve, Jobs!DownloadEnds, Jobs!LinkFails, Jobs!At
<1>3. /\ [crew[n] EXCEPT !.at = "resolve"] \in Member
      /\ [crew[n] EXCEPT !.at = "item"] \in Member
    BY <1>1 DEF Member
<1>4. ASSUME NEW next \in {"resolve", "item"}, Jobs!Goes(n, next), UNCHANGED <<content, mods>>,
             crew[n].at # "end"
      PROVE  JobsInv'
    <2>1. UNCHANGED <<flag, phase>>
        BY <1>4 DEF Jobs!Goes
    <2>2. JobSorts'
        BY <1>1, <1>2, <1>4, <2>1 DEF JobSorts
    <2>3. Frame(n)
        BY <1>2, <2>1 DEF Frame
    <2> QED BY <1>2, <1>3, <1>4, <2>2, <2>3, PlaceStep
<1>5. vps' \in [docker : BOOLEAN, bound : BOOLEAN, files : BOOLEAN]
    BY <1>1, <1>2 DEF JobSorts
<1>6. ASSUME Jobs!Ends(n, "error"), content' \in [Items -> {"none", "bare", "mods"}]
      PROVE  JobsInv'
    BY <1>2, <1>5, <1>6, ResultStep
<1>7. content \in [Items -> {"none", "bare", "mods"}]
    BY <1>1 DEF JobSorts
<1>8. CASE Jobs!MakeDirs(n)
    <2>1. UNCHANGED <<content, mods>> /\ crew[n].at # "end"
        BY <1>8 DEF Jobs!MakeDirs, Jobs!At
    <2>2. Jobs!Goes(n, "resolve") \/ (crew' = Jobs!RemoveAt(crew, n) /\ UNCHANGED <<flag, phase>>)
        BY <1>8 DEF Jobs!MakeDirs
    <2> QED BY <1>2, <1>4, <2>1, <2>2, VanishesStep
<1>9. CASE Jobs!Resolve(n)
    <2>1. /\ UNCHANGED <<content, mods>> /\ (Jobs!Goes(n, "item") \/ Jobs!Ends(n, "error"))
          /\ crew[n].at # "end"
        BY <1>9 DEF Jobs!Resolve, Jobs!At
    <2> QED BY <1>4, <1>6, <1>7, <2>1
<1>10. CASE Jobs!DownloadEnds(n)
    <2>1. UNCHANGED <<content, mods>> /\ crew[n].todo = {}
        BY <1>1, <1>2, <1>10 DEF Jobs!DownloadEnds, Jobs!At, Fine
    <2>2. Jobs!Ends(n, IF crew[n].errors THEN "error" ELSE "done")
        BY <1>10 DEF Jobs!DownloadEnds
    <2>3. CASE crew[n].errors
        BY <1>6, <1>7, <2>1, <2>2, <2>3
    <2>4. CASE ~ crew[n].errors
        <3>1. Jobs!Ends(n, "done")
            BY <2>2, <2>4
        <3>2. \A i \in asked : Kept(i, asked, content', mods')
            <4>1. asked \ crew[n].todo = asked
                BY <2>1
            <4> QED BY <1>1, <1>2, <2>1, <2>4, <4>1 DEF Fine
        <3> QED BY <1>2, <1>5, <1>7, <2>1, <3>1, <3>2, ResultStep
    <2> QED BY <2>3, <2>4
<1>11. ASSUME NEW i \in Items, Jobs!LinkFails(n, i)
       PROVE  JobsInv'
    <2>1. content' = [content EXCEPT ![i] = "mods"] /\ Jobs!Ends(n, "error")
        BY <1>11 DEF Jobs!LinkFails
    <2>2. content' \in [Items -> {"none", "bare", "mods"}]
        BY <1>7, <2>1
    <2> QED BY <1>6, <2>1, <2>2
<1> QED BY <1>8, <1>9, <1>10, <1>11

LEMMA ProvisionStep ==
    ASSUME JobsInv, NEW n \in DOMAIN crew,
           \/ Jobs!ProvisionFails(n) \/ Jobs!Probe(n) \/ Jobs!InstallDocker(n)
           \/ Jobs!DeployFiles(n) \/ Jobs!DockerUp(n) \/ Jobs!HealthPoll(n)
    PROVE  JobsInv'
<1>1. /\ crew[n] \in Member /\ JobSorts
      /\ Fine(crew[n], flag, phase, asked, content, mods, vps)
    BY CrewTyped DEF JobsInv
<1>2. crew[n].kind = "provision" /\ UNCHANGED <<asked, steamcmd, content, mods>>
    BY DEF Jobs!ProvisionFails, Jobs!Probe, Jobs!InstallDocker, Jobs!DeployFiles,
           Jobs!DockerUp, Jobs!HealthPoll, Jobs!At
<1>3. /\ vps' = vps \/ vps' = [vps EXCEPT !.docker = TRUE] \/ vps' = [vps EXCEPT !.files = TRUE]
         \/ vps' = [vps EXCEPT !.bound = TRUE]
      /\ vps \in [docker : BOOLEAN, bound : BOOLEAN, files : BOOLEAN]
    BY <1>1 DEF JobSorts, Jobs!ProvisionFails, Jobs!Probe, Jobs!InstallDocker, Jobs!DeployFiles,
           Jobs!DockerUp, Jobs!HealthPoll
<1>4. /\ vps' \in [docker : BOOLEAN, bound : BOOLEAN, files : BOOLEAN]
      /\ (vps.docker => vps'.docker) /\ (vps.files => vps'.files) /\ (vps.bound => vps'.bound)
    BY <1>3
<1>5. \A next \in {"docker", "files", "up", "health"} : [crew[n] EXCEPT !.at = next] \in Member
    BY <1>1 DEF Member
<1>6. ASSUME NEW next \in {"docker", "files", "up", "health"}, Jobs!Goes(n, next),
             next \in {"files", "up", "health"} => vps'.docker,
             next \in {"up", "health"} => vps'.files
      PROVE  JobsInv'
    <2>1. UNCHANGED <<flag, phase>>
        BY <1>6 DEF Jobs!Goes
    <2>2. JobSorts'
        BY <1>1, <1>2, <1>4, <2>1 DEF JobSorts
    <2>3. Frame(n)
        BY <1>2, <1>4, <2>1 DEF Frame
    <2> QED BY <1>2, <1>5, <1>6, <2>2, <2>3, PlaceStep
<1>7. content' \in [Items -> {"none", "bare", "mods"}]
    BY <1>1, <1>2 DEF JobSorts
<1>8. ASSUME Jobs!Ends(n, "error")
      PROVE  JobsInv'
    BY <1>2, <1>4, <1>7, <1>8, ResultStep
<1>9. /\ crew[n].at \in {"files", "up", "health"} => vps.docker
      /\ crew[n].at \in {"up", "health"} => vps.files
    BY <1>1, <1>2 DEF Fine
<1>10. CASE Jobs!Probe(n)
    <2>1. vps' = vps /\ Jobs!Goes(n, IF vps.docker THEN "files" ELSE "docker")
        BY <1>10 DEF Jobs!Probe
    <2>2. CASE vps.docker
        BY <1>6, <2>1, <2>2
    <2>3. CASE ~ vps.docker
        BY <1>6, <2>1, <2>3
    <2> QED BY <2>2, <2>3
<1>11. CASE Jobs!InstallDocker(n)
    <2>1. vps' = [vps EXCEPT !.docker = TRUE] /\ Jobs!Goes(n, "files")
        BY <1>11 DEF Jobs!InstallDocker
    <2>2. vps'.docker
        BY <1>3, <2>1
    <2> QED BY <1>6, <2>1, <2>2
<1>12. CASE Jobs!DeployFiles(n)
    <2>1. vps' = [vps EXCEPT !.files = TRUE] /\ Jobs!Goes(n, "up") /\ crew[n].at = "files"
        BY <1>12 DEF Jobs!DeployFiles, Jobs!At
    <2>2. vps'.docker /\ vps'.files
        BY <1>3, <1>4, <1>9, <2>1
    <2> QED BY <1>6, <2>1, <2>2
<1>13. CASE Jobs!DockerUp(n)
    <2>1. (Jobs!Goes(n, "health") \/ Jobs!Ends(n, "error")) /\ crew[n].at = "up"
        BY <1>13 DEF Jobs!DockerUp, Jobs!At
    <2>2. vps'.docker /\ vps'.files
        BY <1>4, <1>9, <2>1
    <2> QED BY <1>6, <1>8, <2>1, <2>2
<1>14. CASE Jobs!HealthPoll(n)
    <2>1. Jobs!Ends(n, "done") /\ crew[n].at = "health" /\ vps.bound
        BY <1>14 DEF Jobs!HealthPoll, Jobs!At
    <2>2. vps'.docker /\ vps'.files /\ vps'.bound
        BY <1>4, <1>9, <2>1
    <2> QED BY <1>2, <1>4, <1>7, <2>1, <2>2, ResultStep
<1>15. CASE Jobs!ProvisionFails(n)
    BY <1>8, <1>15 DEF Jobs!ProvisionFails
<1> QED BY <1>10, <1>11, <1>12, <1>13, <1>14, <1>15

LEMMA BeginStep ==
    ASSUME JobsInv, NEW n \in DOMAIN crew, Jobs!Begin(n)
    PROVE  JobsInv'
<1> DEFINE e == [crew[n] EXCEPT !.at = "connect"]
<1>1. crew[n] \in Member /\ JobSorts
    BY CrewTyped DEF JobsInv
<1>2. crew[n].kind = "provision" /\ crew' = [crew EXCEPT ![n].at = "connect"]
    BY DEF Jobs!Begin, Jobs!At
<1>3. /\ flag' = [flag EXCEPT !["provision"] = TRUE]
      /\ phase' = [phase EXCEPT !["provision"] = "starting"]
    BY DEF Jobs!Begin, Jobs!Raised
<1>4. UNCHANGED <<asked, steamcmd, content, mods, vps>>
    BY DEF Jobs!Begin
<1>5. crew' = [crew EXCEPT ![n] = e]
    BY <1>2
<1>6. e \in Member /\ e.kind = "provision" /\ e.at = "connect"
    BY <1>1, <1>2 DEF Member
<1> HIDE DEF e
<1>7. JobSorts'
    BY <1>1, <1>3, <1>4 DEF JobSorts
<1>8. Frame(n)
    BY <1>1, <1>2, <1>3, <1>4 DEF Frame, JobSorts
<1>9. phase'["provision"] = "starting"
    BY <1>1, <1>3 DEF JobSorts, Kinds
<1>10. OwnDone(n)
    BY <1>2, <1>9 DEF OwnDone
<1>11. Fine(e, flag', phase', asked', content', mods', vps')
    BY <1>6 DEF Fine
<1>12. e \in Member /\ e.kind = crew[n].kind
    BY <1>2, <1>6
<1> QED BY <1>5, <1>7, <1>8, <1>10, <1>11, <1>12, ThreadGoesOn

LEMMA JobsStep == JobsInv /\ [Jobs!JobsNext]_jobVars => JobsInv'
<1> SUFFICES ASSUME JobsInv, [Jobs!JobsNext]_jobVars PROVE JobsInv'
    OBVIOUS
<1>1. CASE Jobs!PanelEnds
    <2>1. /\ crew' = <<>> /\ flag' = [k \in Kinds |-> FALSE] /\ phase' = [k \in Kinds |-> "idle"]
          /\ asked' = {} /\ content' = content /\ vps' = vps
        BY <1>1 DEF Jobs!PanelEnds, Kinds, Jobs!Kinds
    <2>2. JobSorts'
        BY <2>1 DEF JobsInv, JobSorts
    <2>3. DoneIsDone'
        BY <2>1 DEF DoneIsDone, Jobs!DoneIsDone, Kinds
    <2>4. crew' \in Seq(Member) /\ DOMAIN crew' = {}
        BY <2>1
    <2> QED BY <2>2, <2>3, <2>4 DEF JobsInv, Sole
<1>2. CASE UNCHANGED jobVars
    BY <1>2 DEF jobVars, JobsInv, JobSorts, DoneIsDone, Jobs!DoneIsDone, Jobs!Leads, Sole
<1>3. ASSUME NEW n \in DOMAIN crew,
             \/ Jobs!Fetch(n) \/ Jobs!Extract(n) \/ Jobs!SelfUpdate(n)
             \/ Jobs!MakeDirs(n) \/ Jobs!Resolve(n) \/ Jobs!BatchDone(n) \/ Jobs!DownloadEnds(n)
             \/ \E i \in Items, code \in BOOLEAN, folder \in {"none", "bare", "mods"} :
                   Jobs!Download(n, i, code, folder)
             \/ \E i \in Items : Jobs!LinkFails(n, i)
             \/ Jobs!Begin(n) \/ Jobs!ProvisionFails(n) \/ Jobs!Probe(n)
             \/ Jobs!InstallDocker(n) \/ Jobs!DeployFiles(n)
             \/ Jobs!DockerUp(n) \/ Jobs!HealthPoll(n)
      PROVE  JobsInv'
    BY <1>3, InstallStep, DownloadsStep, DownloadStep, BatchDoneStep, BeginStep, ProvisionStep
<1> QED BY <1>1, <1>2, <1>3, StartsStep DEF Jobs!JobsNext

(***************************************************************************)
(* What the record of a job calls done is done, for any items and any      *)
(* number of jobs one after the other and, of provisioning, side by side   *)
(* (_run_install, download_batch, _run_provision).                         *)
(***************************************************************************)
THEOREM JobsDoneAreDone == PartsSpec => []DoneIsDone
<1>1. JobsInv => DoneIsDone
    BY DEF JobsInv
<1> QED BY <1>1, JobsOnly, JobsInitially, JobsStep, PTL DEF PartsSpec
-----------------------------------------------------------------------------

(***************************************************************************)
(* The local server.  The lines of a server are among those of the         *)
(* console, so a line that is near enough to the end of the console to be  *)
(* read is also near enough to the end of the server's own log.            *)
(***************************************************************************)

JvmStates == {"up", "closing", "zombie", "gone"}
SmokeOps == {"start", "spawn", "note", "stop", "kill"}
Line == [pid : Nat, text : {"error", "fatal", "chatter", "loading", "ready"}]
Asked == [op : SmokeOps, pid : Nat]

\* What a request knows: the pid it made or the one it will stop.
AskedFits(a, pids) == (a.op \in {"note", "kill"} <=> a.pid # 0) /\ a.pid \in 0 .. pids

LocalInv ==
    /\ jvms \in Seq(JvmStates)
    /\ pidFile \in 0 .. Len(jvms)
    /\ console \in Seq(Line)
    /\ \A i \in DOMAIN console : console[i].pid \in 0 .. Len(jvms)
    /\ smoke \in Seq(Asked)
    /\ \A n \in DOMAIN smoke : AskedFits(smoke[n], Len(jvms))
    /\ asks \in [smoke : 0 .. MaxSmoke, dies : 0 .. MaxLocalDies]

LEMMA FunctionIsSeq ==
    ASSUME NEW S, NEW n \in Nat, NEW f \in [1 .. n -> S]
    PROVE  f \in Seq(S) /\ Len(f) = n
OBVIOUS

LEMMA LocalOnly == [PartsNext]_<<part, vars, schedVars, monVars, deployVars, jobVars, upVars,
                        localVars, busVars, accessVars, chunkVars, slotVars>>
                    => [Local!LocalNext]_localVars
BY DEF PartsNext

LEMMA LocalInitially == PartsInit => LocalInv
<1> SUFFICES ASSUME PartsInit PROVE LocalInv
    OBVIOUS
<1>1. /\ jvms = <<>> /\ pidFile = 0 /\ console = <<>> /\ smoke = <<>>
      /\ asks = [smoke |-> 0, dies |-> 0]
    BY DEF PartsInit, Local!LocalInit
<1>2. asks \in [smoke : 0 .. MaxSmoke, dies : 0 .. MaxLocalDies]
    BY <1>1, PartsAssumption
<1> QED BY <1>1, <1>2, EmptySeq DEF LocalInv

\* The servers change their state or become more.
LEMMA JvmsGrow ==
    ASSUME LocalInv, jvms' \in Seq(JvmStates), Len(jvms') >= Len(jvms)
    PROVE  /\ \A a \in Asked : AskedFits(a, Len(jvms)) => AskedFits(a, Len(jvms'))
           /\ pidFile \in 0 .. Len(jvms')
           /\ \A i \in DOMAIN console : console[i].pid \in 0 .. Len(jvms')
BY DEF LocalInv, AskedFits, Asked

\* A request is over.
LEMMA DropIs ==
    ASSUME LocalInv, NEW n \in DOMAIN smoke, Local!Drop(n)
    PROVE  smoke' \in Seq(Asked) /\ \A k \in DOMAIN smoke' : AskedFits(smoke'[k], Len(jvms))
<1> DEFINE t == SubSeq(smoke, 1, n - 1) \o SubSeq(smoke, n + 1, Len(smoke))
<1>1. smoke' = t
    BY DEF Local!Drop, Local!RemoveAt
<1>2. /\ t \in Seq(Asked) /\ Len(t) = Len(smoke) - 1
      /\ \A k \in 1 .. Len(t) : t[k] = smoke[IF k < n THEN k ELSE k + 1]
    BY Removed DEF LocalInv
<1> HIDE DEF t
<1>3. DOMAIN t = 1 .. Len(t) /\ n \in 1 .. Len(smoke) /\ Len(smoke) \in Nat
    BY <1>2 DEF LocalInv
<1>4. ASSUME NEW k \in 1 .. Len(t)
      PROVE  \E j \in DOMAIN smoke : t[k] = smoke[j]
    <2>1. Len(t) = Len(smoke) - 1 /\ t[k] = smoke[IF k < n THEN k ELSE k + 1]
        BY <1>2
    <2>2. DOMAIN smoke = 1 .. Len(smoke)
        BY DEF LocalInv
    <2>3. (IF k < n THEN k ELSE k + 1) \in DOMAIN smoke
        BY <1>3, <2>1, <2>2
    <2> QED BY <2>1, <2>3
<1> QED BY <1>1, <1>2, <1>3, <1>4 DEF LocalInv

\* A request goes on.
LEMMA AskedGoes ==
    ASSUME LocalInv, NEW n \in DOMAIN smoke, NEW a \in Asked,
           smoke' = [smoke EXCEPT ![n] = a]
    PROVE  /\ smoke' \in Seq(Asked) /\ DOMAIN smoke' = DOMAIN smoke
           /\ \A k \in DOMAIN smoke' : smoke'[k] = IF k = n THEN a ELSE smoke[k]
BY DEF LocalInv

LEMMA LocalStep == LocalInv /\ [Local!LocalNext]_localVars => LocalInv'
<1> SUFFICES ASSUME LocalInv, [Local!LocalNext]_localVars PROVE LocalInv'
    OBVIOUS
<1> USE DEF LocalInv
<1>1. ASSUME NEW op \in {"start", "stop"}, Local!SmokeAsks(op)
      PROVE  LocalInv'
    <2> DEFINE a == [op |-> op, pid |-> 0]
    <2>1. a \in Asked /\ AskedFits(a, Len(jvms))
        BY DEF Asked, SmokeOps, AskedFits
    <2>2. smoke' = Append(smoke, a)
        BY <1>1 DEF Local!SmokeAsks
    <2> HIDE DEF a
    <2>3. smoke' \in Seq(Asked) /\ \A k \in DOMAIN smoke' : AskedFits(smoke'[k], Len(jvms))
        BY <2>1, <2>2, Appended
    <2>4. asks' \in [smoke : 0 .. MaxSmoke, dies : 0 .. MaxLocalDies]
        <3>1. asks.smoke \in 0 .. MaxSmoke /\ asks.smoke < MaxSmoke /\ MaxSmoke \in Nat
            BY <1>1, PartsAssumption DEF Local!SmokeAsks
        <3>2. asks.smoke + 1 \in 0 .. MaxSmoke
            BY <3>1
        <3> QED BY <1>1, <3>2 DEF Local!SmokeAsks
    <2> QED BY <1>1, <2>3, <2>4 DEF Local!SmokeAsks
<1>2. ASSUME NEW n \in DOMAIN smoke, Local!Spawn(n)
      PROVE  LocalInv'
    <2> DEFINE old == [p \in DOMAIN jvms |-> IF jvms[p] = "zombie" THEN "gone" ELSE jvms[p]]
               a == [op |-> "note", pid |-> Len(jvms')]
    <2>1. old \in Seq(JvmStates) /\ Len(old) = Len(jvms)
        <3>1. jvms \in [1 .. Len(jvms) -> JvmStates] /\ DOMAIN jvms = 1 .. Len(jvms)
              /\ Len(jvms) \in Nat
            OBVIOUS
        <3>2. old \in [1 .. Len(jvms) -> JvmStates]
            BY <3>1 DEF JvmStates
        <3> HIDE DEF old
        <3> QED BY <3>1, <3>2, FunctionIsSeq
    <2>2. jvms' = Append(old, "up")
        BY <1>2 DEF Local!Spawn
    <2> HIDE DEF old
    <2>3. jvms' \in Seq(JvmStates) /\ Len(jvms') = Len(jvms) + 1
        BY <2>1, <2>2 DEF JvmStates
    <2>4. a \in Asked /\ AskedFits(a, Len(jvms'))
        BY <2>3 DEF Asked, SmokeOps, AskedFits
    <2>5. smoke' = [smoke EXCEPT ![n] = a]
        BY <1>2 DEF Local!Spawn
    <2> HIDE DEF a
    <2>6. /\ smoke' \in Seq(Asked) /\ DOMAIN smoke' = DOMAIN smoke
          /\ \A k \in DOMAIN smoke' : smoke'[k] = IF k = n THEN a ELSE smoke[k]
        BY <2>4, <2>5, AskedGoes
    <2>7. \A k \in DOMAIN smoke : smoke[k] \in Asked
        OBVIOUS
    <2>8. /\ \A b \in Asked : AskedFits(b, Len(jvms)) => AskedFits(b, Len(jvms'))
          /\ pidFile \in 0 .. Len(jvms')
          /\ \A i \in DOMAIN console : console[i].pid \in 0 .. Len(jvms')
        BY <2>3, JvmsGrow
    <2> QED BY <1>2, <2>3, <2>4, <2>6, <2>7, <2>8 DEF Local!Spawn
<1>3. ASSUME NEW n \in DOMAIN smoke, Local!StartLooks(n)
      PROVE  LocalInv'
    <2>1. CASE Local!Drop(n)
        BY <1>3, <2>1, DropIs DEF Local!StartLooks
    <2>2. CASE smoke' = [smoke EXCEPT ![n].op = "spawn"]
        <3> DEFINE a == [smoke[n] EXCEPT !.op = "spawn"]
        <3> smoke[n] \in Asked /\ AskedFits(smoke[n], Len(jvms)) /\ smoke[n].op = "start"
            BY <1>3 DEF Local!StartLooks
        <3> HIDE DEF LocalInv
        <3>1. a \in Asked /\ AskedFits(a, Len(jvms))
            BY <1>3 DEF Asked, SmokeOps, AskedFits, Local!StartLooks
        <3>2. smoke' = [smoke EXCEPT ![n] = a]
            BY <2>2
        <3> HIDE DEF a
        <3> QED BY <1>3, <3>1, <3>2, AskedGoes DEF Local!StartLooks, LocalInv
    <2> QED BY <1>3, <2>1, <2>2 DEF Local!StartLooks
<1>4. ASSUME NEW n \in DOMAIN smoke, Local!StartRefused(n)
      PROVE  LocalInv'
    BY <1>4, DropIs DEF Local!StartRefused
<1>5. ASSUME NEW n \in DOMAIN smoke, Local!NotesPid(n)
      PROVE  LocalInv'
    <2>1. smoke[n].pid \in 0 .. Len(jvms)
        BY DEF AskedFits
    <2> QED BY <1>5, <2>1, DropIs DEF Local!NotesPid
<1>6. ASSUME NEW n \in DOMAIN smoke, Local!StopLooks(n)
      PROVE  LocalInv'
    <2>1. CASE Local!Drop(n)
        BY <1>6, <2>1, DropIs DEF Local!StopLooks
    <2>2. CASE Local!Running /\ smoke' = [smoke EXCEPT ![n] = [op |-> "kill", pid |-> pidFile]]
        <3> DEFINE a == [op |-> "kill", pid |-> pidFile]
        <3>1. a \in Asked /\ AskedFits(a, Len(jvms))
            BY <2>2 DEF Asked, SmokeOps, AskedFits, Local!Running, Local!PidAlive
        <3>2. smoke' = [smoke EXCEPT ![n] = a]
            BY <2>2
        <3> HIDE DEF a
        <3> QED BY <1>6, <3>1, <3>2, AskedGoes DEF Local!StopLooks
    <2> QED BY <1>6, <2>1, <2>2 DEF Local!StopLooks
<1>7. ASSUME NEW n \in DOMAIN smoke, Local!Kill(n)
      PROVE  LocalInv'
    <2>1. jvms' \in Seq(JvmStates) /\ Len(jvms') = Len(jvms)
        <3>1. jvms \in [1 .. Len(jvms) -> JvmStates] /\ DOMAIN jvms = 1 .. Len(jvms)
              /\ Len(jvms) \in Nat
            OBVIOUS
        <3>2. jvms' \in [1 .. Len(jvms) -> JvmStates]
            BY <1>7, <3>1 DEF Local!Kill, JvmStates
        <3> QED BY <3>1, <3>2, FunctionIsSeq
    <2>2. smoke' \in Seq(Asked) /\ \A k \in DOMAIN smoke' : AskedFits(smoke'[k], Len(jvms))
        BY <1>7, DropIs DEF Local!Kill
    <2>3. \A i \in DOMAIN console : console[i].pid \in 0 .. Len(jvms')
        BY <2>1, JvmsGrow
    <2> QED BY <1>7, <2>1, <2>2, <2>3 DEF Local!Kill
<1>8. ASSUME NEW p \in DOMAIN jvms, Local!Logs(p)
      PROVE  LocalInv'
    <2>1. PICK text \in {"error", "fatal", "chatter", "loading", "ready"} :
              console' = Append(console, [pid |-> p, text |-> text])
        BY <1>8 DEF Local!Logs, Local!Stages, Local!Range
    <2> DEFINE l == [pid |-> p, text |-> text]
    <2>2. l \in Line /\ l.pid \in 0 .. Len(jvms)
        BY DEF Line
    <2> HIDE DEF l
    <2>3. console' \in Seq(Line) /\ \A i \in DOMAIN console' : console'[i].pid \in 0 .. Len(jvms)
        BY <2>1, <2>2, Appended DEF l
    <2> QED BY <1>8, <2>3 DEF Local!Logs
<1>12. CASE Local!TestLogs
    <2>1. PICK text \in {"error", "fatal", "chatter", "loading", "ready"} :
              console' = Append(console, [pid |-> 0, text |-> text])
        BY <1>12 DEF Local!TestLogs, Local!Stages, Local!Range
    <2> DEFINE l == [pid |-> 0, text |-> text]
    <2>2. l \in Line /\ l.pid \in 0 .. Len(jvms)
        BY DEF Line
    <2> HIDE DEF l
    <2>3. console' \in Seq(Line) /\ \A i \in DOMAIN console' : console'[i].pid \in 0 .. Len(jvms)
        BY <2>1, <2>2, Appended DEF l
    <2> QED BY <1>12, <2>3 DEF Local!TestLogs
<1>9. ASSUME NEW p \in DOMAIN jvms, Local!JvmEnds(p)
      PROVE  LocalInv'
    <2>1. jvms' \in Seq(JvmStates) /\ Len(jvms') = Len(jvms)
        <3>1. jvms \in [1 .. Len(jvms) -> JvmStates] /\ DOMAIN jvms = 1 .. Len(jvms)
              /\ Len(jvms) \in Nat
            OBVIOUS
        <3>2. jvms' \in [1 .. Len(jvms) -> JvmStates]
            BY <1>9, <3>1 DEF Local!JvmEnds, JvmStates
        <3> QED BY <3>1, <3>2, FunctionIsSeq
    <2> QED BY <1>9, <2>1, JvmsGrow DEF Local!JvmEnds
<1>10. CASE Local!LocalPanelDies
    <2>1. jvms' \in Seq(JvmStates) /\ Len(jvms') = Len(jvms)
        <3>1. jvms \in [1 .. Len(jvms) -> JvmStates] /\ DOMAIN jvms = 1 .. Len(jvms)
              /\ Len(jvms) \in Nat
            OBVIOUS
        <3>2. jvms' \in [1 .. Len(jvms) -> JvmStates]
            BY <1>10, <3>1 DEF Local!LocalPanelDies, JvmStates
        <3> QED BY <3>1, <3>2, FunctionIsSeq
    <2>2. asks' \in [smoke : 0 .. MaxSmoke, dies : 0 .. MaxLocalDies]
        <3>1. asks.dies \in 0 .. MaxLocalDies /\ asks.dies < MaxLocalDies
              /\ MaxLocalDies \in Nat
            BY <1>10, PartsAssumption DEF Local!LocalPanelDies
        <3>2. asks.dies + 1 \in 0 .. MaxLocalDies
            BY <3>1
        <3> QED BY <1>10, <3>2 DEF Local!LocalPanelDies
    <2>3. smoke' = <<>> /\ smoke' \in Seq(Asked)
        BY <1>10, EmptySeq DEF Local!LocalPanelDies
    <2> QED BY <1>10, <2>1, <2>2, <2>3, JvmsGrow DEF Local!LocalPanelDies
<1>11. CASE UNCHANGED localVars
    BY <1>11 DEF localVars
<1> QED BY <1>1, <1>2, <1>3, <1>4, <1>5, <1>6, <1>7, <1>8, <1>9, <1>10, <1>11, <1>12
        DEF Local!LocalNext

LEMMA LocalTypes == LocalInv => Local!LocalTypeOK
<1> SUFFICES ASSUME LocalInv PROVE Local!LocalTypeOK
    OBVIOUS
<1>1. ASSUME NEW n \in DOMAIN smoke
      PROVE  smoke[n] \in Asked /\ AskedFits(smoke[n], Len(jvms))
    BY DEF LocalInv
<1>2. \A n \in DOMAIN smoke :
          /\ smoke[n].op \in {"start", "spawn", "note", "stop", "kill"}
          /\ smoke[n].op \in {"note", "kill"} <=> smoke[n].pid # 0
          /\ smoke[n].pid \in 0 .. Len(jvms)
    BY <1>1 DEF AskedFits, Asked, SmokeOps
<1> QED BY <1>2 DEF LocalInv, Local!LocalTypeOK, JvmStates

LEMMA LocalCardinality == \A S : Local!Cardinality(S) = Cardinality(S)
BY DEF Local!Cardinality, Cardinality

\* A line read at the end of the console is read in the log of its server too.
LEMMA OwnTail ==
    ASSUME LocalInv, NEW i \in Local!TailOf(Local!InConsole)
    PROVE  i \in Local!TailOf(Local!SaidBy(console[i].pid))
<1> DEFINE all == {j \in Local!InConsole : j > i}
           own == {j \in Local!SaidBy(console[i].pid) : j > i}
<1>1. i \in Local!InConsole /\ i \in DOMAIN console /\ console[i].pid # 0
      /\ Cardinality(all) < TailCap
    BY LocalCardinality DEF Local!TailOf, Local!InConsole, Local!SaidBy
<1>2. IsFiniteSet(DOMAIN console)
    BY FS_Interval DEF LocalInv
<1>3. IsFiniteSet(all) /\ own \subseteq all
    BY <1>1, <1>2, FS_Subset DEF Local!SaidBy, Local!InConsole
<1>4. /\ IsFiniteSet(own) /\ Cardinality(own) \in Nat /\ Cardinality(all) \in Nat
      /\ Cardinality(own) <= Cardinality(all)
    <2> HIDE DEF own, all
    <2> QED BY <1>3, FS_Subset, FS_CardinalityType
<1>5. Cardinality(own) < TailCap
    <2> HIDE DEF own, all
    <2> QED BY <1>1, <1>4, PartsAssumption
<1> QED BY <1>1, <1>5, LocalCardinality DEF Local!TailOf, Local!SaidBy

\* A running server with its start among the lines has passed.
LEMMA ReadyPasses ==
    ASSUME NEW lines, Local!Running, "ready" \in Local!Texts(lines)
    PROVE  Local!Verdict(lines) = "pass"
<1>1. Local!Stages = <<"loading", "ready">>
    BY DEF Local!Stages
<1> DEFINE K == {k \in DOMAIN Local!Stages : Local!Stages[k] \in Local!Texts(lines)}
<1>2. 2 \in K /\ K \subseteq {1, 2}
    BY <1>1
<1>3. Local!Max(K) = 2
    <2> HIDE DEF K
    <2>1. 2 \in K /\ \A k \in K : 2 >= k
        BY <1>2
    <2> DEFINE m == Local!Max(K)
    <2>2. \E x \in K : \A k \in K : x >= k
        BY <2>1
    <2>3. m \in K /\ \A k \in K : m >= k
        BY <2>2, Zenon DEF Local!Max
    <2> HIDE DEF m
    <2>4. m \in {1, 2} /\ m >= 2
        BY <1>2, <2>1, <2>3
    <2>5. m = 2
        BY <2>4
    <2> QED BY <2>5 DEF m
<1>4. Local!Texts(lines) \cap Local!Range(Local!Stages) # {}
    BY <1>1 DEF Local!Range
<1>5. Local!LogStage(lines) = "ready"
    BY <1>1, <1>3, <1>4 DEF Local!LogStage
<1>6. Local!WorldStage(lines, Local!Running) = "ready"
    BY <1>5 DEF Local!WorldStage
<1> QED BY <1>6 DEF Local!Verdict

(***************************************************************************)
(* A server that is up, named by the pid file and the last to have         *)
(* written passes as soon as its start is among the lines that are read,   *)
(* whatever number of runs and deaths of the panel came before.            *)
(***************************************************************************)
THEOREM StartsPass == PartsSpec => []StartedPasses
<1>1. ASSUME LocalInv
      PROVE  StartedPasses
    <2> SUFFICES ASSUME pidFile # 0, console # <<>>, jvms[pidFile] = "up",
                        Local!Last(console).pid = pidFile,
                        NEW i \in Local!TailOf(Local!InConsole),
                        console[i] = [pid |-> pidFile, text |-> "ready"],
                        NEW lines \in Local!LogLines
                 PROVE  Local!Verdict(lines) = "pass"
        BY DEF StartedPasses, Local!StartedPasses
    <2>1. lines \in {Local!TailOf(Local!InConsole), Local!TailOf(Local!SaidBy(pidFile))}
        BY DEF Local!LogLines
    <2>2. i \in lines
        BY <1>1, <2>1, OwnTail
    <2>3. "ready" \in Local!Texts(lines)
        BY <2>2 DEF Local!Texts
    <2>4. Local!Running
        BY DEF Local!Running, Local!PidAlive
    <2> QED BY <2>3, <2>4, ReadyPasses
<1> QED BY <1>1, LocalOnly, LocalInitially, LocalStep, PTL DEF PartsSpec
-----------------------------------------------------------------------------

(***************************************************************************)
(* The levels of the players.  While the stamp of a command is young the   *)
(* level is the one that was taken down with it: reading the logs leaves   *)
(* such a player alone, and a death of the panel takes the stamps along.   *)
(***************************************************************************)

Grant == [who : Players, level : Levels]
Stamps == {Access!Never} \cup 0 .. clock

AccessInv ==
    /\ clock \in 0 .. MaxClock
    /\ gameLevel \in [Players -> Levels]
    /\ gameLog \in Seq(Grant) /\ logCopy \in Seq(Grant)
    /\ Len(logCopy) <= Len(gameLog)
    /\ \A i \in 1 .. Len(logCopy) : logCopy[i] = gameLog[i]
    /\ levels \in [Players -> Levels \cup {"none"}] /\ levelFile = levels
    /\ syncedAt \in Stamps
    /\ rconAt \in [Players -> Stamps]
    /\ answered \subseteq Grant
    /\ told \in [Players -> Levels \cup {"none"}]
    /\ grants \in [sets : 0 .. MaxGrants, dies : 0 .. MaxAccessDies]
    /\ \A p \in Players :
          clock - rconAt[p] < RconCacheTTL => told[p] \in Levels /\ levels[p] = told[p]

LEMMA AccessOnly == [PartsNext]_<<part, vars, schedVars, monVars, deployVars, jobVars, upVars,
                        localVars, busVars, accessVars, chunkVars, slotVars>>
                    => [Access!AccessNext]_accessVars
BY DEF PartsNext

LEMMA AccessAre ==
    /\ DefaultLevel \in Levels /\ "none" \notin Levels
    /\ LogSyncTTL \in Nat /\ RconCacheTTL \in Nat
    /\ MaxClock \in Nat /\ MaxGrants \in Nat /\ MaxAccessDies \in Nat
    /\ Access!Never \in Int /\ Access!Never = 0 - RconCacheTTL - LogSyncTTL
BY PartsAssumption DEF Access!Never

LEMMA AccessInitially == PartsInit => AccessInv
<1> SUFFICES ASSUME PartsInit PROVE AccessInv
    OBVIOUS
<1>1. Access!AccessInit
    BY DEF PartsInit
<1>2. /\ clock = 0 /\ clock \in 0 .. MaxClock
      /\ grants \in [sets : 0 .. MaxGrants, dies : 0 .. MaxAccessDies]
    BY <1>1, AccessAre DEF Access!AccessInit
<1>3. /\ gameLog \in Seq(Grant) /\ logCopy \in Seq(Grant) /\ Len(gameLog) = 0
      /\ Len(logCopy) = 0
    BY <1>1, EmptySeq DEF Access!AccessInit
<1>4. \A p \in Players : ~ (clock - rconAt[p] < RconCacheTTL)
    BY <1>1, <1>2, AccessAre DEF Access!AccessInit
<1> QED BY <1>1, <1>2, <1>3, <1>4, AccessAre
        DEF Access!AccessInit, Access!Empty, Access!None, AccessInv, Stamps

\* What the log says last of a player is a level, or nothing.
LEMMA LastSaidIs ==
    ASSUME logCopy \in Seq(Grant), NEW p \in Players
    PROVE  Access!LastSaid(p) \in Levels \cup {"none"}
<1> DEFINE said == {i \in DOMAIN logCopy : logCopy[i].who = p}
           m == Access!Max(said)
<1>1. CASE said = {}
    BY <1>1 DEF Access!LastSaid, Access!None
<1>2. CASE said # {}
    <2>1. said \in SUBSET (1 .. Len(logCopy)) /\ Len(logCopy) \in Nat
        OBVIOUS
    <2>2. \E x \in said : \A y \in said : x >= y
        <3> HIDE DEF said
        <3> QED BY <1>2, <2>1, Greatest
    <2>3. m \in said
        <3> HIDE DEF said
        <3> QED BY <2>2, Zenon DEF Access!Max
    <2>4. Access!LastSaid(p) = logCopy[m].level
        BY <1>2 DEF Access!LastSaid
    <2> HIDE DEF m
    <2>5. logCopy[m] \in Grant
        BY <2>1, <2>3, ElementOfSeq
    <2> QED BY <2>4, <2>5 DEF Grant
<1> QED BY <1>1, <1>2

LEMMA MergedAre ==
    ASSUME AccessInv
    PROVE  /\ Access!MergeLogLevels \in [Players -> Levels \cup {"none"}]
           /\ \A p \in Players : clock - rconAt[p] < RconCacheTTL =>
                 Access!MergeLogLevels[p] = levels[p]
<1>1. \A p \in Players : Access!LastSaid(p) \in Levels \cup {"none"}
    BY LastSaidIs DEF AccessInv
<1>2. levels \in [Players -> Levels \cup {"none"}]
    BY DEF AccessInv
<1>3. Access!MergeLogLevels \in [Players -> Levels \cup {"none"}]
    BY <1>1, <1>2 DEF Access!MergeLogLevels
<1>4. ASSUME NEW p \in Players, clock - rconAt[p] < RconCacheTTL
      PROVE  Access!MergeLogLevels[p] = levels[p]
    <2>1. levels[p] # "none"
        BY <1>4, AccessAre DEF AccessInv
    <2>2. clock \in Int /\ rconAt[p] \in Int
        BY AccessAre DEF AccessInv, Stamps
    <2>3. ~ Access!LogSyncAllowed(p)
        BY <1>4, <2>2, AccessAre DEF Access!LogSyncAllowed
    <2> QED BY <2>1, <2>3 DEF Access!MergeLogLevels, Access!None
<1> QED BY <1>3, <1>4

\* The game obeys: its log grows.
LEMMA ObeyedIs ==
    ASSUME AccessInv, NEW p \in Players, NEW level \in Levels, Access!Obeyed(p, level)
    PROVE  /\ gameLevel' \in [Players -> Levels] /\ gameLog' \in Seq(Grant)
           /\ Len(logCopy) <= Len(gameLog')
           /\ \A i \in 1 .. Len(logCopy) : logCopy[i] = gameLog'[i]
           /\ grants' \in [sets : 0 .. MaxGrants, dies : 0 .. MaxAccessDies]
<1> DEFINE g == [who |-> p, level |-> level]
<1>1. g \in Grant
    BY DEF Grant
<1>2. gameLog' = Append(gameLog, g) /\ gameLog \in Seq(Grant)
    BY DEF Access!Obeyed, AccessInv
<1> HIDE DEF g
<1>3. /\ gameLog' \in Seq(Grant) /\ Len(gameLog') = Len(gameLog) + 1
      /\ \A i \in 1 .. Len(gameLog) : gameLog'[i] = gameLog[i]
    BY <1>1, <1>2, AppendProperties
<1>4. Len(logCopy) \in Nat /\ Len(gameLog) \in Nat
    BY LenProperties DEF AccessInv
<1>5. grants' \in [sets : 0 .. MaxGrants, dies : 0 .. MaxAccessDies]
    <2>1. grants.sets \in 0 .. MaxGrants /\ grants.sets < MaxGrants
        BY DEF Access!Obeyed, AccessInv
    <2>2. grants.sets + 1 \in 0 .. MaxGrants
        BY <2>1, AccessAre
    <2> QED BY <2>2 DEF Access!Obeyed, AccessInv
<1>6. gameLevel' \in [Players -> Levels]
    BY DEF Access!Obeyed, AccessInv
<1> QED BY <1>3, <1>4, <1>5, <1>6 DEF AccessInv

LEMMA AccessStep == AccessInv /\ [Access!AccessNext]_accessVars => AccessInv'
<1> SUFFICES ASSUME AccessInv, [Access!AccessNext]_accessVars PROVE AccessInv'
    OBVIOUS
<1>1. CASE Access!Ticks
    <2>1. clock' = clock + 1 /\ clock \in 0 .. MaxClock /\ clock < MaxClock
        BY <1>1 DEF Access!Ticks, AccessInv
    <2>2. clock' \in 0 .. MaxClock /\ \A t \in Stamps : t \in Stamps'
        BY <2>1, AccessAre DEF Stamps, Access!Never
    <2>3. ASSUME NEW p \in Players, clock' - rconAt[p] < RconCacheTTL
          PROVE  clock - rconAt[p] < RconCacheTTL
        <3>1. rconAt[p] \in Int
            BY AccessAre DEF AccessInv, Stamps
        <3> QED BY <2>1, <2>3, <3>1, AccessAre
    <2>4. rconAt' \in [Players -> Stamps']
        BY <1>1, <2>2 DEF Access!Ticks, AccessInv
    <2>5. syncedAt' \in Stamps'
        BY <1>1, <2>2 DEF Access!Ticks, AccessInv
    <2> QED BY <1>1, <2>2, <2>3, <2>4, <2>5 DEF Access!Ticks, AccessInv
<1>2. CASE Access!PullLogs
    BY <1>2 DEF Access!PullLogs, AccessInv, Stamps
<1>3. CASE Access!EnrichPlayers
    <2>1. syncedAt' \in Stamps'
        BY <1>3, AccessAre DEF Access!EnrichPlayers, AccessInv, Stamps
    <2> QED BY <1>3, <2>1, MergedAre DEF Access!EnrichPlayers, AccessInv, Stamps
<1>4. CASE Access!AccessPanelDies
    <2>1. levelFile' \in [Players -> Levels \cup {"none"}] /\ levels' = levelFile'
        BY <1>4 DEF Access!AccessPanelDies, Access!Empty, Access!None, AccessInv
    <2>2. /\ rconAt' = [p \in Players |-> Access!Never]
          /\ told' = [p \in Players |-> "none"] /\ clock' = clock
        BY <1>4 DEF Access!AccessPanelDies, Access!Empty, Access!None
    <2>3. \A p \in Players : ~ (clock' - rconAt'[p] < RconCacheTTL)
        BY <2>2, AccessAre DEF AccessInv
    <2>4. grants' \in [sets : 0 .. MaxGrants, dies : 0 .. MaxAccessDies]
        <3>1. grants.dies \in 0 .. MaxAccessDies /\ grants.dies < MaxAccessDies
            BY <1>4 DEF Access!AccessPanelDies, AccessInv
        <3>2. grants.dies + 1 \in 0 .. MaxAccessDies
            BY <3>1, AccessAre
        <3> QED BY <1>4, <3>2 DEF Access!AccessPanelDies, AccessInv
    <2> QED BY <1>4, <2>1, <2>2, <2>3, <2>4 DEF Access!AccessPanelDies, AccessInv, Stamps
<1>5. ASSUME NEW p \in Players, NEW level \in Levels, Access!SetInGame(p, level)
      PROVE  AccessInv'
    <2>1. Access!Obeyed(p, level)
        BY <1>5 DEF Access!SetInGame
    <2> QED BY <1>5, <2>1, ObeyedIs DEF Access!SetInGame, AccessInv, Stamps
<1>6. ASSUME NEW p \in Players, NEW level \in Levels, Access!RconAnswers(p, level)
      PROVE  AccessInv'
    <2>1. answered' \subseteq Grant
        BY <1>6 DEF Access!RconAnswers, AccessInv, Grant
    <2>2. CASE Access!Obeyed(p, level)
        BY <1>6, <2>1, <2>2, ObeyedIs DEF Access!RconAnswers, AccessInv, Stamps
    <2>3. CASE Access!Refused
        <3>1. grants.sets \in 0 .. MaxGrants /\ grants.sets < MaxGrants
            BY <2>3 DEF Access!Refused, AccessInv
        <3>2. grants.sets + 1 \in 0 .. MaxGrants
            BY <3>1, AccessAre
        <3>3. grants' \in [sets : 0 .. MaxGrants, dies : 0 .. MaxAccessDies]
            BY <2>3, <3>2 DEF Access!Refused, AccessInv
        <3> QED BY <1>6, <2>1, <2>3, <3>3
                DEF Access!RconAnswers, Access!Refused, AccessInv, Stamps
    <2> QED BY <1>6, <2>2, <2>3 DEF Access!RconAnswers
<1>7. ASSUME NEW c \in answered, Access!RecordLevel(c)
      PROVE  AccessInv'
    <2>1. c.who \in Players /\ c.level \in Levels
        BY DEF AccessInv, Grant
    <2>2. /\ levels' \in [Players -> Levels \cup {"none"}] /\ levelFile' = levels'
          /\ told' \in [Players -> Levels \cup {"none"}]
          /\ rconAt' \in [Players -> Stamps'] /\ answered' \subseteq Grant
        BY <1>7, <2>1, AccessAre DEF Access!RecordLevel, AccessInv, Stamps
    <2>3. ASSUME NEW p \in Players, clock' - rconAt'[p] < RconCacheTTL
          PROVE  told'[p] \in Levels /\ levels'[p] = told'[p]
        BY <1>7, <2>1, <2>3 DEF Access!RecordLevel, AccessInv
    <2> QED BY <1>7, <2>2, <2>3 DEF Access!RecordLevel, AccessInv, Stamps
<1>8. ASSUME NEW c \in answered, Access!RecordElsewhere(c)
      PROVE  AccessInv'
    BY <1>8 DEF Access!RecordElsewhere, AccessInv, Stamps
<1>9. CASE UNCHANGED accessVars
    BY <1>9 DEF accessVars, AccessInv, Stamps
<1> QED BY <1>1, <1>2, <1>3, <1>4, <1>5, <1>6, <1>7, <1>8, <1>9 DEF Access!AccessNext

LEMMA AccessTypes == AccessInv => Access!AccessTypeOK
<1> SUFFICES ASSUME AccessInv PROVE Access!AccessTypeOK
    OBVIOUS
<1>1. SubSeq(logCopy, 1, Len(logCopy)) = SubSeq(gameLog, 1, Len(logCopy))
    BY DEF AccessInv
<1>2. Len(logCopy) <= Len(gameLog) /\ logCopy = SubSeq(gameLog, 1, Len(logCopy))
    BY <1>1 DEF AccessInv
<1> QED BY <1>2 DEF AccessInv, Access!AccessTypeOK, Access!None, Stamps, Grant

(***************************************************************************)
(* A level that was taken down stands for RCON_CACHE_TTL: no log, however  *)
(* old or new, and no order of the answers changes what the panel shows,   *)
(* for every set of players and levels and every two spans.                *)
(***************************************************************************)
THEOREM GrantsStand == PartsSpec => []FreshGrantStands
<1>1. AccessInv => FreshGrantStands
    BY AccessAre DEF AccessInv, FreshGrantStands, Access!FreshGrantStands, Access!Shown,
                     Access!None
<1> QED BY <1>1, AccessOnly, AccessInitially, AccessStep, PTL DEF PartsSpec
-----------------------------------------------------------------------------

(***************************************************************************)
(* The scheduler.  What ran for the minute of the clock is stamped with    *)
(* it, unless it is under way, in which case the loop does not ask again;  *)
(* a new task has a new id, and so has no runs.                            *)
(***************************************************************************)

SchedTask == [id : Sched!TaskIds, on : BOOLEAN, cron : Crons, last : 0 .. minute]
Numbered(id) == id <= Cardinality(SeedTasks) + adds

\* Nothing that ran for this minute can come up again: it is the run under way,
\* or its task is stamped.
Stamped(r) ==
    \/ r = [id |-> loop.busy, at |-> loop.at]
    \/ \A t \in Sched!Stored : t.id = r.id => t.last = minute

SchedInv ==
    /\ minute \in 1 .. MaxMinute
    /\ taskFile \subseteq SchedTask
    /\ \A t, u \in taskFile : t.id = u.id => t = u
    /\ loop \in [at : 0 .. minute, queue : SUBSET Sched!TaskIds, busy : {0} \cup Sched!TaskIds]
    /\ loop.queue = {} /\ loop.busy = 0 => loop = Sched!Asleep
    /\ manual \subseteq Sched!TaskIds
    /\ ran \subseteq [id : Sched!TaskIds, at : 1 .. minute]
    /\ adds \in 0 .. MaxAdds /\ schedDies \in 0 .. MaxSchedDies
    /\ \A t \in taskFile : Numbered(t.id)
    /\ \A id \in loop.queue : Numbered(id)
    /\ loop.queue # {} \/ loop.busy # 0 => loop.at # 0
    /\ \A r \in ran : Numbered(r.id) /\ (r.at = minute => Stamped(r))
    /\ \A id \in loop.queue : [id |-> id, at |-> loop.at] \notin ran

LEMMA SchedOnly == [PartsNext]_<<part, vars, schedVars, monVars, deployVars, jobVars, upVars,
                        localVars, busVars, accessVars, chunkVars, slotVars>>
                    => [Sched!SchedNext]_schedVars
BY DEF PartsNext

LEMMA SchedAre ==
    /\ Cardinality(SeedTasks) \in Nat
    /\ Sched!TaskIds = 1 .. Cardinality(SeedTasks) + MaxAdds
    /\ SeedTasks \subseteq [id : 1 .. Cardinality(SeedTasks), on : BOOLEAN, cron : Crons,
                            last : {0}]
    /\ \A t, u \in SeedTasks : t.id = u.id => t = u
    /\ MaxMinute \in Nat \ {0} /\ MaxAdds \in Nat /\ MaxSchedDies \in Nat
<1>1. \A S : Sched!Cardinality(S) = Cardinality(S)
    BY DEF Sched!Cardinality, Cardinality
<1>2. Cardinality(SeedTasks) \in Nat
    BY FS_CardinalityType, PartsAssumption
<1> QED BY <1>1, <1>2, PartsAssumption DEF Sched!TaskIds

LEMMA SchedInitially == PartsInit => SchedInv
<1> SUFFICES ASSUME PartsInit PROVE SchedInv
    OBVIOUS
<1>1. /\ minute = 1 /\ taskFile = {} /\ loop = Sched!Asleep /\ manual = {} /\ ran = {}
      /\ adds = 0 /\ schedDies = 0
    BY DEF PartsInit, Sched!SchedInit
<1>2. Sched!Asleep \in [at : 0 .. minute, queue : SUBSET Sched!TaskIds,
                        busy : {0} \cup Sched!TaskIds]
    BY <1>1 DEF Sched!Asleep
<1> QED BY <1>1, <1>2, SchedAre DEF SchedInv, Sched!Asleep

\* The list as it is loaded.
LEMMA StoredIs ==
    ASSUME SchedInv
    PROVE  /\ Sched!Stored \subseteq SchedTask
           /\ \A t, u \in Sched!Stored : t.id = u.id => t = u
           /\ \A t \in Sched!Stored : Numbered(t.id)
<1>1. CASE taskFile = {}
    <2>1. Sched!Stored = SeedTasks
        BY <1>1 DEF Sched!Stored
    <2>2. ASSUME NEW t \in SeedTasks
          PROVE  t \in SchedTask /\ Numbered(t.id)
        <3>1. /\ t \in [id : 1 .. Cardinality(SeedTasks), on : BOOLEAN, cron : Crons, last : {0}]
              /\ adds \in Nat /\ minute \in Nat
            BY SchedAre DEF SchedInv
        <3> QED BY <3>1, SchedAre DEF SchedTask, Numbered
    <2> QED BY <2>1, <2>2, SchedAre
<1>2. CASE taskFile # {}
    BY <1>2 DEF Sched!Stored, SchedInv
<1> QED BY <1>1, <1>2

\* A list in the place of the one that was loaded, each task of which is one of
\* that list, with any fields but its id and with its stamp or today's.
LEMMA Relisted ==
    ASSUME SchedInv,
           UNCHANGED <<minute, loop, ran, adds, schedDies>>,
           manual' \subseteq Sched!TaskIds,
           taskFile' \subseteq SchedTask,
           \A t, u \in taskFile' : t.id = u.id => t = u,
           taskFile' # {},
           \A t \in taskFile' :
              \E s \in Sched!Stored : t.id = s.id /\ t.last \in {s.last, minute}
    PROVE  SchedInv'
<1>1. \A t \in taskFile' : Numbered(t.id)
    BY StoredIs
<1>2. (Sched!Stored)' = taskFile'
    BY DEF Sched!Stored
<1>3. ASSUME NEW r \in ran, Stamped(r)
      PROVE  Stamped(r)'
    <2>1. CASE r = [id |-> loop.busy, at |-> loop.at]
        BY <2>1 DEF Stamped
    <2>2. CASE \A t \in Sched!Stored : t.id = r.id => t.last = minute
        BY <1>2, <2>2 DEF Stamped
    <2> QED BY <1>3, <2>1, <2>2 DEF Stamped
<1>4. SchedTask' = SchedTask /\ \A id : Numbered(id)' = Numbered(id)
    BY DEF SchedTask, Numbered
<1> QED BY <1>1, <1>3, <1>4 DEF SchedInv

LEMMA ChangedIs ==
    ASSUME SchedInv, NEW id \in Sched!TaskIds
    PROVE  /\ Sched!Marked(id) = {IF t.id = id THEN [t EXCEPT !.last = minute] ELSE t :
                                    t \in Sched!Stored}
           /\ Sched!Marked(id) \subseteq SchedTask
           /\ \A t, u \in Sched!Marked(id) : t.id = u.id => t = u
           /\ \A t \in Sched!Marked(id) :
                 /\ \E s \in Sched!Stored : t.id = s.id /\ t.last \in {s.last, minute}
                 /\ t.id = id => t.last = minute
           /\ Sched!Stored # {} => Sched!Marked(id) # {}
<1> DEFINE f(t) == IF t.id = id THEN [t EXCEPT !.last = minute] ELSE t
<1>1. Sched!Marked(id) = {f(t) : t \in Sched!Stored}
    BY DEF Sched!Marked, Sched!Changed
<1>2. minute \in 1 .. MaxMinute /\ minute \in 0 .. minute
    BY SchedAre DEF SchedInv
<1>3. ASSUME NEW t \in Sched!Stored
      PROVE  /\ f(t) \in SchedTask /\ f(t).id = t.id /\ f(t).last \in {t.last, minute}
             /\ t.id = id => f(t).last = minute
    <2>1. t \in SchedTask
        BY StoredIs
    <2> QED BY <1>2, <2>1 DEF SchedTask
<1>4. \A t, u \in Sched!Stored : t.id = u.id => t = u
    BY StoredIs
<1> HIDE DEF f
<1>5. Sched!Marked(id) \subseteq SchedTask
    BY <1>1, <1>3
<1>6. \A t, u \in Sched!Marked(id) : t.id = u.id => t = u
    BY <1>1, <1>3, <1>4
<1>7. \A t \in Sched!Marked(id) :
          /\ \E s \in Sched!Stored : t.id = s.id /\ t.last \in {s.last, minute}
          /\ t.id = id => t.last = minute
    BY <1>1, <1>3
<1>8. Sched!Stored # {} => Sched!Marked(id) # {}
    BY <1>1
<1> QED BY <1>1, <1>5, <1>6, <1>7, <1>8 DEF f

\* Nothing to mark, nothing to change.
LEMMA NothingStored ==
    ASSUME SchedInv, Sched!Stored = {}, taskFile' = {},
           UNCHANGED <<minute, loop, ran, adds, schedDies>>,
           manual' \subseteq Sched!TaskIds
    PROVE  SchedInv'
BY DEF SchedInv, Sched!Stored, Stamped, Numbered, SchedTask

LEMMA SchedMinute == SchedInv /\ Sched!Minute => SchedInv'
<1> SUFFICES ASSUME SchedInv, Sched!Minute PROVE SchedInv'
    OBVIOUS
<1>1. /\ minute \in Nat /\ minute' = minute + 1 /\ minute < MaxMinute /\ MaxMinute \in Nat
      /\ UNCHANGED <<taskFile, loop, manual, ran, adds, schedDies>>
    BY SchedAre DEF SchedInv, Sched!Minute
<1>2. 0 .. minute \subseteq 0 .. minute' /\ 1 .. minute \subseteq 1 .. minute'
    BY <1>1
<1>3. SchedTask \subseteq SchedTask'
    BY <1>2 DEF SchedTask
<1>4. ASSUME NEW r \in ran
      PROVE  r \in [id : Sched!TaskIds, at : 1 .. minute'] /\ r.at # minute'
    <2>1. r \in [id : Sched!TaskIds, at : 1 .. minute]
        BY DEF SchedInv
    <2>2. r.at \in 1 .. minute
        BY <2>1
    <2> QED BY <1>1, <1>2, <2>1, <2>2
<1>5. loop \in [at : 0 .. minute', queue : SUBSET Sched!TaskIds, busy : {0} \cup Sched!TaskIds]
    BY <1>2 DEF SchedInv
<1>6. minute' \in 1 .. MaxMinute
    BY <1>1
<1> QED BY <1>1, <1>3, <1>4, <1>5, <1>6 DEF SchedInv, Numbered

LEMMA SchedCreate ==
    ASSUME SchedInv, NEW on \in BOOLEAN, NEW cron \in Crons, Sched!CreateTask(on, cron)
    PROVE  SchedInv'
<1> DEFINE new == [id |-> Cardinality(SeedTasks) + adds + 1, on |-> on, cron |-> cron, last |-> 0]
<1>0. \A S : Sched!Cardinality(S) = Cardinality(S)
    BY DEF Sched!Cardinality, Cardinality
<1>1. /\ adds \in Nat /\ adds < MaxAdds /\ adds' = adds + 1
      /\ taskFile' = Sched!Stored \cup {new}
      /\ UNCHANGED <<minute, loop, manual, ran, schedDies>>
    BY <1>0, SchedAre DEF SchedInv, Sched!CreateTask
<1>2. minute \in Nat /\ 0 \in 0 .. minute
    BY SchedAre DEF SchedInv
<1>3. /\ new.id \in Sched!TaskIds /\ ~ Numbered(new.id)
      /\ \A id : id = new.id => Numbered(id)'
    <2>1. new.id = Cardinality(SeedTasks) + adds + 1
        OBVIOUS
    <2> HIDE DEF new
    <2> QED BY <1>1, <2>1, SchedAre DEF Numbered
<1>4. new \in SchedTask
    BY <1>2, <1>3 DEF SchedTask
<1>5. \A id \in Sched!TaskIds : Numbered(id) => Numbered(id)'
    BY <1>1, SchedAre DEF Numbered
<1>6. \A t \in Sched!Stored : t.id \in Sched!TaskIds
    BY StoredIs DEF SchedTask
<1>7. adds' \in 0 .. MaxAdds
    BY <1>1, SchedAre
<1> HIDE DEF new
<1>8. (Sched!Stored)' = Sched!Stored \cup {new}
    BY <1>1 DEF Sched!Stored
<1>9. ASSUME NEW r \in ran
      PROVE  Numbered(r.id)' /\ (r.at = minute' => Stamped(r)')
    <2>1. r.id \in Sched!TaskIds /\ Numbered(r.id) /\ (r.at = minute => Stamped(r))
        BY DEF SchedInv
    <2>2. r.id # new.id
        BY <1>3, <2>1
    <2> QED BY <1>1, <1>5, <1>8, <2>1, <2>2 DEF Stamped
<1>10. ASSUME NEW t \in taskFile'
       PROVE  t \in SchedTask /\ Numbered(t.id)'
    <2>1. CASE t = new
        BY <1>3, <1>4, <2>1
    <2>2. CASE t \in Sched!Stored
        BY <1>5, <1>6, <2>2, StoredIs
    <2> QED BY <1>1, <2>1, <2>2
<1>11. \A t, u \in taskFile' : t.id = u.id => t = u
    BY <1>1, <1>3, StoredIs
<1>12. SchedTask' = SchedTask
    BY <1>1 DEF SchedTask
<1>13. \A id \in loop'.queue : Numbered(id)' /\ [id |-> id, at |-> loop'.at] \notin ran'
    BY <1>1, <1>5 DEF SchedInv
<1> QED BY <1>1, <1>7, <1>9, <1>10, <1>11, <1>12, <1>13 DEF SchedInv

LEMMA SchedPatch ==
    ASSUME SchedInv, NEW id \in Sched!TaskIds, NEW on \in BOOLEAN, NEW cron \in Crons,
           Sched!PatchTask(id, on, cron)
    PROVE  SchedInv'
<1> DEFINE f(t) == IF t.id = id THEN [t EXCEPT !.on = on, !.cron = cron] ELSE t
<1>1. /\ taskFile' = {f(t) : t \in Sched!Stored}
      /\ UNCHANGED <<minute, loop, manual, ran, adds, schedDies>>
      /\ Sched!Stored # {}
    BY DEF Sched!PatchTask, Sched!Changed, Sched!Has
<1>2. ASSUME NEW t \in Sched!Stored
      PROVE  f(t) \in SchedTask /\ f(t).id = t.id /\ f(t).last = t.last
    <2>1. t \in SchedTask
        BY StoredIs
    <2> QED BY <2>1 DEF SchedTask
<1> HIDE DEF f
<1>3. /\ taskFile' \subseteq SchedTask /\ taskFile' # {}
      /\ \A t \in taskFile' : \E s \in Sched!Stored : t.id = s.id /\ t.last \in {s.last, minute}
    BY <1>1, <1>2
<1>4. \A t, u \in taskFile' : t.id = u.id => t = u
    BY <1>1, <1>2, StoredIs
<1>5. manual' \subseteq Sched!TaskIds
    BY <1>1 DEF SchedInv
<1> QED BY <1>1, <1>3, <1>4, <1>5, Relisted

\* A list that is emptied is the default list again, and the runs of its tasks
\* are forgotten.
LEMMA Emptied ==
    ASSUME SchedInv, taskFile' = {}, UNCHANGED <<minute, adds>>,
           ran' = Sched!Forget(ran), manual' \subseteq Sched!TaskIds,
           schedDies' \in 0 .. MaxSchedDies, loop' \in {loop, Sched!Asleep}
    PROVE  SchedInv'
<1>1. (Sched!Stored)' = SeedTasks
    BY DEF Sched!Stored
<1>2. ran' \subseteq ran /\ \A r \in ran' : \A t \in SeedTasks : t.id # r.id
    BY DEF Sched!Forget, Sched!Has
<1>3. \A r \in ran' : Stamped(r)'
    BY <1>1, <1>2 DEF Stamped
<1>4. \A id : Numbered(id)' = Numbered(id)
    BY DEF Numbered
<1>5. CASE loop' = loop
    BY <1>2, <1>3, <1>4, <1>5 DEF SchedInv
<1>6. CASE loop' = Sched!Asleep
    <2>1. minute \in Nat
        BY SchedAre DEF SchedInv
    <2>2. loop' = [at |-> 0, queue |-> {}, busy |-> 0]
        BY <1>6 DEF Sched!Asleep
    <2>3. loop' \in [at : 0 .. minute, queue : SUBSET Sched!TaskIds, busy : {0} \cup Sched!TaskIds]
        BY <2>1, <2>2
    <2> QED BY <1>2, <1>3, <1>4, <1>6, <2>2, <2>3 DEF SchedInv, Sched!Asleep
<1> QED BY <1>5, <1>6

LEMMA SchedDelete ==
    ASSUME SchedInv, NEW id \in Sched!TaskIds, Sched!DeleteTask(id)
    PROVE  SchedInv'
<1>1. /\ taskFile' = {t \in Sched!Stored : t.id # id}
      /\ ran' = IF taskFile' = {} THEN Sched!Forget(ran) ELSE ran
      /\ UNCHANGED <<minute, loop, manual, adds, schedDies>>
    BY DEF Sched!DeleteTask
<1>2. manual' \subseteq Sched!TaskIds /\ schedDies' \in 0 .. MaxSchedDies
    BY <1>1 DEF SchedInv
<1>3. CASE taskFile' = {}
    BY <1>1, <1>2, <1>3, Emptied
<1>4. CASE taskFile' # {}
    <2>1. /\ taskFile' \subseteq SchedTask
          /\ \A t, u \in taskFile' : t.id = u.id => t = u
          /\ \A t \in taskFile' : \E s \in Sched!Stored : t.id = s.id /\ t.last \in {s.last, minute}
        BY <1>1, StoredIs
    <2>2. ran' = ran
        BY <1>1, <1>4
    <2> QED BY <1>1, <1>2, <1>4, <2>1, <2>2, Relisted
<1> QED BY <1>3, <1>4

LEMMA SchedByHand ==
    ASSUME SchedInv, NEW id \in Sched!TaskIds, Sched!RunNow(id) \/ Sched!RunNowDone(id)
    PROVE  SchedInv'
<1>1. CASE Sched!RunNow(id)
    <2>1. /\ taskFile' = Sched!Stored /\ taskFile' # {}
          /\ UNCHANGED <<minute, loop, ran, adds, schedDies>>
          /\ manual' \subseteq Sched!TaskIds
        BY <1>1 DEF SchedInv, Sched!RunNow, Sched!Has
    <2>2. \A t \in taskFile' : \E s \in Sched!Stored : t.id = s.id /\ t.last \in {s.last, minute}
        BY <2>1
    <2> QED BY <2>1, <2>2, StoredIs, Relisted
<1>2. CASE Sched!RunNowDone(id)
    <2>1. /\ taskFile' = Sched!Marked(id)
          /\ UNCHANGED <<minute, loop, ran, adds, schedDies>>
          /\ manual' \subseteq Sched!TaskIds
        BY <1>2 DEF SchedInv, Sched!RunNowDone
    <2>2. CASE Sched!Stored = {}
        <3>1. taskFile' = {}
            BY <2>1, <2>2, ChangedIs
        <3> QED BY <2>1, <2>2, <3>1, NothingStored
    <2>3. CASE Sched!Stored # {}
        <3>1. taskFile' # {}
            BY <2>1, <2>3, ChangedIs
        <3> QED BY <2>1, <3>1, ChangedIs, Relisted
    <2> QED BY <2>2, <2>3
<1> QED BY <1>1, <1>2

LEMMA SchedWakes == SchedInv /\ Sched!LoopWakes => SchedInv'
<1> SUFFICES ASSUME SchedInv, Sched!LoopWakes PROVE SchedInv'
    OBVIOUS
<1> DEFINE due == {t \in Sched!Stored : Sched!Due(t)}
           round == [at |-> minute, queue |-> {t.id : t \in due}, busy |-> 0]
<1>1. /\ loop = Sched!Asleep /\ taskFile' = Sched!Stored
      /\ loop' = IF Sched!Raises \/ due = {} THEN Sched!Asleep ELSE round
      /\ UNCHANGED <<minute, manual, ran, adds, schedDies>>
    BY DEF Sched!LoopWakes
<1>2. (Sched!Stored)' = Sched!Stored
    BY <1>1 DEF Sched!Stored
<1>3. minute \in Nat \ {0} /\ 0 \notin Sched!TaskIds
    BY SchedAre DEF SchedInv
<1>4. \A id : Numbered(id)' = Numbered(id)
    BY <1>1 DEF Numbered
<1>5. ASSUME NEW r \in ran, r.at = minute
      PROVE  \A t \in Sched!Stored : t.id = r.id => t.last = minute
    <2>1. r # [id |-> loop.busy, at |-> loop.at]
        BY <1>1, <1>3 DEF SchedInv, Sched!Asleep
    <2> QED BY <1>5, <2>1 DEF SchedInv, Stamped
<1>6. \A r \in ran : Numbered(r.id)' /\ (r.at = minute => Stamped(r)')
    BY <1>1, <1>2, <1>4, <1>5 DEF SchedInv, Stamped
<1>7. SchedTask' = SchedTask
    BY <1>1 DEF SchedTask
<1>8. /\ taskFile' \subseteq SchedTask
      /\ \A t, u \in taskFile' : t.id = u.id => t = u
      /\ \A t \in taskFile' : Numbered(t.id)
    BY <1>1, StoredIs
<1>9. \A t \in due : t.id \in Sched!TaskIds /\ Numbered(t.id) /\ t.last # minute
    BY StoredIs DEF SchedTask, Sched!Due
<1>10. CASE loop' = Sched!Asleep
    BY <1>1, <1>4, <1>6, <1>7, <1>8, <1>10 DEF SchedInv, Sched!Asleep
<1>11. CASE loop' = round /\ due # {}
    <2> HIDE DEF due
    <2>1. loop'.at = minute /\ loop'.queue = {t.id : t \in due} /\ loop'.busy = 0
        BY <1>11
    <2>2. loop'.queue \in SUBSET Sched!TaskIds /\ loop'.queue # {}
        BY <1>9, <1>11, <2>1
    <2>3. minute \in 0 .. minute
        BY <1>3
    <2>4. loop' \in [at : 0 .. minute, queue : SUBSET Sched!TaskIds, busy : {0} \cup Sched!TaskIds]
        BY <1>11, <2>1, <2>2, <2>3
    <2>5. \A id \in loop'.queue : Numbered(id)
        BY <1>9, <2>1
    <2>6. ASSUME NEW t \in due
          PROVE  [id |-> t.id, at |-> minute] \notin ran
        <3>1. t \in Sched!Stored
            BY DEF due
        <3> QED BY <1>5, <1>9, <3>1
    <2>7. \A id \in loop'.queue : [id |-> id, at |-> loop'.at] \notin ran'
        BY <1>1, <2>1, <2>6
    <2> QED BY <1>1, <1>3, <1>4, <1>6, <1>7, <1>8, <2>1, <2>2, <2>4, <2>5, <2>7 DEF SchedInv
<1> QED BY <1>1, <1>10, <1>11

LEMMA SchedSends ==
    ASSUME SchedInv, NEW id \in loop.queue, Sched!LoopSends(id)
    PROVE  SchedInv'
<1> DEFINE run == [id |-> id, at |-> loop.at]
<1>1. /\ loop.busy = 0
      /\ loop' = [loop EXCEPT !.busy = id, !.queue = @ \ {id}]
      /\ ran' = ran \cup {run}
      /\ UNCHANGED <<minute, taskFile, manual, adds, schedDies>>
    BY DEF Sched!LoopSends
<1>2. /\ id \in Sched!TaskIds /\ Numbered(id) /\ loop.at \in 0 .. minute /\ loop.at # 0
      /\ minute \in Nat /\ 0 \notin Sched!TaskIds
    BY SchedAre DEF SchedInv
<1>3. /\ loop' \in [at : 0 .. minute, queue : SUBSET Sched!TaskIds, busy : {0} \cup Sched!TaskIds]
      /\ loop'.busy = id /\ loop'.queue = loop.queue \ {id} /\ loop'.at = loop.at
    BY <1>1, <1>2 DEF SchedInv
<1>4. loop.at \in 1 .. minute
    BY <1>2
<1>5. run \in [id : Sched!TaskIds, at : 1 .. minute]
    BY <1>2, <1>4
<1>6. /\ (Sched!Stored)' = Sched!Stored /\ SchedTask' = SchedTask
      /\ \A i : Numbered(i)' = Numbered(i)
    BY <1>1 DEF Sched!Stored, SchedTask, Numbered
<1>7. ASSUME NEW r \in ran
      PROVE  Numbered(r.id)' /\ (r.at = minute => Stamped(r)')
    <2>1. r.id \in Sched!TaskIds
        BY DEF SchedInv
    <2>2. r # [id |-> loop.busy, at |-> loop.at]
        BY <1>1, <1>2, <2>1
    <2> QED BY <1>1, <1>6, <2>2 DEF SchedInv, Stamped
<1>8. \A r : r = run => Numbered(r.id)' /\ Stamped(r)'
    BY <1>2, <1>3, <1>6 DEF Stamped
<1>9. \A i \in loop'.queue : [id |-> i, at |-> loop'.at] \notin ran' /\ Numbered(i)'
    BY <1>1, <1>3, <1>6 DEF SchedInv
<1>10. id # 0
    BY <1>2
<1> HIDE DEF run
<1>11. ran' \subseteq [id : Sched!TaskIds, at : 1 .. minute]
    BY <1>1, <1>5 DEF SchedInv
<1>12. \A r \in ran' : Numbered(r.id)' /\ (r.at = minute' => Stamped(r)')
    <2> SUFFICES ASSUME NEW r \in ran'
                 PROVE  Numbered(r.id)' /\ (r.at = minute' => Stamped(r)')
        OBVIOUS
    <2>1. CASE r = run
        BY <1>8, <2>1
    <2>2. CASE r \in ran
        BY <1>1, <1>7, <2>2
    <2> QED BY <1>1, <2>1, <2>2
<1> QED BY <1>1, <1>2, <1>3, <1>6, <1>9, <1>10, <1>11, <1>12 DEF SchedInv

LEMMA SchedMarks == SchedInv /\ Sched!LoopMarks => SchedInv'
<1> SUFFICES ASSUME SchedInv, Sched!LoopMarks PROVE SchedInv'
    OBVIOUS
<1>1. /\ loop.busy # 0 /\ taskFile' = Sched!Marked(loop.busy)
      /\ loop' = IF loop.queue = {} THEN Sched!Asleep ELSE [loop EXCEPT !.busy = 0]
      /\ UNCHANGED <<minute, manual, ran, adds, schedDies>>
    BY DEF Sched!LoopMarks, Sched!RoundGoesOn
<1>2. loop.busy \in Sched!TaskIds /\ minute \in Nat /\ loop.at # 0
    BY <1>1, SchedAre DEF SchedInv
<1>3. /\ loop' \in [at : 0 .. minute, queue : SUBSET Sched!TaskIds, busy : {0} \cup Sched!TaskIds]
      /\ loop'.busy = 0 /\ loop'.queue = loop.queue
      /\ loop.queue # {} => loop'.at = loop.at
      /\ loop.queue = {} => loop' = Sched!Asleep
    BY <1>1, <1>2 DEF SchedInv, Sched!Asleep
<1>4. SchedTask' = SchedTask /\ \A id : Numbered(id)' = Numbered(id)
    BY <1>1 DEF SchedTask, Numbered
<1>5. /\ taskFile' \subseteq SchedTask
      /\ \A t, u \in taskFile' : t.id = u.id => t = u
      /\ \A t \in taskFile' : Numbered(t.id)
    BY <1>1, <1>2, ChangedIs, StoredIs
<1>6. ASSUME NEW t \in (Sched!Stored)'
      PROVE  /\ \E s \in Sched!Stored : t.id = s.id /\ t.last \in {s.last, minute}
             /\ t.id = loop.busy => t.last = minute
    <2>1. CASE taskFile' = {}
        <3>1. Sched!Stored = {}
            BY <1>1, <1>2, <2>1, ChangedIs
        <3>2. SeedTasks = {} /\ (Sched!Stored)' = SeedTasks
            BY <2>1, <3>1 DEF Sched!Stored
        <3> QED BY <3>2
    <2>2. CASE taskFile' # {}
        <3>1. t \in Sched!Marked(loop.busy)
            BY <1>1, <2>2 DEF Sched!Stored
        <3> QED BY <1>2, <3>1, ChangedIs
    <2> QED BY <2>1, <2>2
<1>7. ASSUME NEW r \in ran, r.at = minute
      PROVE  Stamped(r)'
    <2>1. Stamped(r)
        BY <1>7 DEF SchedInv
    <2>2. CASE r = [id |-> loop.busy, at |-> loop.at]
        <3>1. r.id = loop.busy
            BY <2>2
        <3> QED BY <1>1, <1>6, <3>1 DEF Stamped
    <2>3. CASE \A t \in Sched!Stored : t.id = r.id => t.last = minute
        BY <1>1, <1>6, <2>3 DEF Stamped
    <2> QED BY <2>1, <2>2, <2>3 DEF Stamped
<1>8. \A id \in loop'.queue : [id |-> id, at |-> loop'.at] \notin ran
    BY <1>3 DEF SchedInv
<1> QED BY <1>1, <1>2, <1>3, <1>4, <1>5, <1>7, <1>8 DEF SchedInv

LEMMA SchedDiesToo == SchedInv /\ Sched!PanelDies => SchedInv'
<1> SUFFICES ASSUME SchedInv, Sched!PanelDies PROVE SchedInv'
    OBVIOUS
<1> DEFINE marked == ran \ {[id |-> loop.busy, at |-> loop.at]}
<1>1. /\ schedDies < MaxSchedDies /\ schedDies' = schedDies + 1
      /\ loop' = Sched!Asleep /\ manual' = {} /\ taskFile' \in {taskFile, {}}
      /\ ran' = IF taskFile' = {} THEN Sched!Forget(marked) ELSE marked
      /\ UNCHANGED <<minute, adds>>
    BY DEF Sched!PanelDies
<1>2. minute \in Nat /\ schedDies' \in 0 .. MaxSchedDies
    BY <1>1, SchedAre DEF SchedInv
<1>3. /\ loop' \in [at : 0 .. minute, queue : SUBSET Sched!TaskIds, busy : {0} \cup Sched!TaskIds]
      /\ loop'.queue = {} /\ loop'.busy = 0
    BY <1>1, <1>2 DEF Sched!Asleep
<1>4. SchedTask' = SchedTask /\ \A id : Numbered(id)' = Numbered(id)
    BY <1>1 DEF SchedTask, Numbered
<1>5. ran' \subseteq marked
    BY <1>1 DEF Sched!Forget
<1>6. ASSUME NEW r \in ran', r.at = minute
      PROVE  Stamped(r)'
    <2>1. r \in ran /\ \A t \in Sched!Stored : t.id = r.id => t.last = minute
        BY <1>5, <1>6 DEF SchedInv, Stamped
    <2>2. CASE taskFile' = {}
        <3>1. (Sched!Stored)' = SeedTasks /\ \A t \in SeedTasks : t.id # r.id
            BY <1>1, <2>2 DEF Sched!Stored, Sched!Forget, Sched!Has
        <3> QED BY <3>1 DEF Stamped
    <2>3. CASE taskFile' = taskFile
        BY <1>1, <2>1, <2>3 DEF Stamped, Sched!Stored
    <2> QED BY <1>1, <2>2, <2>3
<1> HIDE DEF marked
<1>7. ran' \subseteq ran
    BY <1>5 DEF marked
<1> QED BY <1>1, <1>2, <1>3, <1>4, <1>6, <1>7 DEF SchedInv

LEMMA SchedStep == SchedInv /\ [Sched!SchedNext]_schedVars => SchedInv'
<1> SUFFICES ASSUME SchedInv, [Sched!SchedNext]_schedVars PROVE SchedInv'
    OBVIOUS
<1>1. CASE UNCHANGED schedVars
    BY <1>1 DEF SchedInv, schedVars, SchedTask, Numbered, Stamped, Sched!Stored
<1>2. ASSUME NEW on \in BOOLEAN, NEW cron \in Crons, Sched!CreateTask(on, cron)
      PROVE  SchedInv'
    BY <1>2, SchedCreate
<1>3. ASSUME NEW id \in Sched!TaskIds, NEW on \in BOOLEAN, NEW cron \in Crons,
             Sched!PatchTask(id, on, cron)
      PROVE  SchedInv'
    BY <1>3, SchedPatch
<1>4. ASSUME NEW id \in Sched!TaskIds,
             Sched!DeleteTask(id) \/ Sched!RunNow(id) \/ Sched!RunNowDone(id)
      PROVE  SchedInv'
    BY <1>4, SchedDelete, SchedByHand
<1>5. ASSUME NEW id \in loop.queue, Sched!LoopSends(id)
      PROVE  SchedInv'
    BY <1>5, SchedSends
<1> QED BY <1>1, <1>2, <1>3, <1>4, <1>5, SchedMinute, SchedWakes, SchedMarks, SchedDiesToo
        DEF Sched!SchedNext

LEMMA SchedTypes == SchedInv => Sched!SchedTypeOK
BY DEF SchedInv, SchedTask, Sched!SchedTypeOK

\* The loop runs no task twice for a minute, whatever is created, changed, run by
\* hand or deleted meanwhile, and however often the panel dies (_scheduler_loop).
THEOREM TasksRunOnce == PartsSpec => []OncePerMinute
<1>1. SchedInv => OncePerMinute
    BY DEF SchedInv, OncePerMinute, Sched!OncePerMinute
<1>2. SchedInv /\ [PartsNext]_<<part, vars, schedVars, monVars, deployVars, jobVars, upVars,
                                localVars, busVars, accessVars, chunkVars, slotVars>>
        => SchedInv'
    BY SchedOnly, SchedStep
<1> QED BY <1>1, <1>2, SchedInitially, PTL DEF PartsSpec
-----------------------------------------------------------------------------

(***************************************************************************)
(* Deployments.  Of the folder in hand every file is settled, still to do, *)
(* or noted as an error, which keeps the folder out of those that are      *)
(* good; and nobody writes to a folder that is good, as none is sent       *)
(* twice.                                                                  *)
(***************************************************************************)
IniText == [ids : SUBSET Deploy!Folders, rev : -1 .. MaxUpsets]
\* A content of the ini that has been there, or none.
Known(c) == c \in IniText /\ c.rev <= tally.upsets

Request == [pc : {"idle", "build", "folder", "file", "put", "ini", "ok", "failed"},
            mode : {"none", "asis", "pack", "install"}, upd : BOOLEAN, todo : Seq(Deploy!Folders),
            files : SUBSET Contents, hand : SUBSET Contents, hash : 0 .. 2,
            moved : SUBSET {"sent", "skipped", "error"}, good : SUBSET Deploy!Folders,
            bad : BOOLEAN, ini : IniText]

\* File f of folder d is on the host, or need not be.
Settled(d, f) ==
    \/ shelf[d][f] = 0
    \/ host[d][f] = shelf[d][f]
    \/ f \in Protected /\ fileKind # "local"
    \/ <<d, f>> \in excused

Once == \A i, j \in 1 .. Len(job.todo) : job.todo[i] = job.todo[j] => i = j
Apart == \A i \in 1 .. Len(job.todo) : job.todo[i] \notin job.good

DeployInv ==
    /\ fileKind \in {"ftp", "sftp", "local"}
    /\ shelf \in [Deploy!Folders -> [Contents -> 0 .. 2]]
    /\ host \in [Deploy!Folders -> [Contents -> -1 .. 2]]
    /\ Known(ini) /\ Known(seenIni) /\ Known(job.ini)
    /\ job \in Request
    /\ excused \subseteq Deploy!Folders \X Contents
    /\ tally \in [upsets : 0 .. MaxUpsets, deploys : 0 .. MaxDeploys]
    /\ job.pc = "build" => job.good = {} /\ job.todo # <<>>
    /\ job.pc \in {"build", "folder"} => job.hand = {} /\ job.moved = {}
    /\ job.pc \in {"file", "put"} => job.todo # <<>>
    /\ job.pc = "put" => fileKind # "local" /\ \A f, g \in job.hand : f = g
    /\ job.pc \in {"build", "folder", "file", "put"} => Once /\ Apart
    /\ job.pc = "file" => job.hand = {}
    /\ job.pc \in {"file", "put"} /\ "error" \notin job.moved =>
          \A f \in Contents : Settled(Head(job.todo), f) \/ f \in job.files \cup job.hand
    /\ \A d \in job.good : \A f \in Contents : Settled(d, f)

LEMMA DeployOnly == [PartsNext]_<<part, vars, schedVars, monVars, deployVars, jobVars, upVars,
                         localVars, busVars, accessVars, chunkVars, slotVars>>
                     => [Deploy!DeployNext]_deployVars
BY DEF PartsNext

LEMMA DeployAre ==
    /\ Deploy!Folders = Mods \cup {Pack} /\ Bridge \in Mods
    /\ MaxUpsets \in Nat /\ MaxDeploys \in Nat
BY PartsAssumption DEF Deploy!Folders

LEMMA RestIs ==
    /\ Deploy!Rest \in Request /\ Deploy!Rest.good = {} /\ Deploy!Rest.todo = <<>>
    /\ Deploy!Rest.hand = {} /\ Deploy!Rest.moved = {} /\ Deploy!Rest.pc = "idle"
    /\ Deploy!Rest.ini = [ids |-> {}, rev |-> -1]
    /\ Deploy!Rest.ini \in IniText
BY DeployAre DEF Deploy!Rest, Deploy!Unseen, Request, IniText

LEMMA DeployInitially == PartsInit => DeployInv
<1> SUFFICES ASSUME PartsInit PROVE DeployInv
    OBVIOUS
<1>1. /\ fileKind \in {"ftp", "sftp", "local"}
      /\ shelf = [d \in Deploy!Folders |-> [f \in Contents |-> IF d = Pack THEN 0 ELSE 1]]
      /\ host = [d \in Deploy!Folders |-> [f \in Contents |-> 0]]
      /\ ini = [ids |-> {}, rev |-> 0] /\ seenIni = [ids |-> {}, rev |-> -1]
      /\ job = Deploy!Rest /\ excused = {} /\ tally = [upsets |-> 0, deploys |-> 0]
    BY DEF PartsInit, Deploy!DeployInit, Deploy!Unseen
<1>2. tally \in [upsets : 0 .. MaxUpsets, deploys : 0 .. MaxDeploys] /\ tally.upsets = 0
    BY <1>1, DeployAre
<1>3. Known(ini) /\ Known(seenIni) /\ Known(job.ini)
    BY <1>1, <1>2, DeployAre, RestIs DEF Known, IniText
<1>4. shelf \in [Deploy!Folders -> [Contents -> 0 .. 2]]
    BY <1>1
<1>5. host \in [Deploy!Folders -> [Contents -> -1 .. 2]]
    BY <1>1
<1> QED BY <1>1, <1>2, <1>3, <1>4, <1>5, RestIs DEF DeployInv

\* What is settled stays so in folders that nobody touches.
LEMMA SettledStays ==
    ASSUME NEW d, UNCHANGED fileKind, shelf'[d] = shelf[d], host'[d] = host[d],
           excused \subseteq excused', NEW f, Settled(d, f)
    PROVE  Settled(d, f)'
BY DEF Settled

\* The folder in hand is through, sent or not.
LEMMA RowStep ==
    ASSUME DeployInv, job.pc \in {"folder", "file", "put"}, job.todo # <<>>, NEW sent \in BOOLEAN,
           sent => \A f \in Contents : Settled(Head(job.todo), f),
           Deploy!Steps(Deploy!Row(sent))
    PROVE  DeployInv'
<1> DEFINE t == Tail(job.todo)
<1>1. job \in Request /\ Once /\ Apart
    BY DEF DeployInv
<1>2. job.todo \in Seq(Deploy!Folders)
    BY <1>1 DEF Request
<1>3. /\ Head(job.todo) \in Deploy!Folders /\ Head(job.todo) = job.todo[1] /\ Len(job.todo) \in Nat
      /\ t \in Seq(Deploy!Folders) /\ Len(t) = Len(job.todo) - 1 /\ Len(t) \in Nat
      /\ \A i \in 1 .. Len(t) : t[i] = job.todo[i + 1]
    BY <1>2, HeadTailProperties, LenProperties
<1>4. /\ job' = [job EXCEPT !.pc = "folder", !.todo = t, !.files = {}, !.hand = {}, !.moved = {},
                            !.good = IF sent THEN @ \cup {Head(job.todo)} ELSE @,
                            !.bad = @ \/ ~ sent]
      /\ UNCHANGED <<fileKind, shelf, host, ini, seenIni, excused, tally>>
    BY DEF Deploy!Steps, Deploy!Row, Deploy!Here
<1> HIDE DEF t
<1>5. /\ job'.pc = "folder" /\ job'.todo = t /\ job'.hand = {} /\ job'.moved = {}
      /\ job'.good = IF sent THEN job.good \cup {Head(job.todo)} ELSE job.good
      /\ job'.ini = job.ini
    BY <1>1, <1>4 DEF Request
<1>6. job' \in Request
    BY <1>1, <1>3, <1>4 DEF Request
<1>7. Once' /\ Apart'
    <2>1. \A i \in 1 .. Len(t) : /\ i + 1 \in 1 .. Len(job.todo) /\ i + 1 # 1
                                 /\ \A j \in 1 .. Len(t) : i + 1 = j + 1 => i = j
        BY <1>3
    <2>2. 1 \in 1 .. Len(job.todo)
        <3>1. Len(job.todo) # 0
            BY <1>2, EmptySeq
        <3> QED BY <1>3, <3>1
    <2>3. Once'
        BY <1>1, <1>3, <1>5, <2>1 DEF Once
    <2>4. \A i \in 1 .. Len(t) : t[i] # job.todo[1] /\ t[i] \notin job.good
        BY <1>1, <1>3, <2>1, <2>2 DEF Once, Apart
    <2> QED BY <1>3, <1>5, <2>3, <2>4 DEF Apart
<1>8. ASSUME NEW d \in job'.good, NEW f \in Contents
      PROVE  Settled(d, f)'
    <2>1. Settled(d, f)
        BY <1>5 DEF DeployInv
    <2> QED BY <1>4, <2>1 DEF Settled
<1> QED BY <1>4, <1>5, <1>6, <1>7, <1>8 DEF DeployInv, Known, IniText

\* Requests.
LEMMA AskedStep ==
    ASSUME DeployInv, NEW mode \in {"asis", "pack", "install"}, NEW pc \in {"build", "folder"},
           NEW todo \in Seq(Deploy!Folders), NEW upd \in BOOLEAN, todo # <<>>,
           \A i, j \in 1 .. Len(todo) : todo[i] = todo[j] => i = j,
           Deploy!Ask(mode, pc, todo, upd)
    PROVE  DeployInv'
<1>1. /\ job' = [Deploy!Rest EXCEPT !.pc = pc, !.mode = mode, !.todo = todo, !.upd = upd]
      /\ excused' = {} /\ tally' = [tally EXCEPT !.deploys = @ + 1]
      /\ tally.deploys < MaxDeploys
      /\ UNCHANGED <<fileKind, shelf, host, ini, seenIni>>
    BY DEF Deploy!Ask
<1>2. /\ job' \in Request /\ job'.pc = pc /\ job'.todo = todo /\ job'.good = {} /\ job'.hand = {}
      /\ job'.moved = {} /\ job'.ini = [ids |-> {}, rev |-> -1]
    BY <1>1, RestIs DEF Request
<1>3. tally \in [upsets : 0 .. MaxUpsets, deploys : 0 .. MaxDeploys]
    BY DEF DeployInv
<1>4. tally.deploys + 1 \in 0 .. MaxDeploys /\ tally.upsets \in Nat
    BY <1>1, <1>3, DeployAre
<1>5. tally' \in [upsets : 0 .. MaxUpsets, deploys : 0 .. MaxDeploys] /\ tally'.upsets = tally.upsets
    BY <1>1, <1>3, <1>4
<1>6. Known(ini)' /\ Known(seenIni)' /\ Known(job.ini)'
    <2>1. [ids |-> {}, rev |-> -1] \in IniText
        BY DeployAre DEF IniText
    <2>2. (job.ini)' = [ids |-> {}, rev |-> -1]
        BY <1>2
    <2>3. Known(ini) /\ Known(seenIni)
        BY DEF DeployInv
    <2>4. IniText' = IniText
        BY DEF IniText
    <2> QED BY <1>1, <1>4, <1>5, <2>1, <2>2, <2>3, <2>4 DEF Known
<1>7. Once' /\ Apart'
    BY <1>2 DEF Once, Apart
<1>8. Request' = Request
    BY DEF Request, IniText
<1> QED BY <1>1, <1>2, <1>5, <1>6, <1>7, <1>8 DEF DeployInv

LEMMA WantedIs ==
    ASSUME NEW w \in Deploy!Wanted, Deploy!IsInjective(w)
    PROVE  /\ w \in Seq(Deploy!Folders) /\ w # <<>>
           /\ \A i, j \in 1 .. Len(w) : w[i] = w[j] => i = j
<1>1. CASE w \in {<<d>> : d \in Mods}
    BY <1>1, DeployAre
<1>2. CASE w \in {<<d, e>> : d, e \in Mods}
    <2>1. PICK d \in Mods, e \in Mods : w = <<d, e>>
        BY <1>2
    <2>2. w \in Seq(Deploy!Folders) /\ w # <<>> /\ Len(w) = 2 /\ DOMAIN w = 1 .. 2
        BY <2>1, DeployAre
    <2> QED BY <2>2 DEF Deploy!IsInjective
<1> QED BY <1>1, <1>2 DEF Deploy!Wanted

\* The compiler.
LEMMA LaidIs ==
    ASSUME DeployInv, NEW w \in Seq(Deploy!Folders)
    PROVE  Deploy!LaidOver(w) \in [Contents -> 0 .. 2]
<1> SUFFICES ASSUME NEW f \in Contents
             PROVE  Deploy!LaidOver(w)[f] \in 0 .. 2
    BY DEF Deploy!LaidOver
<1> DEFINE has == {i \in DOMAIN w : shelf[w[i]][f] # 0}
<1>1. Deploy!LaidOver(w)[f] = IF has = {} THEN 0 ELSE shelf[w[Deploy!Max(has)]][f]
    BY DEF Deploy!LaidOver
<1>2. Len(w) \in Nat /\ DOMAIN w = 1 .. Len(w) /\ \A i \in 1 .. Len(w) : w[i] \in Deploy!Folders
    BY LenProperties, ElementOfSeq
<1>3. ASSUME has # {}
      PROVE  Deploy!Max(has) \in has
    <2>1. has \in SUBSET (1 .. Len(w))
        BY <1>2
    <2> HIDE DEF has
    <2>2. \E x \in has : \A y \in has : x >= y
        BY <1>2, <1>3, <2>1, Greatest
    <2> QED BY <2>2, Zenon DEF Deploy!Max
<1>4. CASE has = {}
    BY <1>1, <1>4
<1>5. CASE has # {}
    <2>1. Deploy!Max(has) \in 1 .. Len(w)
        BY <1>2, <1>3, <1>5
    <2>2. shelf[w[Deploy!Max(has)]] \in [Contents -> 0 .. 2]
        BY <1>2, <2>1 DEF DeployInv
    <2> HIDE DEF has
    <2> QED BY <1>1, <1>5, <2>2
<1> QED BY <1>4, <1>5

LEMMA BuildStep == DeployInv /\ Deploy!Build => DeployInv'
<1> SUFFICES ASSUME DeployInv, Deploy!Build PROVE DeployInv'
    OBVIOUS
<1> PICK p \in {"failed", "folder"} : job' = [job EXCEPT !.pc = p, !.todo = <<Pack>>]
    BY DEF Deploy!Build
<1>1. /\ job.pc = "build" /\ shelf' = [shelf EXCEPT ![Pack] = Deploy!LaidOver(job.todo)]
      /\ UNCHANGED <<fileKind, host, ini, seenIni, excused, tally>>
    BY DEF Deploy!Build
<1>2. job \in Request /\ job.good = {} /\ Pack \in Deploy!Folders
    BY <1>1, DeployAre DEF DeployInv
<1>3. job.todo \in Seq(Deploy!Folders)
    BY <1>2 DEF Request
<1>4. shelf' \in [Deploy!Folders -> [Contents -> 0 .. 2]]
    BY <1>1, <1>3, LaidIs DEF DeployInv
<1>5. [job EXCEPT !.pc = p, !.todo = <<Pack>>] \in Request
    <2>1. <<Pack>> \in Seq(Deploy!Folders)
        BY <1>2
    <2> QED BY <1>2, <2>1 DEF Request
<1>6. /\ job'.pc = p /\ job'.todo = <<Pack>> /\ job'.good = {} /\ job'.ini = job.ini
      /\ job'.hand = job.hand /\ job'.moved = job.moved
    BY <1>2 DEF Request
<1>7. Once' /\ Apart'
    BY <1>6 DEF Once, Apart
<1>8. IniText' = IniText /\ Request' = Request
    BY DEF IniText, Request
<1> QED BY <1>1, <1>2, <1>4, <1>5, <1>6, <1>7, <1>8 DEF DeployInv, Known

\* A step that changes only the request, and not what it sends.
LEMMA MovesOn ==
    ASSUME DeployInv, UNCHANGED <<fileKind, shelf, host, excused, tally>>,
           Known(ini)', Known(seenIni)', Known(job.ini)', job' \in Request,
           job'.todo = job.todo, job'.good = job.good, job'.pc # "build",
           job'.pc = "folder" => job'.hand = {} /\ job'.moved = {},
           job'.pc \in {"folder", "file", "put"} => job.pc \in {"folder", "file", "put"},
           job'.pc \in {"file", "put"} => job.todo # <<>>,
           job'.pc = "put" => fileKind # "local" /\ \A f, g \in job'.hand : f = g,
           job'.pc = "file" => job'.hand = {},
           job'.pc \in {"file", "put"} /\ "error" \notin job'.moved =>
              \A f \in Contents : Settled(Head(job.todo), f) \/ f \in job'.files \cup job'.hand
    PROVE  DeployInv'
<1>1. \A d, f : Settled(d, f)' = Settled(d, f)
    BY DEF Settled
<1>2. Once' = Once /\ Apart' = Apart
    BY DEF Once, Apart
<1>3. IniText' = IniText /\ Request' = Request
    BY DEF IniText, Request
<1> QED BY <1>1, <1>2, <1>3 DEF DeployInv

LEMMA FoldersStep ==
    ASSUME DeployInv,
           Deploy!CompileRefused \/ Deploy!OpenFolder \/ Deploy!FolderFails \/ Deploy!CloseFolder
              \/ (\E f \in Contents : Deploy!Look(f))
    PROVE  DeployInv'
<1>0. /\ job \in Request /\ Known(ini) /\ Known(seenIni) /\ Known(job.ini)
      /\ job.pc \in {"file", "put"} => job.todo # <<>>
    BY DEF DeployInv
<1>1. ASSUME UNCHANGED <<ini, seenIni, tally>>, job'.ini = job.ini
      PROVE  Known(ini)' /\ Known(seenIni)' /\ Known(job.ini)'
    BY <1>0, <1>1 DEF Known, IniText
<1>2. CASE Deploy!CompileRefused
    <2>1. /\ job' = [job EXCEPT !.pc = "failed"]
          /\ UNCHANGED <<fileKind, shelf, host, ini, seenIni, excused, tally>>
        BY <1>2 DEF Deploy!CompileRefused, Deploy!Steps
    <2>2. /\ job' \in Request /\ job'.pc = "failed" /\ job'.ini = job.ini
          /\ job'.todo = job.todo /\ job'.good = job.good
        BY <1>0, <2>1 DEF Request
    <2> QED BY <1>1, <2>1, <2>2, MovesOn
<1>3. CASE Deploy!OpenFolder
    <2>1. job.pc = "folder" /\ job.todo # <<>>
        BY <1>3 DEF Deploy!OpenFolder
    <2>2. CASE Deploy!Present(Deploy!Here) = {}
        BY <1>3, <2>1, <2>2, RowStep DEF Deploy!OpenFolder
    <2>3. CASE Deploy!Present(Deploy!Here) # {}
        <3>1. /\ job' = [job EXCEPT !.pc = "file", !.files = Deploy!Present(Deploy!Here)]
              /\ UNCHANGED <<fileKind, shelf, host, ini, seenIni, excused, tally>>
            BY <1>3, <2>3 DEF Deploy!OpenFolder, Deploy!Steps
        <3>2. Deploy!Present(Deploy!Here) \in SUBSET Contents
            BY DEF Deploy!Present
        <3>3. /\ job' \in Request /\ job'.pc = "file" /\ job'.ini = job.ini
              /\ job'.todo = job.todo /\ job'.good = job.good /\ job'.hand = job.hand
              /\ job'.files = Deploy!Present(Deploy!Here)
            BY <1>0, <3>1, <3>2 DEF Request
        <3>4. job.hand = {}
            BY <2>1 DEF DeployInv
        <3>5. \A f \in Contents : Settled(Head(job.todo), f) \/ f \in job'.files
            BY <3>3 DEF Settled, Deploy!Present, Deploy!Here
        <3> QED BY <1>1, <2>1, <3>1, <3>3, <3>4, <3>5, MovesOn
    <2> QED BY <2>2, <2>3
<1>4. CASE Deploy!FolderFails
    BY <1>0, <1>4, RowStep DEF Deploy!FolderFails
<1>5. CASE Deploy!CloseFolder
    <2>1. /\ job.pc = "file" /\ job.files = {} /\ Deploy!Steps(Deploy!Row(Deploy!Sent))
          /\ Deploy!Sent \in BOOLEAN /\ job.hand = {} /\ job.todo # <<>>
        BY <1>5 DEF Deploy!CloseFolder, Deploy!Sent, DeployInv
    <2>2. Deploy!Sent => \A f \in Contents : Settled(Head(job.todo), f)
        BY <2>1 DEF Deploy!Sent, DeployInv
    <2> QED BY <2>1, <2>2, RowStep
<1>6. ASSUME NEW f \in Contents, Deploy!Look(f)
      PROVE  DeployInv'
    <2>1. /\ job.pc = "file" /\ fileKind # "local" /\ f \in job.files /\ job.hand = {}
          /\ job.todo # <<>> /\ UNCHANGED <<fileKind, shelf, host, ini, seenIni, excused, tally>>
        BY <1>6 DEF Deploy!Look, Deploy!Steps, DeployInv
    <2>2. "error" \notin job.moved =>
              \A g \in Contents : Settled(Head(job.todo), g) \/ g \in job.files
        BY <2>1 DEF DeployInv
    <2>3. CASE Deploy!Skips(f)
        <3> DEFINE m == IF shelf[Head(job.todo)][f] = 0 THEN job.moved
                        ELSE job.moved \cup {"skipped"}
        <3>1. job' = [job EXCEPT !.files = @ \ {f}, !.moved = m]
            BY <1>6, <2>3 DEF Deploy!Look, Deploy!Steps, Deploy!Here
        <3>2. /\ m \in SUBSET {"sent", "skipped", "error"}
              /\ "error" \in m <=> "error" \in job.moved
            BY <1>0 DEF Request
        <3> HIDE DEF m
        <3>3. /\ job' \in Request /\ job'.pc = "file" /\ job'.ini = job.ini
              /\ job'.todo = job.todo /\ job'.good = job.good /\ job'.hand = {}
              /\ job'.files = job.files \ {f} /\ job'.moved = m
            BY <1>0, <2>1, <3>1, <3>2 DEF Request
        <3>4. Settled(Head(job.todo), f)
            BY <2>1, <2>3 DEF Deploy!Skips, Deploy!Here, Settled
        <3> QED BY <1>1, <2>1, <2>2, <3>2, <3>3, <3>4, MovesOn
    <2>4. CASE ~ Deploy!Skips(f)
        <3>1. job' = [job EXCEPT !.files = @ \ {f}, !.pc = "put", !.hand = {f},
                                 !.hash = shelf[Head(job.todo)][f]]
            BY <1>6, <2>4 DEF Deploy!Look, Deploy!Steps, Deploy!Here
        <3>2. Head(job.todo) \in Deploy!Folders
            BY <1>0, <2>1, HeadTailProperties DEF Request
        <3>3. shelf[Head(job.todo)][f] \in 0 .. 2
            BY <3>2 DEF DeployInv
        <3>4. /\ job' \in Request /\ job'.pc = "put" /\ job'.ini = job.ini
              /\ job'.todo = job.todo /\ job'.good = job.good /\ job'.hand = {f}
              /\ job'.files = job.files \ {f} /\ job'.moved = job.moved
            BY <1>0, <3>1, <3>3 DEF Request
        <3> QED BY <1>1, <2>1, <2>2, <3>4, MovesOn
    <2> QED BY <2>3, <2>4
<1> QED BY <1>2, <1>3, <1>4, <1>5, <1>6

\* A step that writes a file of the folder in hand.
LEMMA WritesFile ==
    ASSUME DeployInv, job.pc \in {"file", "put"}, NEW f \in Contents, NEW v \in -1 .. 2,
           host' = [host EXCEPT ![Head(job.todo)][f] = v],
           UNCHANGED <<fileKind, shelf, ini, seenIni, tally>>,
           excused \subseteq excused', excused' \subseteq Deploy!Folders \X Contents,
           job' \in Request, job'.pc = "file", job'.hand = {},
           job'.todo = job.todo, job'.good = job.good, job'.ini = job.ini,
           "error" \notin job'.moved =>
              /\ "error" \notin job.moved /\ Settled(Head(job.todo), f)'
              /\ job.files \cup job.hand \subseteq job'.files \cup {f}
    PROVE  DeployInv'
<1> DEFINE h == Head(job.todo)
<1>1. /\ job \in Request /\ Once /\ Apart /\ job.todo # <<>>
      /\ host \in [Deploy!Folders -> [Contents -> -1 .. 2]]
    BY DEF DeployInv
<1>2. job.todo \in Seq(Deploy!Folders)
    BY <1>1 DEF Request
<1>3. /\ h \in Deploy!Folders /\ h = job.todo[1] /\ Len(job.todo) \in Nat
    BY <1>1, <1>2, HeadTailProperties, LenProperties
<1>4. 1 \in 1 .. Len(job.todo)
    <2>1. Len(job.todo) # 0
        BY <1>1, <1>2, EmptySeq
    <2> QED BY <1>3, <2>1
<1>5. h \notin job.good
    BY <1>1, <1>3, <1>4 DEF Apart
<1> HIDE DEF h
<1>6. /\ host' = [host EXCEPT ![h][f] = v]
      /\ job.todo # <<>>
    BY <1>1 DEF h
<1>7. /\ host' \in [Deploy!Folders -> [Contents -> -1 .. 2]]
      /\ \A d \in Deploy!Folders \ {h} : host'[d] = host[d]
      /\ \A g \in Contents \ {f} : host'[h][g] = host[h][g]
    BY <1>1, <1>3, <1>6
<1>8. ASSUME NEW d \in job'.good, NEW g \in Contents
      PROVE  Settled(d, g)'
    <2>1. Settled(d, g) /\ d \in Deploy!Folders /\ d # h
        BY <1>1, <1>5 DEF DeployInv, Request
    <2> QED BY <1>7, <2>1, SettledStays
<1>9. ASSUME NEW g \in Contents, g # f, Settled(h, g)
      PROVE  \A d : d = h => Settled(d, g)'
    BY <1>7, <1>9 DEF Settled
<1>10. ASSUME "error" \notin job'.moved, NEW g \in Contents
       PROVE  Settled(Head(job.todo), g)' \/ g \in job'.files
    <2>1. Head(job'.todo) = h
        BY DEF h
    <2>2. Settled(h, g) \/ g \in job'.files \cup {f}
        BY <1>10 DEF DeployInv, h
    <2>3. g = f => Settled(Head(job.todo), g)'
        BY <1>10
    <2>4. (Head(job.todo))' = h
        BY <2>1
    <2>5. CASE g # f /\ Settled(h, g)
        BY <1>9, <2>4, <2>5
    <2> QED BY <2>2, <2>3, <2>5
<1>11. Once' /\ Apart'
    BY <1>1 DEF Once, Apart
<1>12. Known(ini)' /\ Known(seenIni)' /\ Known(job.ini)'
    BY DEF DeployInv, Known, IniText
<1>13. Request' = Request
    BY DEF Request, IniText
<1>14. job'.todo # <<>>
    BY <1>1
<1> QED BY <1>1, <1>7, <1>8, <1>10, <1>11, <1>12, <1>13, <1>14 DEF DeployInv

LEMMA FilesStep ==
    ASSUME DeployInv, NEW f \in Contents,
           \/ Deploy!CopyLocal(f)
           \/ \E v \in {-1, 1, 2} : Deploy!Put(f, v)
           \/ \E v \in {-1, 0, 1, 2} : Deploy!PutFails(f, v)
    PROVE  DeployInv'
<1>0. /\ job \in Request /\ excused \subseteq Deploy!Folders \X Contents
      /\ host \in [Deploy!Folders -> [Contents -> -1 .. 2]]
      /\ shelf \in [Deploy!Folders -> [Contents -> 0 .. 2]]
    BY DEF DeployInv
<1>1. ASSUME job.pc \in {"file", "put"}
      PROVE  Head(job.todo) \in Deploy!Folders
    <2>1. job.todo \in Seq(Deploy!Folders) /\ job.todo # <<>>
        BY <1>1 DEF DeployInv, Request
    <2> QED BY <2>1, HeadTailProperties
<1> DEFINE h == Head(job.todo)
<1>2. CASE Deploy!CopyLocal(f)
    <2>1. /\ job.pc = "file" /\ fileKind = "local" /\ f \in job.files /\ job.hand = {}
          /\ UNCHANGED <<fileKind, shelf, ini, seenIni, excused, tally>>
          /\ host' = [host EXCEPT ![h][f] = IF shelf[h][f] = 0 THEN @ ELSE shelf[h][f]]
          /\ job' = [job EXCEPT !.files = @ \ {f}, !.moved = @ \cup {"sent"}]
        BY <1>2 DEF Deploy!CopyLocal, Deploy!Here, DeployInv
    <2>2. h \in Deploy!Folders
        BY <1>1, <2>1
    <2> HIDE DEF h
    <2>3. PICK v \in -1 .. 2 :
              /\ v = IF shelf[h][f] = 0 THEN host[h][f] ELSE shelf[h][f]
              /\ host' = [host EXCEPT ![h][f] = v]
        <3>1. host[h][f] \in -1 .. 2 /\ shelf[h][f] \in 0 .. 2
            BY <1>0, <2>2
        <3>2. (IF shelf[h][f] = 0 THEN host[h][f] ELSE shelf[h][f]) \in -1 .. 2
            BY <3>1
        <3>3. host' = [host EXCEPT ![h][f] = IF shelf[h][f] = 0 THEN host[h][f] ELSE shelf[h][f]]
            BY <1>0, <2>1, <2>2
        <3> QED BY <3>2, <3>3
    <2>4. host'[h][f] = v
        BY <1>0, <2>2, <2>3
    <2>5. /\ job' \in Request /\ job'.pc = "file" /\ job'.hand = {}
          /\ job'.todo = job.todo /\ job'.good = job.good /\ job'.ini = job.ini
          /\ job'.files = job.files \ {f} /\ ("error" \notin job'.moved => "error" \notin job.moved)
        BY <1>0, <2>1 DEF Request
    <2>6. \A d : d = h => Settled(d, f)'
        BY <2>1, <2>3, <2>4 DEF Settled
    <2>7. Settled(Head(job.todo), f)'
        <3>1. (Head(job.todo))' = h
            BY <2>5 DEF h
        <3> QED BY <2>6, <3>1
    <2> QED BY <1>0, <2>1, <2>3, <2>5, <2>7, WritesFile DEF h
<1>3. ASSUME NEW v \in {-1, 1, 2}, Deploy!Put(f, v)
      PROVE  DeployInv'
    <2>0. Deploy!Short = -1
        BY DEF Deploy!Short
    <2>1. /\ job.pc = "put" /\ f \in job.hand /\ v \in {shelf[h][f], -1}
          /\ UNCHANGED <<fileKind, shelf, ini, seenIni, tally>>
          /\ host' = [host EXCEPT ![h][f] = v]
          /\ job' = [job EXCEPT !.pc = "file", !.hand = {}, !.moved = @ \cup {Deploy!Notes(v)}]
          /\ excused' = IF fileKind = "ftp" /\ v = -1 THEN excused \cup {<<h, f>>} ELSE excused
        BY <1>3, <2>0 DEF Deploy!Put, Deploy!Here
    <2>2. h \in Deploy!Folders /\ v \in -1 .. 2
        BY <1>1, <2>1
    <2> HIDE DEF h
    <2>3. Deploy!Notes(v) \in {"sent", "error"}
        BY DEF Deploy!Notes
    <2>4. /\ job' \in Request /\ job'.pc = "file" /\ job'.hand = {}
          /\ job'.todo = job.todo /\ job'.good = job.good /\ job'.ini = job.ini
          /\ job'.files = job.files /\ job'.moved = job.moved \cup {Deploy!Notes(v)}
        BY <1>0, <2>1, <2>3 DEF Request
    <2>5. host'[h][f] = v
        BY <1>0, <2>1, <2>2
    <2>6. excused \subseteq excused' /\ excused' \subseteq Deploy!Folders \X Contents
        BY <1>0, <2>1, <2>2
    <2>7. ASSUME "error" \notin job'.moved
          PROVE  \A d : d = h => Settled(d, f)'
        <3>1. CASE v = shelf[h][f]
            BY <2>1, <2>5, <3>1 DEF Settled
        <3>2. CASE v = -1
            <4>1. job.hash \in 0 .. 2 /\ job.hash # -1
                BY <1>0 DEF Request
            <4>2. fileKind \in {"ftp", "sftp", "local"} /\ fileKind # "local"
                BY <2>1 DEF DeployInv
            <4>3. fileKind = "ftp"
                BY <2>4, <2>7, <3>2, <4>1, <4>2 DEF Deploy!Notes
            <4> QED BY <2>1, <3>2, <4>3 DEF Settled
        <3> QED BY <2>1, <3>1, <3>2
    <2>8. "error" \notin job'.moved => Settled(Head(job.todo), f)'
        <3>1. (Head(job.todo))' = h
            BY <2>4 DEF h
        <3> QED BY <2>7, <3>1
    <2>9. job.hand \subseteq {f}
        BY <2>1 DEF DeployInv
    <2> QED BY <2>1, <2>2, <2>4, <2>6, <2>8, <2>9, WritesFile DEF h
<1>4. ASSUME NEW v \in {-1, 0, 1, 2}, Deploy!PutFails(f, v)
      PROVE  DeployInv'
    <2>1. /\ job.pc = "put"
          /\ UNCHANGED <<fileKind, shelf, ini, seenIni, excused, tally>>
          /\ host' = [host EXCEPT ![h][f] = v]
          /\ job' = [job EXCEPT !.pc = "file", !.hand = {}, !.moved = @ \cup {"error"}]
        BY <1>4 DEF Deploy!PutFails, Deploy!Here
    <2>2. v \in -1 .. 2
        OBVIOUS
    <2>3. /\ job' \in Request /\ job'.pc = "file" /\ job'.hand = {}
          /\ job'.todo = job.todo /\ job'.good = job.good /\ job'.ini = job.ini
          /\ "error" \in job'.moved
        BY <1>0, <2>1 DEF Request
    <2> QED BY <1>0, <2>1, <2>2, <2>3, WritesFile DEF h
<1> QED BY <1>2, <1>3, <1>4

\* A download, and the hoster.
LEMMA BesideStep ==
    ASSUME DeployInv, (\E d \in Mods : Deploy!Swap(d)) \/ Deploy!HosterEdits
    PROVE  DeployInv'
<1>0. /\ tally \in [upsets : 0 .. MaxUpsets, deploys : 0 .. MaxDeploys]
      /\ Known(ini) /\ Known(seenIni) /\ Known(job.ini)
    BY DEF DeployInv
<1>1. /\ tally.upsets < MaxUpsets /\ tally' = [tally EXCEPT !.upsets = @ + 1]
      /\ UNCHANGED <<fileKind, host, seenIni, job>>
    BY DEF Deploy!Swap, Deploy!HosterEdits
<1>2. tally.upsets \in Nat /\ tally.upsets + 1 \in 0 .. MaxUpsets
    BY <1>0, <1>1, DeployAre
<1>3. /\ tally' \in [upsets : 0 .. MaxUpsets, deploys : 0 .. MaxDeploys]
      /\ tally'.upsets = tally.upsets + 1
    BY <1>0, <1>1, <1>2
<1>4. IniText' = IniText /\ Request' = Request /\ Once' = Once /\ Apart' = Apart
    BY <1>1 DEF IniText, Request, Once, Apart
<1>5. \A c : Known(c) => c \in IniText /\ c.rev \in Int /\ c.rev <= tally'.upsets
    BY <1>2, <1>3, DeployAre DEF Known, IniText
<1>6. Known(seenIni)' /\ Known(job.ini)'
    BY <1>0, <1>1, <1>4, <1>5 DEF Known
<1>7. ASSUME NEW d \in Mods, Deploy!Swap(d)
      PROVE  DeployInv'
    <2>1. /\ excused' = excused \cup {d} \X Contents /\ ini' = ini
          /\ \E gone \in SUBSET Contents :
                shelf' = [shelf EXCEPT ![d] = [f \in Contents |-> IF f \in gone THEN 0 ELSE 2]]
        BY <1>7 DEF Deploy!Swap
    <2>2. d \in Deploy!Folders
        BY DeployAre
    <2>3. /\ shelf' \in [Deploy!Folders -> [Contents -> 0 .. 2]]
          /\ \A e \in Deploy!Folders \ {d} : shelf'[e] = shelf[e]
        BY <2>1, <2>2 DEF DeployInv
    <2>4. Known(ini)'
        BY <1>0, <1>4, <1>5, <2>1 DEF Known
    <2>5. ASSUME NEW e \in Deploy!Folders, NEW f \in Contents, Settled(e, f)
          PROVE  Settled(e, f)'
        <3>1. CASE e = d
            <4>1. <<e, f>> \in excused'
                BY <2>1, <3>1
            <4> QED BY <4>1 DEF Settled
        <3>2. CASE e # d
            BY <1>1, <2>1, <2>3, <2>5, <3>2, SettledStays
        <3> QED BY <3>1, <3>2
    <2>6. excused' \subseteq Deploy!Folders \X Contents
        BY <2>1, <2>2 DEF DeployInv
    <2>7. \A e \in job.good : e \in Deploy!Folders
        BY DEF DeployInv, Request
    <2>8. ASSUME job.pc \in {"file", "put"}, "error" \notin job.moved, NEW f \in Contents
          PROVE  Settled(Head(job.todo), f)' \/ f \in job.files \cup job.hand
        <3>1. job.todo \in Seq(Deploy!Folders) /\ job.todo # <<>>
            BY <2>8 DEF DeployInv, Request
        <3>2. Head(job.todo) \in Deploy!Folders
            BY <3>1, HeadTailProperties
        <3>3. (Head(job.todo))' = Head(job.todo)
            BY <1>1
        <3>4. Settled(Head(job.todo), f) => \A e : e = Head(job.todo) => Settled(e, f)'
            BY <2>5, <3>2
        <3> QED BY <2>8, <3>3, <3>4 DEF DeployInv
    <2> QED BY <1>1, <1>3, <1>4, <1>6, <2>3, <2>4, <2>5, <2>6, <2>7, <2>8 DEF DeployInv
<1>8. CASE Deploy!HosterEdits
    <2>1. PICK ids \in {ini.ids, {}} : ini' = [ids |-> ids, rev |-> ini.rev + 1]
        BY <1>8 DEF Deploy!HosterEdits
    <2>2. UNCHANGED <<shelf, excused>>
        BY <1>8 DEF Deploy!HosterEdits
    <2>3. ini.ids \in SUBSET Deploy!Folders /\ ini.rev \in -1 .. MaxUpsets /\ ini.rev <= tally.upsets
        BY <1>0 DEF Known, IniText
    <2>4. ini.rev + 1 \in -1 .. MaxUpsets /\ ini.rev + 1 <= tally'.upsets
        BY <1>2, <1>3, <2>3, DeployAre
    <2>5. ini' \in IniText /\ ini'.rev <= tally'.upsets
        BY <2>1, <2>3, <2>4 DEF IniText
    <2>6. Known(ini)'
        BY <1>4, <2>5 DEF Known
    <2>7. \A d, f : Settled(d, f)' = Settled(d, f)
        BY <1>1, <2>2 DEF Settled
    <2> QED BY <1>1, <1>3, <1>4, <1>6, <2>2, <2>6, <2>7 DEF DeployInv
<1> QED BY <1>7, <1>8

\* The ini, and the answer.
LEMMA ExtendedIs ==
    ASSUME DeployInv
    PROVE  Known(Deploy!Extended)
<1>1. /\ job.ini \in IniText /\ job.ini.rev <= tally.upsets /\ job.good \in SUBSET Deploy!Folders
    BY DEF DeployInv, Known, Request
<1>2. Deploy!Added \in SUBSET Deploy!Folders
    BY <1>1, DeployAre DEF Deploy!Added
<1> QED BY <1>1, <1>2 DEF Deploy!Extended, Known, IniText

LEMMA IniStep ==
    ASSUME DeployInv,
           Deploy!EndFolders \/ Deploy!IniHasThem \/ Deploy!IniSkipped \/ Deploy!IniStored
              \/ Deploy!IniFails
    PROVE  DeployInv'
<1>0. /\ job \in Request /\ Known(ini) /\ Known(seenIni) /\ Known(job.ini)
      /\ Known(Deploy!Extended) /\ Known([ids |-> {}, rev |-> -1])
    <2>1. Known([ids |-> {}, rev |-> -1])
        <3>1. tally.upsets \in Nat
            BY DEF DeployInv
        <3> QED BY <3>1, DeployAre DEF Known, IniText
    <2> QED BY <2>1, ExtendedIs DEF DeployInv
<1>1. ASSUME NEW c, Known(c), UNCHANGED tally
      PROVE  \A d : d = c => Known(d)'
    BY <1>1 DEF Known, IniText
<1>2. UNCHANGED <<fileKind, shelf, host, excused, tally>>
    BY DEF Deploy!EndFolders, Deploy!Steps, Deploy!IniHasThem, Deploy!IniSkipped,
           Deploy!IniStored, Deploy!IniFails
<1>3. CASE Deploy!EndFolders
    <2>1. PICK p \in {"ini", "ok", "failed"}, c \in {ini, job.ini} :
              job' = [job EXCEPT !.pc = p, !.ini = c]
        <3>1. CASE Deploy!WantsIni
            BY <1>3, <3>1 DEF Deploy!EndFolders, Deploy!Steps
        <3>2. CASE ~ Deploy!WantsIni
            <4>1. PICK p \in {"ok", "failed"} : job' = [job EXCEPT !.pc = p]
                BY <1>3, <3>2 DEF Deploy!EndFolders, Deploy!Steps, Deploy!Answer
            <4>2. job' = [job EXCEPT !.pc = p, !.ini = job.ini]
                BY <1>0, <4>1 DEF Request
            <4> QED BY <4>2
        <3> QED BY <3>1, <3>2
    <2>2. c \in IniText /\ Known(c)
        BY <1>0 DEF Known
    <2>3. /\ job' \in Request /\ job'.pc = p /\ job'.ini = c
          /\ job'.todo = job.todo /\ job'.good = job.good
        BY <1>0, <2>1, <2>2 DEF Request
    <2>4. UNCHANGED <<ini, seenIni>>
        BY <1>3 DEF Deploy!EndFolders, Deploy!Steps
    <2>5. Known(ini)' /\ Known(seenIni)' /\ Known(job.ini)'
        BY <1>0, <1>1, <1>2, <2>2, <2>3, <2>4
    <2> QED BY <1>2, <2>3, <2>5, MovesOn
<1>4. CASE Deploy!IniHasThem \/ Deploy!IniSkipped \/ Deploy!IniStored \/ Deploy!IniFails
    <2>1. PICK bad \in BOOLEAN : job' = Deploy!Ends(bad)
        <3>1. job.bad \in BOOLEAN
            BY <1>0 DEF Request
        <3> QED BY <1>4, <3>1 DEF Deploy!IniHasThem, Deploy!IniSkipped, Deploy!IniStored,
                                  Deploy!IniFails, Deploy!Steps
    <2>2. PICK p \in {"ok", "failed"} :
              job' = [job EXCEPT !.pc = p, !.ini = [ids |-> {}, rev |-> -1]]
        BY <2>1 DEF Deploy!Ends, Deploy!Answer, Deploy!Unseen
    <2>3. [ids |-> {}, rev |-> -1] \in IniText
        BY <1>0 DEF Known
    <2>4. /\ job' \in Request /\ job'.pc = p /\ job'.ini = [ids |-> {}, rev |-> -1]
          /\ job'.todo = job.todo /\ job'.good = job.good
        BY <1>0, <2>2, <2>3 DEF Request
    <2>5. /\ ini' \in {ini, Deploy!Extended}
          /\ seenIni' \in {seenIni, job.ini, Deploy!Extended}
        BY <1>4 DEF Deploy!IniHasThem, Deploy!IniSkipped, Deploy!IniStored,
                    Deploy!IniFails, Deploy!Steps
    <2>6. Known(ini)' /\ Known(seenIni)' /\ Known(job.ini)'
        BY <1>0, <1>1, <1>2, <2>4, <2>5
    <2> QED BY <1>2, <2>4, <2>6, MovesOn
<1> QED BY <1>3, <1>4

LEMMA DeployStep == DeployInv /\ [Deploy!DeployNext]_deployVars => DeployInv'
<1> SUFFICES ASSUME DeployInv, [Deploy!DeployNext]_deployVars PROVE DeployInv'
    OBVIOUS
<1>1. CASE UNCHANGED deployVars
    <2>1. UNCHANGED <<fileKind, shelf, host, ini, seenIni, job, excused, tally>>
        BY <1>1 DEF deployVars
    <2>2. \A d, f : Settled(d, f)' = Settled(d, f)
        BY <2>1 DEF Settled
    <2>3. /\ Known(ini)' = Known(ini) /\ Known(seenIni)' = Known(seenIni)
          /\ Known(job.ini)' = Known(job.ini) /\ Request' = Request
          /\ Once' = Once /\ Apart' = Apart
        BY <2>1 DEF Known, IniText, Request, Once, Apart
    <2> QED BY <2>1, <2>2, <2>3 DEF DeployInv
<1>2. ASSUME NEW wanted \in Deploy!Wanted, Deploy!IsInjective(wanted), NEW upd \in BOOLEAN,
             Deploy!DeployAsIs(wanted, upd) \/ Deploy!Compile(wanted, upd)
      PROVE  DeployInv'
    BY <1>2, WantedIs, AskedStep DEF Deploy!DeployAsIs, Deploy!Compile
<1>3. ASSUME NEW upd \in BOOLEAN, Deploy!InstallMod(upd)
      PROVE  DeployInv'
    <2>1. /\ <<Bridge>> \in Seq(Deploy!Folders) /\ <<Bridge>> # <<>>
          /\ \A i, j \in 1 .. Len(<<Bridge>>) : <<Bridge>>[i] = <<Bridge>>[j] => i = j
        BY DeployAre
    <2> QED BY <1>3, <2>1, AskedStep DEF Deploy!InstallMod
<1>4. ASSUME Deploy!CompileRefused \/ Deploy!OpenFolder \/ Deploy!FolderFails \/ Deploy!CloseFolder
      PROVE  DeployInv'
    BY <1>4, FoldersStep
<1>5. ASSUME Deploy!EndFolders \/ Deploy!IniHasThem \/ Deploy!IniSkipped \/ Deploy!IniStored
                \/ Deploy!IniFails
      PROVE  DeployInv'
    BY <1>5, IniStep
<1>6. ASSUME NEW f \in Contents, Deploy!CopyLocal(f) \/ Deploy!Look(f)
      PROVE  DeployInv'
    BY <1>6, FilesStep, FoldersStep
<1>7. ASSUME NEW f \in Contents, NEW v \in {Deploy!Short, 0, 1, 2},
             (v # 0 /\ Deploy!Put(f, v)) \/ Deploy!PutFails(f, v)
      PROVE  DeployInv'
    <2>1. v \in {-1, 0, 1, 2}
        BY DEF Deploy!Short
    <2> QED BY <1>7, <2>1, FilesStep
<1>8. ASSUME (\E d \in Mods : Deploy!Swap(d)) \/ Deploy!HosterEdits
      PROVE  DeployInv'
    BY <1>8, BesideStep
<1>9. \A v \in {Deploy!Short, 1, 2} : v \in {Deploy!Short, 0, 1, 2} /\ v # 0
    BY DEF Deploy!Short
<1> QED BY <1>1, <1>2, <1>3, <1>4, <1>5, <1>6, <1>7, <1>8, <1>9, BuildStep DEF Deploy!DeployNext

LEMMA DeployTypes == DeployInv => Deploy!DeployTypeOK
BY DEF DeployInv, Deploy!DeployTypeOK, Deploy!Inis, Deploy!Short, Request, IniText, Known

\* What a deployment called ok is on the host, whatever was swapped, cut short or
\* failed meanwhile (sync_modpack, deploy_pack_to_server, deploy_mods_as_is).
THEOREM DeploymentsAreWhole == PartsSpec => []DeployedIsWhole
<1>1. DeployInv => DeployedIsWhole
    BY DEF DeployInv, Settled, DeployedIsWhole, Deploy!DeployedIsWhole, Deploy!Present
<1>2. DeployInv /\ [PartsNext]_<<part, vars, schedVars, monVars, deployVars, jobVars, upVars,
                                 localVars, busVars, accessVars, chunkVars, slotVars>>
        => DeployInv'
    BY DeployOnly, DeployStep
<1> QED BY <1>1, <1>2, DeployInitially, PTL DEF PartsSpec
-----------------------------------------------------------------------------

(***************************************************************************)
(* Types.  Those of the heartbeat, the scheduler, the deployments, the     *)
(* local server and the access log are part of the invariants above; the   *)
(* other parts need a little more than these.                              *)
(***************************************************************************)

\* The trainers' line.
LEMMA SlotTypesInitially == PartsInit => Slots!SlotsTypeOK
BY PartsAssumption DEF PartsInit, Slots!SlotsInit, Slots!SlotsTypeOK, Slots!Settings, Slots!Blank

LEMMA SlotTypesStep == Slots!SlotsTypeOK /\ [Slots!SlotsNext]_slotVars => Slots!SlotsTypeOK'
<1> SUFFICES ASSUME Slots!SlotsTypeOK, [Slots!SlotsNext]_slotVars PROVE Slots!SlotsTypeOK'
    OBVIOUS
<1> DEFINE S == [pc : {"idle", "temp", "hash", "put", "send", "verify", "good", "bad", "ok",
                       "failed", "kept"},
                 own : 0 .. MaxSets, hash : 0 .. MaxSets, read : 0 .. MaxSets]
<1>0. /\ stored \in 0 .. MaxSets /\ localLine \in 0 .. MaxSets /\ hostLine \in 0 .. MaxSets
      /\ temp \subseteq 0 .. MaxSets /\ sendings \in [Sendings -> S]
      /\ listed \subseteq 1 .. MaxSlots /\ bodies \subseteq 1 .. MaxSlots
      /\ slotDies \in 0 .. MaxSlotDies
    BY DEF Slots!SlotsTypeOK, Slots!Settings, Slots!Blank
<1>1. ASSUME /\ stored' \in 0 .. MaxSets /\ localLine' \in 0 .. MaxSets
             /\ hostLine' \in 0 .. MaxSets /\ temp' \subseteq 0 .. MaxSets
             /\ sendings' \in [Sendings -> S]
             /\ listed' \subseteq 1 .. MaxSlots /\ bodies' \subseteq 1 .. MaxSlots
             /\ slotDies' \in 0 .. MaxSlotDies
      PROVE  Slots!SlotsTypeOK'
    BY <1>1 DEF Slots!SlotsTypeOK, Slots!Settings, Slots!Blank
<1> HIDE DEF S
<1>2. ASSUME NEW r \in Sendings, NEW s \in S, sendings' = [sendings EXCEPT ![r] = s],
             temp' \subseteq 0 .. MaxSets, hostLine' \in 0 .. MaxSets,
             UNCHANGED <<stored, localLine, listed, bodies, slotDies>>
      PROVE  Slots!SlotsTypeOK'
    BY <1>0, <1>1, <1>2
<1>3. ASSUME NEW r \in Sendings, NEW push \in BOOLEAN, Slots!SetSlots(r, push)
      PROVE  Slots!SlotsTypeOK'
    <2>0. MaxSets \in Nat
        BY PartsAssumption
    <2>1. /\ stored < MaxSets /\ stored' = stored + 1 /\ localLine' = stored'
          /\ stored' \in 0 .. MaxSets
        <3>1. stored < MaxSets /\ stored' = stored + 1 /\ localLine' = stored'
            BY <1>3 DEF Slots!SetSlots
        <3> QED BY <1>0, <2>0, <3>1
    <2>2. temp' \subseteq 0 .. MaxSets
        <3>1. temp' \in {{0}, temp}
            BY <1>3 DEF Slots!SetSlots, Slots!Blank
        <3> QED BY <1>0, <2>0, <3>1
    <2>3. PICK n \in 0 .. MaxSets : n = stored'
        BY <2>1
    <2>4. PICK p \in {"temp", "kept"} : p = IF push THEN "temp" ELSE "kept"
        OBVIOUS
    <2>5. [sendings[r] EXCEPT !.own = n, !.pc = p] \in S
        BY <1>0 DEF S
    <2>6. sendings' = [sendings EXCEPT ![r] = [sendings[r] EXCEPT !.own = n, !.pc = p]]
        BY <1>0, <1>3, <2>3, <2>4 DEF Slots!SetSlots
    <2>7. sendings' \in [Sendings -> S]
        BY <1>0, <2>5, <2>6
    <2> QED BY <1>0, <1>1, <1>3, <2>1, <2>2, <2>7 DEF Slots!SetSlots
<1>4. ASSUME NEW r \in Sendings, Slots!WriteTemp(r)
      PROVE  Slots!SlotsTypeOK'
    <2>1. [sendings[r] EXCEPT !.pc = "hash"] \in S /\ sendings[r].own \in 0 .. MaxSets
        BY <1>0 DEF S
    <2> QED BY <1>0, <1>2, <1>4, <2>1 DEF Slots!WriteTemp, Slots!Line
<1>5. ASSUME NEW r \in Sendings, Slots!Hash(r) \/ Slots!PutOpens(r)
      PROVE  Slots!SlotsTypeOK'
    <2>1. ASSUME NEW c \in temp
          PROVE  /\ [sendings[r] EXCEPT !.pc = "put", !.hash = c] \in S
                 /\ [sendings[r] EXCEPT !.pc = "send", !.read = c] \in S
        BY <1>0 DEF S
    <2>2. 0 \in 0 .. MaxSets
        BY PartsAssumption
    <2>3. CASE Slots!Hash(r)
        BY <1>0, <1>2, <2>1, <2>3 DEF Slots!Hash
    <2>4. CASE Slots!PutOpens(r)
        BY <1>0, <1>2, <2>1, <2>2, <2>4 DEF Slots!PutOpens, Slots!Blank
    <2> QED BY <1>5, <2>3, <2>4
<1>6. ASSUME NEW r \in Sendings, Slots!PutEnds(r) \/ Slots!UploadFails(r)
      PROVE  Slots!SlotsTypeOK'
    <2>1. 0 \in 0 .. MaxSets
        BY PartsAssumption
    <2>2. /\ \A p \in {"verify", "bad"} : [sendings[r] EXCEPT !.pc = p, !.read = 0] \in S
          /\ sendings[r].read \in 0 .. MaxSets
        BY <1>0, <2>1 DEF S
    <2>3. CASE Slots!PutEnds(r)
        BY <1>0, <1>2, <2>2, <2>3 DEF Slots!PutEnds, Slots!Blank
    <2>4. CASE Slots!UploadFails(r)
        BY <1>0, <1>2, <2>2, <2>4 DEF Slots!UploadFails, Slots!Blank
    <2> QED BY <1>6, <2>3, <2>4
<1>7. ASSUME NEW r \in Sendings, Slots!Verify(r) \/ Slots!SendingEnds(r)
      PROVE  Slots!SlotsTypeOK'
    <2>1. \A p \in {"good", "bad", "ok", "failed"} : [sendings[r] EXCEPT !.pc = p] \in S
        BY <1>0 DEF S
    <2>2. CASE Slots!Verify(r)
        BY <1>0, <1>2, <2>1, <2>2 DEF Slots!Verify
    <2>3. CASE Slots!SendingEnds(r)
        <3>1. PICK p \in {"ok", "failed"} : sendings' = [sendings EXCEPT ![r].pc = p]
            BY <1>0, <2>3 DEF Slots!SendingEnds
        <3> QED BY <1>0, <1>2, <2>1, <2>3, <3>1 DEF Slots!SendingEnds
    <2> QED BY <1>7, <2>2, <2>3
<1>8. CASE Slots!PanelDies
    <2>1. slotDies' \in 0 .. MaxSlotDies
        BY <1>0, <1>8, PartsAssumption DEF Slots!PanelDies
    <2>2. sendings' \in [Sendings -> S]
        <3>1. 0 \in 0 .. MaxSets
            BY PartsAssumption
        <3> QED BY <1>8, <3>1 DEF Slots!PanelDies, Slots!Blank, S
    <2> QED BY <1>0, <1>1, <1>8, <2>1, <2>2 DEF Slots!PanelDies
<1>9. CASE Slots!ModTick
    <2>1. Slots!Active(hostLine) \subseteq 1 .. MaxSlots
        <3>1. CASE hostLine = 0
            BY <3>1 DEF Slots!Active, Slots!Blank
        <3>2. CASE hostLine # 0
            <4>1. hostLine \in 1 .. MaxSets
                BY <1>0, <3>2, PartsAssumption
            <4>2. CountOf[hostLine] \in 0 .. MaxSlots
                BY <4>1, PartsAssumption
            <4> QED BY <3>2, <4>2, PartsAssumption DEF Slots!Active, Slots!Blank
        <3> QED BY <3>1, <3>2
    <2> QED BY <1>0, <1>1, <1>9, <2>1 DEF Slots!ModTick
<1>10. CASE Slots!GameRestarts
    <2>1. slotDies' \in 0 .. MaxSlotDies
        BY <1>0, <1>10, PartsAssumption DEF Slots!GameRestarts
    <2> QED BY <1>0, <1>1, <1>10, <2>1 DEF Slots!GameRestarts
<1>11. ASSUME NEW t \in 1 .. MaxSlots, Slots!BodyDies(t)
       PROVE  Slots!SlotsTypeOK'
    BY <1>0, <1>1, <1>11 DEF Slots!BodyDies
<1>12. CASE UNCHANGED slotVars
    BY <1>0, <1>1, <1>12 DEF slotVars
<1> QED BY <1>3, <1>4, <1>5, <1>6, <1>7, <1>8, <1>9, <1>10, <1>11, <1>12 DEF Slots!SlotsNext

\* The browsers.
BusTyped == BusInv /\ events \in Nat

LEMMA BusTypedStep == BusTyped /\ [Bus!BusNext]_busVars => BusTyped'
<1> SUFFICES ASSUME BusTyped, [Bus!BusNext]_busVars PROVE BusTyped'
    OBVIOUS
<1>1. BusInv'
    BY BusStep DEF BusTyped
<1>2. events' \in {events, events + 1}
    BY DEF Bus!BusNext, Bus!Accepts, Bus!Connects, Bus!BrowserCloses, Bus!Leaves,
           Bus!Disconnects, Bus!Publishes, Bus!Sends, Bus!Prunes, busVars
<1> QED BY <1>1, <1>2 DEF BusTyped

LEMMA BusTypes == BusTyped => Bus!BusTypeOK
BY DEF BusTyped, BusInv, Bus!BusTypeOK, Bus!Entries, Entry, Issued, Been

\* The wipe of a cell.
WipeTyped ==
    /\ WipeInv /\ saved \subseteq Chunks!Remotes
    /\ spent \in [wipes : 0 .. MaxWipes, saves : 0 .. MaxSaves]

LEMMA WipeTypedStep == WipeTyped /\ [Chunks!ChunkNext]_chunkVars => WipeTyped'
<1> SUFFICES ASSUME WipeTyped, [Chunks!ChunkNext]_chunkVars PROVE WipeTyped'
    OBVIOUS
<1>0. WipeInv' /\ MaxWipes \in Nat /\ MaxSaves \in Nat
    BY WipeStep, PartsAssumption DEF WipeTyped
<1>1. ASSUME NEW w \in Requests, Chunks!Ask(w)
      PROVE  WipeTyped'
    <2>1. spent.wipes + 1 \in 0 .. MaxWipes
        BY <1>0, <1>1 DEF WipeTyped, Chunks!Ask
    <2> QED BY <1>0, <1>1, <2>1 DEF WipeTyped, Chunks!Ask
<1>2. ASSUME Chunks!SavesOne
      PROVE  spent' \in [wipes : 0 .. MaxWipes, saves : 0 .. MaxSaves]
    <2>1. spent.saves + 1 \in 0 .. MaxSaves
        BY <1>0, <1>2 DEF WipeTyped, Chunks!SavesOne
    <2> QED BY <1>2, <2>1 DEF WipeTyped, Chunks!SavesOne
<1>3. ASSUME NEW c \in Copies, Chunks!LocalSave(c)
      PROVE  WipeTyped'
    BY <1>0, <1>2, <1>3 DEF WipeTyped, Chunks!LocalSave, Chunks!Remotes
<1>4. ASSUME NEW r \in Chunks!Remotes, Chunks!HostSave(r)
      PROVE  WipeTyped'
    BY <1>0, <1>2, <1>4 DEF WipeTyped, Chunks!HostSave, Chunks!Remotes
<1>5. ASSUME NEW w \in Requests, Chunks!Delete(w)
      PROVE  WipeTyped'
    <2>1. saved' \subseteq saved /\ spent' = spent
        BY <1>5 DEF Chunks!Delete
    <2> QED BY <1>0, <2>1 DEF WipeTyped, Chunks!Remotes
<1>6. ASSUME NEW w \in Requests, NEW c \in Copies,
             Chunks!Skips(w, c) \/ Chunks!CopyBegins(w, c) \/ Chunks!CopyEnds(w, c)
      PROVE  saved' = saved /\ spent' = spent
    BY <1>6 DEF Chunks!Skips, Chunks!CopyBegins, Chunks!CopyEnds, Chunks!BacksUp
<1>7. ASSUME NEW w \in Requests,
             \/ Chunks!Lists(w) \/ Chunks!ListFails(w) \/ Chunks!CopyFails(w)
             \/ Chunks!Unlink(w) \/ Chunks!Answers(w)
      PROVE  saved' = saved /\ spent' = spent
    BY <1>7 DEF Chunks!Lists, Chunks!ListFails, Chunks!CopyFails, Chunks!Unlink, Chunks!Answers
<1>8. ASSUME Chunks!ChunkTick \/ UNCHANGED chunkVars
      PROVE  saved' = saved /\ spent' = spent
    BY <1>8 DEF Chunks!ChunkTick, chunkVars
<1>9. ASSUME saved' = saved, spent' = spent
      PROVE  WipeTyped'
    BY <1>0, <1>9 DEF WipeTyped, Chunks!Remotes
<1> QED BY <1>1, <1>3, <1>4, <1>5, <1>6, <1>7, <1>8, <1>9 DEF Chunks!ChunkNext

LEMMA WipeTypes == WipeTyped => Chunks!ChunkTypeOK
BY DEF WipeTyped, WipeInv, Wipe, Chunks!ChunkTypeOK

\* The jobs.
JobsTyped ==
    /\ JobsInv /\ mods \in [Jobs!Names -> Items \cup {NoMod}]
    /\ steamcmd \in {"none", "raw", "ready"}
    /\ jobCounts \in [starts : 0 .. MaxJobs, dies : 0 .. MaxJobDies]

LEMMA JobsTypedStep == JobsTyped /\ [Jobs!JobsNext]_jobVars => JobsTyped'
<1> SUFFICES ASSUME JobsTyped, [Jobs!JobsNext]_jobVars PROVE JobsTyped'
    OBVIOUS
<1>0. /\ JobsInv' /\ MaxJobs \in Nat /\ MaxJobDies \in Nat
      /\ mods \in [Jobs!Names -> Items \cup {NoMod}]
      /\ jobCounts \in [starts : 0 .. MaxJobs, dies : 0 .. MaxJobDies]
      /\ steamcmd \in {"none", "raw", "ready"}
    BY JobsStep, PartsAssumption DEF JobsTyped
<1>1. ASSUME NEW t, Jobs!Starts(t)
      PROVE  jobCounts' \in [starts : 0 .. MaxJobs, dies : 0 .. MaxJobDies]
    <2>1. jobCounts.starts + 1 \in 0 .. MaxJobs
        BY <1>0, <1>1 DEF Jobs!Starts
    <2> QED BY <1>0, <1>1, <2>1 DEF Jobs!Starts
<1>2. ASSUME UNCHANGED <<mods, steamcmd>>,
             jobCounts' \in [starts : 0 .. MaxJobs, dies : 0 .. MaxJobDies]
      PROVE  JobsTyped'
    BY <1>0, <1>2 DEF JobsTyped
<1>3. ASSUME UNCHANGED jobCounts, mods' \in [Jobs!Names -> Items \cup {NoMod}],
             steamcmd' \in {"none", "raw", "ready"}
      PROVE  JobsTyped'
    BY <1>0, <1>3 DEF JobsTyped
<1>4. CASE Jobs!StartInstall
    BY <1>1, <1>2, <1>4 DEF Jobs!StartInstall
<1>5. CASE Jobs!StartProvision
    BY <1>1, <1>2, <1>5 DEF Jobs!StartProvision
<1>6. ASSUME NEW ids \in SUBSET Items, NEW missingOnly \in BOOLEAN,
             Jobs!StartDownload(ids, missingOnly)
      PROVE  JobsTyped'
    BY <1>1, <1>2, <1>6 DEF Jobs!StartDownload
<1>7. CASE Jobs!PanelEnds
    <2>1. jobCounts.dies + 1 \in 0 .. MaxJobDies
        BY <1>0, <1>7 DEF Jobs!PanelEnds
    <2>2. jobCounts' \in [starts : 0 .. MaxJobs, dies : 0 .. MaxJobDies]
        BY <1>0, <1>7, <2>1 DEF Jobs!PanelEnds
    <2> QED BY <1>2, <1>7, <2>2 DEF Jobs!PanelEnds
<1>8. ASSUME NEW n \in DOMAIN crew,
             \/ Jobs!Fetch(n) \/ Jobs!MakeDirs(n) \/ Jobs!Resolve(n)
             \/ Jobs!BatchDone(n) \/ Jobs!DownloadEnds(n)
      PROVE  JobsTyped'
    BY <1>0, <1>3, <1>8 DEF Jobs!Fetch, Jobs!MakeDirs, Jobs!Resolve, Jobs!BatchDone,
                            Jobs!DownloadEnds
<1>9. ASSUME NEW n \in DOMAIN crew, Jobs!Extract(n) \/ Jobs!SelfUpdate(n)
      PROVE  JobsTyped'
    BY <1>0, <1>3, <1>9 DEF Jobs!Extract, Jobs!SelfUpdate
<1>10. ASSUME NEW n \in DOMAIN crew, NEW i \in Items, NEW code \in BOOLEAN, NEW folder,
              Jobs!Download(n, i, code, folder)
       PROVE  JobsTyped'
    BY <1>0, <1>3, <1>10 DEF Jobs!Download, Jobs!Linked
<1>11. ASSUME NEW n \in DOMAIN crew, NEW i \in Items, Jobs!LinkFails(n, i)
       PROVE  JobsTyped'
    <2>1. PICK f \in ModsOf[i], links \in SUBSET ModsOf[i] :
             mods' = [Jobs!Linked(links, i) EXCEPT ![f] = NoMod]
        BY <1>11 DEF Jobs!LinkFails
    <2>2. Jobs!Linked(links, i) \in [Jobs!Names -> Items \cup {NoMod}]
        BY <1>0 DEF Jobs!Linked
    <2>3. mods' \in [Jobs!Names -> Items \cup {NoMod}]
        BY <2>1, <2>2
    <2> QED BY <1>0, <1>3, <1>11, <2>3 DEF Jobs!LinkFails
<1>12. ASSUME NEW n \in DOMAIN crew,
              Jobs!Begin(n) \/ Jobs!ProvisionFails(n) \/ Jobs!Probe(n) \/ Jobs!InstallDocker(n)
       PROVE  JobsTyped'
    BY <1>0, <1>3, <1>12 DEF Jobs!Begin, Jobs!ProvisionFails, Jobs!Probe, Jobs!InstallDocker
<1>13. ASSUME NEW n \in DOMAIN crew,
              Jobs!DeployFiles(n) \/ Jobs!DockerUp(n) \/ Jobs!HealthPoll(n)
       PROVE  JobsTyped'
    BY <1>0, <1>3, <1>13 DEF Jobs!DeployFiles, Jobs!DockerUp, Jobs!HealthPoll
<1>14. CASE UNCHANGED jobVars
    BY <1>0, <1>3, <1>14 DEF jobVars
<1> QED BY <1>4, <1>5, <1>6, <1>7, <1>8, <1>9, <1>10, <1>11, <1>12, <1>13, <1>14
        DEF Jobs!JobsNext

LEMMA JobsTypes == JobsTyped => Jobs!JobsTypeOK
BY DEF JobsTyped, JobsInv, JobSorts, Sole, Member, Kinds, Jobs!JobsTypeOK, Jobs!Kinds

\* The monitor.  A worker that was let through to a restart came to start one.
FileIn == [known : 0 .. MaxStamp, seen : 0 .. MaxStamp, auto : BOOLEAN]
Io == [stage : {"none", "fetched", "read", "open"}, new : FileIn,
       op : {"none", "check", "ack", "auto"}, news : BOOLEAN]

MonTyped ==
    /\ FlagInv
    /\ steam \in 1 .. MaxStamp /\ installed \in 0 .. steam
    /\ monFile \in FileIn \cup {Monitor!Torn}
    /\ io \in [{"loop", "worker"} -> Io]
    /\ mon \in {"asleep", "check", "decide", "start"}
    /\ mon = "check" <=> io["worker"] # Monitor!Quiet
    /\ restarting \in BOOLEAN /\ gameUp \in BOOLEAN
    /\ passed \subseteq {"loop", "worker"}
    /\ counts \in [starts : 0 .. MaxStarts, writes : 0 .. MaxWrites, dies : 0 .. MaxMonDies]
    /\ "worker" \in passed => mon = "start"

LEMMA MonAre ==
    /\ MaxStamp \in Nat \ {0} /\ MaxStarts \in Nat /\ MaxWrites \in Nat /\ MaxMonDies \in Nat
    /\ Monitor!Quiet \in Io /\ Monitor!Quiet.stage = "none" /\ Monitor!Quiet.new \in FileIn
    /\ Monitor!NoItem \in FileIn /\ Monitor!Threads = {"loop", "worker"}
<1>1. MaxStamp \in Nat \ {0} /\ MaxStarts \in Nat /\ MaxWrites \in Nat /\ MaxMonDies \in Nat
    BY PartsAssumption
<1>2. Monitor!NoItem \in FileIn
    BY <1>1 DEF Monitor!NoItem, FileIn
<1>3. Monitor!Quiet = [stage |-> "none", op |-> "none", new |-> Monitor!NoItem, news |-> FALSE]
    BY DEF Monitor!Quiet
<1>4. Monitor!Quiet \in Io
    BY <1>2, <1>3 DEF Io
<1> QED BY <1>1, <1>2, <1>3, <1>4 DEF Monitor!Threads

LEMMA MonTypedInitially == PartsInit => MonTyped
<1> SUFFICES ASSUME PartsInit PROVE MonTyped
    OBVIOUS
<1>1. /\ steam = 1 /\ installed = 0 /\ monFile = Monitor!NoItem
      /\ io = [p \in {"loop", "worker"} |-> Monitor!Quiet]
      /\ mon = "asleep" /\ restarting = FALSE /\ passed = {} /\ gameUp = TRUE
      /\ counts = [starts |-> 0, writes |-> 0, dies |-> 0]
    BY DEF PartsInit, Monitor!MonInit, Monitor!Threads
<1>2. counts \in [starts : 0 .. MaxStarts, writes : 0 .. MaxWrites, dies : 0 .. MaxMonDies]
    BY <1>1, MonAre
<1>3. steam \in 1 .. MaxStamp /\ installed \in 0 .. steam
    BY <1>1, MonAre
<1> QED BY <1>1, <1>2, <1>3, MonAre, FlagInitially DEF MonTyped

\* A step of the file: the thread p goes from one place to the next.
LEMMA IoStep ==
    ASSUME MonTyped, FlagInv', NEW p \in {"loop", "worker"}, NEW e \in Io,
           io' = [io EXCEPT ![p] = e],
           monFile' \in FileIn \cup {Monitor!Torn},
           mon' \in {"asleep", "check", "decide", "start"},
           p = "loop" => mon' = mon,
           p = "worker" => (mon' = "check" <=> e # Monitor!Quiet),
           p = "worker" => "worker" \notin passed,
           counts' \in [starts : 0 .. MaxStarts, writes : 0 .. MaxWrites, dies : 0 .. MaxMonDies],
           UNCHANGED <<steam, installed, restarting, passed, gameUp>>
    PROVE  MonTyped'
<1>1. Monitor!Quiet' = Monitor!Quiet
    BY DEF Monitor!Quiet
<1>2. io' \in [{"loop", "worker"} -> Io] /\ io'[p] = e
      /\ \A q \in {"loop", "worker"} : q # p => io'[q] = io[q]
    BY DEF MonTyped
<1> QED BY <1>1, <1>2 DEF MonTyped

LEMMA NewsIsBoolean == \A a, b, c \in Int : Monitor!IsNews(a, b, c) \in BOOLEAN
<1> SUFFICES ASSUME NEW a \in Int, NEW b \in Int, NEW c \in Int
             PROVE  Monitor!IsNews(a, b, c) \in BOOLEAN
    OBVIOUS
<1>1. CASE b = 0 /\ c = 0
    BY <1>1 DEF Monitor!IsNews
<1>2. CASE ~(b = 0 /\ c = 0)
    <2>1. Monitor!IsNews(a, b, c) = (a > IF b # 0 THEN b ELSE c)
        BY <1>2, Zenon DEF Monitor!IsNews
    <2>2. \A x, y \in Int : (x > y) \in BOOLEAN
        OBVIOUS
    <2>3. (IF b # 0 THEN b ELSE c) \in Int
        OBVIOUS
    <2> QED BY <2>1, <2>2, <2>3, Zenon
<1> QED BY <1>1, <1>2

LEMMA FilesIo ==
    ASSUME MonTyped, NEW p \in {"loop", "worker"},
           \/ Monitor!CheckReads(p) \/ Monitor!Truncates(p) \/ Monitor!Writes(p)
           \/ Monitor!SteamFails(p),
           FlagInv'
    PROVE  MonTyped'
<1>0. /\ io[p] \in Io /\ monFile \in FileIn \cup {Monitor!Torn}
      /\ counts \in [starts : 0 .. MaxStarts, writes : 0 .. MaxWrites, dies : 0 .. MaxMonDies]
      /\ mon \in {"asleep", "check", "decide", "start"}
    BY DEF MonTyped
<1>1. io[p].stage # "none" /\ UNCHANGED <<steam, installed, restarting, passed, gameUp, counts>>
    BY DEF Monitor!CheckReads, Monitor!Truncates, Monitor!Writes, Monitor!SteamFails
<1>2. io[p] # Monitor!Quiet
    BY <1>1, MonAre
<1>3. p = "worker" => mon = "check" /\ "worker" \notin passed
    BY <1>2 DEF MonTyped
<1>4. CASE Monitor!CheckReads(p)
    <2>1. Monitor!ReadState \in FileIn
        BY <1>0, MonAre DEF Monitor!ReadState
    <2> DEFINE old == Monitor!ReadState
               news == Monitor!IsNews(io[p].new.known, io[p].new.seen, old.seen)
               seen == IF old.seen # 0 \/ news THEN old.seen ELSE io[p].new.known
               new == [old EXCEPT !.known = io[p].new.known, !.seen = seen]
               e == [stage |-> "read", op |-> "check", news |-> news, new |-> new]
    <2>2. io' = [io EXCEPT ![p] = e]
        BY <1>4 DEF Monitor!CheckReads
    <2>3. io[p].new.known \in 0 .. MaxStamp /\ old.seen \in 0 .. MaxStamp
        BY <1>0, <2>1 DEF Io, FileIn
    <2>4. new \in FileIn
        BY <2>1, <2>3 DEF FileIn
    <2>5. news \in BOOLEAN
        <3>1. /\ io[p].new.known \in Int /\ io[p].new.seen \in Int /\ old.seen \in Int
            BY <1>0, <2>1, MonAre DEF Io, FileIn
        <3> QED BY <3>1, NewsIsBoolean
    <2> HIDE DEF new, news
    <2>6. e \in Io /\ e.stage = "read"
        BY <2>4, <2>5 DEF Io
    <2>7. e # Monitor!Quiet
        BY <2>6, MonAre
    <2> HIDE DEF e
    <2>8. monFile' = monFile /\ mon' = mon
        BY <1>4 DEF Monitor!CheckReads
    <2> QED BY <1>0, <1>1, <1>3, <2>2, <2>6, <2>7, <2>8, IoStep
<1>5. CASE Monitor!Truncates(p)
    <2>1. [io[p] EXCEPT !.stage = "open"] \in Io /\ [io[p] EXCEPT !.stage = "open"].stage = "open"
        BY <1>0 DEF Io
    <2>2. [io[p] EXCEPT !.stage = "open"] # Monitor!Quiet
        BY <2>1, MonAre
    <2>3. io' = [io EXCEPT ![p] = [io[p] EXCEPT !.stage = "open"]]
        BY <1>5 DEF Monitor!Truncates, MonTyped
    <2>4. monFile' = Monitor!Torn /\ mon' = mon
        BY <1>5 DEF Monitor!Truncates
    <2> QED BY <1>0, <1>1, <1>3, <2>1, <2>2, <2>3, <2>4, IoStep
<1>6. CASE Monitor!Writes(p)
    <2>1. /\ io' = [io EXCEPT ![p] = Monitor!Quiet] /\ monFile' = io[p].new
          /\ p # "worker" => mon' = mon
          /\ p = "worker" => mon' \in {"decide", "asleep"}
        BY <1>6 DEF Monitor!Writes
    <2>2. io[p].new \in FileIn
        BY <1>0 DEF Io
    <2> QED BY <1>0, <1>1, <1>3, <2>1, <2>2, MonAre, IoStep
<1>7. CASE Monitor!SteamFails(p)
    <2>1. /\ io' = [io EXCEPT ![p] = Monitor!Quiet] /\ monFile' = monFile
          /\ p # "worker" => mon' = mon
          /\ p = "worker" => mon' = "asleep"
        BY <1>7 DEF Monitor!SteamFails
    <2> QED BY <1>0, <1>1, <1>3, <2>1, MonAre, IoStep
<1> QED BY <1>4, <1>5, <1>6, <1>7

LEMMA RequestsIo ==
    ASSUME MonTyped, FlagInv',
           \/ Monitor!Acknowledge \/ Monitor!CheckNow \/ Monitor!MonitorWakes
           \/ \E on \in BOOLEAN : Monitor!SetAutoRestart(on)
    PROVE  MonTyped'
<1>0. /\ monFile \in FileIn \cup {Monitor!Torn} /\ Monitor!ReadState \in FileIn
      /\ counts \in [starts : 0 .. MaxStarts, writes : 0 .. MaxWrites, dies : 0 .. MaxMonDies]
      /\ mon \in {"asleep", "check", "decide", "start"}
    BY MonAre DEF MonTyped, Monitor!ReadState
<1>1. ASSUME counts.writes < MaxWrites, counts' = [counts EXCEPT !.writes = @ + 1]
      PROVE  counts' \in [starts : 0 .. MaxStarts, writes : 0 .. MaxWrites, dies : 0 .. MaxMonDies]
    <2>1. counts.writes + 1 \in 0 .. MaxWrites
        BY <1>0, <1>1, MonAre
    <2> QED BY <1>0, <1>1, <2>1
<1>2. Monitor!Fetched \in Io /\ Monitor!Fetched # Monitor!Quiet
    <2>1. steam \in 0 .. MaxStamp /\ installed \in 0 .. MaxStamp
        BY MonAre DEF MonTyped
    <2>2. [known |-> steam, seen |-> installed, auto |-> FALSE] \in FileIn
        BY <2>1 DEF FileIn
    <2>3. Monitor!Fetched \in Io /\ Monitor!Fetched.stage = "fetched"
        BY <2>2 DEF Monitor!Fetched, Io
    <2> QED BY <2>3, MonAre
<1>3. ASSUME NEW op \in {"ack", "auto"}, NEW new \in FileIn, Monitor!HandlerReads(op, new)
      PROVE  MonTyped'
    <2>1. [stage |-> "read", op |-> op, new |-> new, news |-> FALSE] \in Io
        BY DEF Io
    <2> QED BY <1>0, <1>1, <1>3, <2>1, IoStep DEF Monitor!HandlerReads
<1>4. CASE Monitor!Acknowledge
    <2>1. [Monitor!ReadState EXCEPT !.seen = IF Monitor!ReadState.known # 0
                                             THEN Monitor!ReadState.known ELSE @] \in FileIn
        BY <1>0 DEF FileIn
    <2> QED BY <1>3, <1>4, <2>1 DEF Monitor!Acknowledge
<1>5. ASSUME NEW on \in BOOLEAN, Monitor!SetAutoRestart(on)
      PROVE  MonTyped'
    <2>1. [Monitor!ReadState EXCEPT !.auto = on] \in FileIn
        BY <1>0 DEF FileIn
    <2> QED BY <1>3, <1>5, <2>1 DEF Monitor!SetAutoRestart
<1>6. CASE Monitor!CheckNow
    BY <1>0, <1>1, <1>2, <1>6, IoStep DEF Monitor!CheckNow
<1>7. CASE Monitor!MonitorWakes
    <2>1. "worker" \notin passed
        BY <1>7 DEF MonTyped, Monitor!MonitorWakes
    <2> QED BY <1>0, <1>2, <1>7, <2>1, IoStep DEF Monitor!MonitorWakes
<1> QED BY <1>4, <1>5, <1>6, <1>7

LEMMA MonTypedStep == MonTyped /\ [Monitor!MonNext]_monVars => MonTyped'
<1> SUFFICES ASSUME MonTyped, [Monitor!MonNext]_monVars PROVE MonTyped'
    OBVIOUS
<1>0. FlagInv'
    BY FlagStep DEF MonTyped
<1>1. Monitor!Quiet' = Monitor!Quiet /\ Monitor!Threads = {"loop", "worker"}
    BY DEF Monitor!Quiet, Monitor!Threads
<1>2. ASSUME UNCHANGED <<steam, installed, monFile, io, mon, passed>>, restarting' \in BOOLEAN,
             gameUp' \in BOOLEAN,
             counts' \in [starts : 0 .. MaxStarts, writes : 0 .. MaxWrites, dies : 0 .. MaxMonDies]
      PROVE  MonTyped'
    BY <1>0, <1>1, <1>2 DEF MonTyped
<1>3. CASE Monitor!SteamUpdates
    <2>1. steam' \in 1 .. MaxStamp /\ installed \in 0 .. steam'
        BY <1>3, MonAre DEF MonTyped, Monitor!SteamUpdates
    <2> QED BY <1>0, <1>1, <1>3, <2>1 DEF MonTyped, Monitor!SteamUpdates
<1>4. CASE Monitor!MirrorInstalls
    <2>1. steam \in 0 .. steam
        BY MonAre DEF MonTyped
    <2> QED BY <1>0, <1>1, <1>4, <2>1 DEF MonTyped, Monitor!MirrorInstalls
<1>5. CASE Monitor!GameStarts
    BY <1>2, <1>5 DEF MonTyped, Monitor!GameStarts
<1>6. CASE Monitor!MonitorDecides
    BY <1>0, <1>1, <1>6 DEF MonTyped, Monitor!MonitorDecides
<1>7. ASSUME counts.starts < MaxStarts, counts' = [counts EXCEPT !.starts = @ + 1]
      PROVE  counts' \in [starts : 0 .. MaxStarts, writes : 0 .. MaxWrites, dies : 0 .. MaxMonDies]
    <2>1. counts.starts + 1 \in 0 .. MaxStarts
        BY <1>7, MonAre DEF MonTyped
    <2> QED BY <1>7, <2>1 DEF MonTyped
<1>8. CASE Monitor!StartBlind
    BY <1>2, <1>7, <1>8 DEF MonTyped, Monitor!StartBlind
<1>9. CASE Monitor!MonitorDies
    <2>1. counts.dies + 1 \in 0 .. MaxMonDies
        BY <1>9, MonAre DEF MonTyped, Monitor!MonitorDies
    <2>2. counts' \in [starts : 0 .. MaxStarts, writes : 0 .. MaxWrites, dies : 0 .. MaxMonDies]
        BY <1>9, <2>1 DEF MonTyped, Monitor!MonitorDies
    <2>3. io' = [p \in {"loop", "worker"} |-> Monitor!Quiet]
        BY <1>1, <1>9 DEF Monitor!MonitorDies
    <2>4. io' \in [{"loop", "worker"} -> Io] /\ io'["worker"] = Monitor!Quiet
        BY <2>3, MonAre
    <2> QED BY <1>0, <1>1, <1>9, <2>2, <2>4 DEF MonTyped, Monitor!MonitorDies
<1>10. ASSUME NEW p \in {"loop", "worker"}, Monitor!StartLooks(p)
       PROVE  MonTyped'
    <2>1. /\ Monitor!Wants(p) /\ p \notin passed
          /\ UNCHANGED <<steam, installed, monFile, io, restarting, rs, gameUp, counts>>
        BY <1>10 DEF Monitor!StartLooks
    <2>2. CASE restarting
        <3>1. p = "worker" /\ mon' = "asleep" /\ passed' = passed /\ mon = "start"
            BY <1>10, <2>1, <2>2 DEF Monitor!StartLooks, Monitor!Wants
        <3> QED BY <1>0, <1>1, <2>1, <3>1 DEF MonTyped
    <2>3. CASE ~ restarting
        <3>1. passed' = passed \cup {p} /\ mon' = mon /\ (p = "worker" => mon = "start")
            BY <1>10, <2>1, <2>3 DEF Monitor!StartLooks, Monitor!Wants
        <3> QED BY <1>0, <1>1, <2>1, <3>1 DEF MonTyped
    <2> QED BY <2>2, <2>3
<1>11. ASSUME NEW p \in {"loop", "worker"}, Monitor!StartSets(p)
       PROVE  MonTyped'
    BY <1>0, <1>1, <1>7, <1>11 DEF MonTyped, Monitor!StartSets
<1>12. ASSUME NEW i \in DOMAIN rs, Monitor!GuidedStep(i)
       PROVE  MonTyped'
    <2>1. gameUp' \in BOOLEAN /\ restarting' \in BOOLEAN
        BY <1>12 DEF MonTyped, Monitor!GuidedStep, Monitor!Rcon, Monitor!FlagAfter
    <2> QED BY <1>2, <1>12, <2>1 DEF MonTyped, Monitor!GuidedStep
<1>13. ASSUME NEW i \in DOMAIN rs, Monitor!BlindStep(i)
       PROVE  MonTyped'
    <2>1. gameUp' \in BOOLEAN
        BY <1>13 DEF MonTyped, Monitor!BlindStep, Monitor!Rcon
    <2> QED BY <1>2, <1>13, <2>1 DEF MonTyped, Monitor!BlindStep
<1>14. CASE UNCHANGED monVars
    BY <1>2, <1>14 DEF MonTyped, monVars
<1> QED BY <1>0, <1>1, <1>3, <1>4, <1>5, <1>6, <1>8, <1>9, <1>10, <1>11, <1>12, <1>13, <1>14,
           FilesIo, RequestsIo DEF Monitor!MonNext

LEMMA MonTypes == MonTyped => Monitor!MonTypeOK
<1>1. DOMAIN Monitor!After = {"warn", "count", "save", "quit"}
    BY DEF Monitor!After
<1> QED BY <1>1, MonAre DEF MonTyped, FlagInv, Run, FileIn, Io, Monitor!MonTypeOK, Monitor!Files

(***************************************************************************)
(* Each part's variables have their types, for every value of the          *)
(* constants: what the handlers, loops and threads write is what their     *)
(* readers expect.                                                         *)
(***************************************************************************)
THEOREM PartsTypes == PartsSpec => []PartsTypeOK
<1> DEFINE PN == [PartsNext]_<<part, vars, schedVars, monVars, deployVars, jobVars, upVars,
                               localVars, busVars, accessVars, chunkVars, slotVars>>
<1>1. PartsInit => Dated /\ SchedInv /\ MonTyped /\ DeployInv /\ JobsTyped /\ FolderInv
                      /\ LocalInv /\ BusTyped /\ AccessInv /\ WipeTyped /\ Slots!SlotsTypeOK
    <2>1. PartsInit => JobsTyped
        BY JobsInitially, PartsAssumption DEF PartsInit, Jobs!JobsInit, JobsTyped
    <2>2. PartsInit => BusTyped
        BY BusInitially DEF PartsInit, Bus!BusInit, BusTyped
    <2>3. PartsInit => WipeTyped
        <3>1. MaxWipes \in Nat /\ MaxSaves \in Nat
            BY PartsAssumption
        <3> QED BY <3>1, WipeInitially DEF PartsInit, Chunks!ChunkInit, WipeTyped
    <2> QED BY <2>1, <2>2, <2>3, HeartbeatInitially, DatedInit, SchedInitially,
               MonTypedInitially, DeployInitially, FolderInitially, LocalInitially,
               AccessInitially, SlotTypesInitially
<1>2. Dated /\ PN => Dated'
    BY HeartbeatOnly, DatedStep
<1>3. SchedInv /\ PN => SchedInv'
    BY SchedOnly, SchedStep
<1>4. MonTyped /\ PN => MonTyped'
    BY MonitorOnly, MonTypedStep
<1>5. DeployInv /\ PN => DeployInv'
    BY DeployOnly, DeployStep
<1>6. JobsTyped /\ PN => JobsTyped'
    BY JobsOnly, JobsTypedStep
<1>7. FolderInv /\ PN => FolderInv'
    BY UpdatesOnly, FolderStep
<1>8. LocalInv /\ PN => LocalInv'
    BY LocalOnly, LocalStep
<1>9. BusTyped /\ PN => BusTyped'
    BY BusOnly, BusTypedStep
<1>10. AccessInv /\ PN => AccessInv'
    BY AccessOnly, AccessStep
<1>11. WipeTyped /\ PN => WipeTyped'
    BY ChunksOnly, WipeTypedStep
<1>12. Slots!SlotsTypeOK /\ PN => Slots!SlotsTypeOK'
    BY SlotsOnly, SlotTypesStep
<1>13. Dated /\ SchedInv /\ MonTyped /\ DeployInv /\ JobsTyped /\ FolderInv
          /\ LocalInv /\ BusTyped /\ AccessInv /\ WipeTyped /\ Slots!SlotsTypeOK => PartsTypeOK
    BY SchedTypes, MonTypes, DeployTypes, JobsTypes, LocalTypes, BusTypes,
       AccessTypes, WipeTypes DEF Dated, FolderInv, PartsTypeOK
<1> QED BY <1>1, <1>2, <1>3, <1>4, <1>5, <1>6, <1>7, <1>8, <1>9, <1>10, <1>11, <1>12, <1>13,
           PTL DEF PartsSpec
=============================================================================
