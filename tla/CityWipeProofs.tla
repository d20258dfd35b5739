--------------------------- MODULE CityWipeProofs ---------------------------
(***************************************************************************)
(* A cleared queue stays cleared.                                          *)
(*                                                                         *)
(* A wipe can start only from a line the mod holds, a line gets there only *)
(* from the file, into the file only from the panel's body, and into a     *)
(* body only from a job that is still queued.  Once the empty file was     *)
(* stored a cleared job is in none of these places, and a job never        *)
(* becomes queued again, so it cannot come back: not through a restart,    *)
(* a torn line, a crash of the panel or a later trigger.                   *)
(*                                                                         *)
(* And wipes start in the order they were asked for: each place further    *)
(* along that way holds only ids that are older than, or known to, those   *)
(* behind it (OrderInv).                                                   *)
(***************************************************************************)
EXTENDS CityWipe, TLAPS

\* A job in forgotten is cleared, and in no place a sweep could come from.
ClearInv ==
    /\ \A i \in forgotten : jobs[i] = "cleared"
    /\ forgotten \cap body = {}
    /\ forgotten \cap Ids(cmdFile) = {}
    /\ forgotten \cap Ids(todo) = {}

Inv == StateOK /\ ClearInv

LEMMA WholeLines ==
    ASSUME NEW S
    PROVE  /\ Ids(Whole(S)) \subseteq S
           /\ Whole(S) \subseteq Line(S)
BY DEF Ids, Whole, Line

LEMMA MoreLines ==
    ASSUME NEW S, NEW T, S \subseteq T
    PROVE  Line(S) \subseteq Line(T)
BY DEF Line

\* A line of more jobs, and the statuses of more jobs.
LEMMA Grown ==
    ASSUME StateOK, NEW s \in Statuses, jobs' = Append(jobs, s)
    PROVE  /\ jobs' \in Seq(Statuses)
           /\ Len(jobs) \in Nat /\ Len(jobs') = Len(jobs) + 1
           /\ Len(jobs') \in DOMAIN jobs'
           /\ DOMAIN jobs \subseteq DOMAIN jobs'
           /\ \A i \in DOMAIN jobs : jobs'[i] = jobs[i]
           /\ jobs'[Len(jobs')] = s
BY DEF StateOK

LEMMA TriggerStep ==
    ASSUME Inv, NEW upload \in BOOLEAN, Trigger(upload) PROVE Inv'
<1> USE DEF Inv
<1>1. "queued" \in Statuses /\ jobs' = Append(jobs, "queued")
    BY DEF Trigger, Statuses
<1>2. /\ jobs' \in Seq(Statuses)
      /\ Len(jobs) \in Nat /\ Len(jobs') = Len(jobs) + 1
      /\ Len(jobs') \in DOMAIN jobs'
      /\ DOMAIN jobs \subseteq DOMAIN jobs'
      /\ \A i \in DOMAIN jobs : jobs'[i] = jobs[i]
      /\ jobs'[Len(jobs')] = "queued"
    BY <1>1, Grown
<1>3. oldest' \in 1 .. Len(jobs') + 1 /\ oldest \in Nat /\ oldest <= Len(jobs')
    BY <1>2, WipeAssumption DEF Trigger, Cut, StateOK
<1>4. PendingJobs(jobs', oldest) \subseteq DOMAIN jobs'
    BY <1>2 DEF PendingJobs, StateOK
<1>5. \A i \in PendingJobs(jobs', oldest) : jobs'[i] = "queued"
    BY DEF PendingJobs
<1>6. UNCHANGED <<cmdFile, jvm, todo, seen, sweeps, earlier, forgotten, lost, restarts, crashes>>
    BY DEF Trigger, mod, history, started, bounds
<1>7. Line(DOMAIN jobs) \subseteq Line(DOMAIN jobs')
    BY <1>2, MoreLines
<1>8. /\ cmdFile' \subseteq Line(DOMAIN jobs') /\ todo' \subseteq Line(DOMAIN jobs')
      /\ seen' \subseteq Line(DOMAIN jobs') /\ forgotten' \subseteq DOMAIN jobs'
    BY <1>2, <1>6, <1>7 DEF StateOK
<1>9. /\ \A i \in forgotten : jobs'[i] = "cleared"
      /\ forgotten \cap PendingJobs(jobs', oldest) = {}
    BY <1>2, <1>5 DEF StateOK, ClearInv
<1>10. CASE filesKind = "remote" /\ ~ upload
    <2>1. UNCHANGED <<panel, serving, body, left>>
        BY <1>10 DEF Trigger, request
    <2> QED BY <1>2, <1>3, <1>6, <1>8, <1>9, <2>1 DEF StateOK, ClearInv, Ids
<1>11. CASE ~ (filesKind = "remote" /\ ~ upload)
    <2>1. /\ body' = PendingJobs(jobs', oldest)
          /\ serving' = IF upload THEN Len(jobs') ELSE 0
          /\ panel' = IF filesKind = "local" THEN "write" ELSE "upload"
          /\ left' = IF filesKind = "remote" THEN 0 ELSE IF upload THEN 2 ELSE 1
        BY <1>11 DEF Trigger
    <2>2. Len(jobs') \in PendingJobs(jobs', oldest)
        BY <1>2, <1>3 DEF PendingJobs
    <2>3. serving' \in body' \cup {0}
        BY <2>1, <2>2
    <2>4. panel' \in {"write", "upload"} /\ left' \in Nat /\ (panel' = "write" => left' > 0)
        BY <2>1, WipeAssumption
    <2> QED BY <1>2, <1>3, <1>4, <1>6, <1>8, <1>9, <2>1, <2>3, <2>4 DEF StateOK, ClearInv, Ids
<1> QED BY <1>10, <1>11

LEMMA ClearStep == ASSUME Inv, ClearQueue PROVE Inv'
<1> USE DEF Inv
<1>1. /\ DOMAIN jobs' = DOMAIN jobs
      /\ \A i \in DOMAIN jobs : jobs'[i] \in Statuses
      /\ \A i \in DOMAIN jobs : jobs[i] = "cleared" => jobs'[i] = "cleared"
    BY DEF ClearQueue, StateOK, Statuses
<1>2. jobs' \in Seq(Statuses) /\ Len(jobs') = Len(jobs)
    BY <1>1 DEF ClearQueue, StateOK
<1>3. /\ UNCHANGED <<oldest, cmdFile, jvm, todo, seen, sweeps, earlier, forgotten,
                     lost, restarts, crashes>>
      /\ body' = {} /\ serving' = 0 /\ panel' \in {"write", "upload"}
      /\ left' \in Nat /\ (panel' = "write" => left' > 0)
    BY DEF ClearQueue, mod, history, started, bounds
<1> QED BY <1>1, <1>2, <1>3 DEF StateOK, ClearInv, Ids

\* The end of a request blames a job of the body, which is never forgotten.
LEMMA EndKeeps ==
    ASSUME Inv, NEW uploaded \in BOOLEAN, EndRequest(uploaded)
    PROVE  /\ jobs' \in Seq(Statuses) /\ DOMAIN jobs' = DOMAIN jobs
           /\ Len(jobs') = Len(jobs) /\ panel' = "idle" /\ body' = {} /\ serving' = 0
           /\ \A i \in forgotten : jobs'[i] = "cleared"
<1> USE DEF Inv
<1>1. panel' = "idle" /\ body' = {} /\ serving' = 0
    BY DEF EndRequest
<1>2. CASE jobs' = jobs
    BY <1>1, <1>2 DEF StateOK, ClearInv
<1>3. CASE serving # 0 /\ jobs' = [jobs EXCEPT ![serving] = "upload_failed"]
    <2>1. serving \in body /\ "upload_failed" \in Statuses
        BY <1>3 DEF StateOK, Statuses
    <2>2. serving \notin forgotten
        BY <2>1 DEF ClearInv
    <2> QED BY <1>1, <1>3, <2>1, <2>2 DEF StateOK, ClearInv
<1> QED BY <1>1, <1>2, <1>3 DEF EndRequest

\* Writing the body forgets nothing of it, and only what nobody holds.
LEMMA StoreKeeps ==
    ASSUME Inv, StoreBody
    PROVE  /\ cmdFile' \subseteq Line(DOMAIN jobs) /\ forgotten' \subseteq DOMAIN jobs
           /\ \A i \in forgotten' : jobs[i] = "cleared"
           /\ forgotten' \cap body = {}
           /\ forgotten' \cap Ids(cmdFile') = {}
           /\ forgotten' \cap Ids(todo) = {}
<1> USE DEF Inv
<1>1. cmdFile' = Whole(body) /\ Ids(Whole(body)) \subseteq body
    BY WholeLines DEF StoreBody
<1>2. cmdFile' \subseteq Line(DOMAIN jobs)
    BY <1>1, WholeLines, MoreLines DEF StateOK
<1>3. CASE body # {}
    BY <1>1, <1>2, <1>3 DEF StoreBody, StateOK, ClearInv
<1>4. CASE body = {}
    BY <1>1, <1>2, <1>4 DEF StoreBody, StateOK, ClearInv
<1> QED BY <1>3, <1>4

LEMMA WriteStep == ASSUME Inv, WriteLocalCmd PROVE Inv'
<1> USE DEF Inv
<1>1. /\ StoreBody /\ panel = "write" /\ left' = left - 1
      /\ UNCHANGED <<oldest, jvm, todo, seen, sweeps, earlier, lost, restarts, crashes>>
    BY DEF WriteLocalCmd, mod, started, bounds
<1>2. left' \in Nat /\ (left # 1 => left' > 0)
    BY <1>1 DEF StateOK
<1>3. CASE left = 1
    <2>1. EndRequest(FALSE)
        BY <1>3 DEF WriteLocalCmd
    <2>2. /\ jobs' \in Seq(Statuses) /\ DOMAIN jobs' = DOMAIN jobs
          /\ Len(jobs') = Len(jobs) /\ panel' = "idle" /\ body' = {} /\ serving' = 0
        BY <2>1, EndKeeps
    <2>3. \A i \in forgotten' : jobs'[i] = "cleared"
        <3>1. \A i \in forgotten' : jobs[i] = "cleared" /\ i \notin body
            BY <1>1, StoreKeeps
        <3>2. \A i \in forgotten' : i \in DOMAIN jobs /\ i # 0
            BY <1>1, StoreKeeps DEF StateOK
        <3>3. serving \in body \cup {0}
            BY DEF StateOK
        <3> QED BY <2>1, <3>1, <3>2, <3>3 DEF EndRequest, StateOK
    <2> QED BY <1>1, <1>2, <2>2, <2>3, StoreKeeps DEF StateOK, ClearInv, Ids
<1>4. CASE left # 1
    <2>1. UNCHANGED <<panel, serving, body, jobs>>
        BY <1>4 DEF WriteLocalCmd
    <2> QED BY <1>1, <1>2, <1>4, <2>1, StoreKeeps DEF StateOK, ClearInv, Ids
<1> QED BY <1>3, <1>4

LEMMA StoredStep == ASSUME Inv, UploadStored PROVE Inv'
<1>1. /\ StoreBody /\ panel' = "verify"
      /\ UNCHANGED <<jobs, oldest, serving, body, left, jvm, todo, seen, sweeps, earlier,
                     lost, restarts, crashes>>
    BY DEF UploadStored, queue, mod, started, bounds
<1> QED BY <1>1, StoreKeeps DEF Inv, StateOK, ClearInv, Ids

\* A file made of the body's lines, whole or torn, holds nothing forgotten.
LEMMA BodyLines ==
    ASSUME Inv, NEW lines, lines \subseteq Line(body)
    PROVE  lines \subseteq Line(DOMAIN jobs) /\ forgotten \cap Ids(lines) = {}
<1>1. \A l \in Line(body) : l.id \in body
    BY DEF Line
<1>2. Ids(lines) \subseteq body
    BY <1>1 DEF Ids
<1>3. Line(body) \subseteq Line(DOMAIN jobs)
    BY MoreLines DEF Inv, StateOK
<1> QED BY <1>2, <1>3 DEF Inv, ClearInv

LEMMA StoredLines ==
    ASSUME NEW k \in body, NEW lines \in Stored(k)
    PROVE  lines \subseteq Line(body)
<1>1. PICK torn \in {{}} \cup {{[id |-> k, cut |-> c]} : c \in TornCuts} :
          lines = Whole({i \in body : i < k}) \cup torn
    BY DEF Stored
<1>2. Whole({i \in body : i < k}) \subseteq Line(body)
    BY WholeLines, MoreLines
<1>3. torn \subseteq Line(body)
    BY <1>1 DEF Line
<1> QED BY <1>1, <1>2, <1>3

LEMMA PartStep == ASSUME Inv, StorePart PROVE Inv'
<1>1. /\ UNCHANGED <<jobs, oldest, serving, body, jvm, todo, seen, sweeps, earlier, forgotten,
                     lost, restarts, crashes>>
      /\ panel' = "storing" /\ left' \in body
    BY DEF StorePart, queue, mod, history, started, bounds
<1>2. PICK k \in body : cmdFile' \in Stored(k)
    BY DEF StorePart
<1>3. cmdFile' \subseteq Line(DOMAIN jobs) /\ forgotten \cap Ids(cmdFile') = {}
    BY <1>2, StoredLines, BodyLines
<1>4. left' \in Nat
    BY <1>1 DEF Inv, StateOK
<1> QED BY <1>1, <1>3, <1>4 DEF Inv, StateOK, ClearInv, Ids

LEMMA RestStep == ASSUME Inv, StoreRest PROVE Inv'
<1>1. /\ UNCHANGED <<jobs, oldest, serving, body, jvm, todo, seen, sweeps, earlier, forgotten,
                     restarts, crashes>>
      /\ panel' = "verify" /\ left' = 0
    BY DEF StoreRest, queue, mod, started, bounds
<1>2. cmdFile' \subseteq Line(body)
    BY WholeLines, MoreLines DEF StoreRest
<1>3. cmdFile' \subseteq Line(DOMAIN jobs) /\ forgotten \cap Ids(cmdFile') = {}
    BY <1>2, BodyLines
<1>4. lost' \subseteq Nat
    <2>1. body \subseteq Nat /\ lost \subseteq Nat
        BY DEF Inv, StateOK
    <2> QED BY <2>1 DEF StoreRest
<1> QED BY <1>1, <1>3, <1>4 DEF Inv, StateOK, ClearInv, Ids

LEMMA BrokenStep == ASSUME Inv, UploadBroken PROVE Inv'
<1> USE DEF Inv
<1>1. /\ EndRequest(FALSE) /\ left' = 0
      /\ UNCHANGED <<oldest, jvm, todo, seen, sweeps, earlier, forgotten, lost, restarts,
                     crashes>>
    BY DEF UploadBroken, mod, history, started, bounds
<1>2. cmdFile' \subseteq Line(DOMAIN jobs) /\ forgotten \cap Ids(cmdFile') = {}
    <2>1. CASE UNCHANGED cmdFile
        BY <2>1 DEF StateOK, ClearInv
    <2>2. CASE \E k \in body : cmdFile' \in Stored(k)
        BY <2>2, StoredLines, BodyLines
    <2> QED BY <2>1, <2>2 DEF UploadBroken
<1> QED BY <1>1, <1>2, EndKeeps DEF StateOK, ClearInv, Ids

LEMMA VerifiedStep == ASSUME Inv, UploadVerified PROVE Inv'
<1>1. /\ \E uploaded \in BOOLEAN : EndRequest(uploaded)
      /\ UNCHANGED <<oldest, left, cmdFile, jvm, todo, seen, sweeps, earlier, forgotten,
                     lost, restarts, crashes>>
    <2>1. PICK answered \in BOOLEAN : EndRequest(answered /\ cmdFile = Whole(body))
        BY DEF UploadVerified
    <2>2. (answered /\ cmdFile = Whole(body)) \in BOOLEAN
        OBVIOUS
    <2> QED BY <2>1, <2>2 DEF UploadVerified, mod, history, started, bounds
<1> QED BY <1>1, EndKeeps DEF Inv, StateOK, ClearInv, Ids

LEMMA CrashStep ==
    ASSUME Inv, NEW torn \in BOOLEAN, PanelCrash(torn) PROVE Inv'
<1>1. /\ UNCHANGED <<jobs, cmdFile, jvm, todo, seen, sweeps, earlier, forgotten, lost, restarts>>
      /\ panel' = "idle" /\ serving' = 0 /\ body' = {} /\ left' = 0
      /\ crashes' = crashes + 1
    BY DEF PanelCrash, mod, history, started
<1>2. oldest' \in 1 .. Len(jobs') + 1
    BY <1>1 DEF PanelCrash, Inv, StateOK
<1> QED BY <1>1, <1>2 DEF Inv, StateOK, ClearInv, Ids

\* A sweep starts only for a line the mod holds.
LEMMA ApplyStep ==
    ASSUME Inv, NEW l \in todo, ApplyLine(l) PROVE Inv'
<1>1. /\ UNCHANGED <<jobs, oldest, panel, serving, body, left, cmdFile, earlier, forgotten,
                     lost, restarts, crashes>>
      /\ todo' = todo \ {l} /\ jvm' \in {"idle", "apply"}
    BY DEF ApplyLine, queue, request, bounds
<1>2. l \in Line(Nat)
    BY MoreLines DEF Inv, StateOK
<1>3. CASE UNCHANGED <<seen, sweeps>>
    BY <1>1, <1>3 DEF Inv, StateOK, ClearInv, Ids
<1>4. CASE seen' = seen \cup {l} /\ sweeps' = Append(sweeps, l)
    <2>1. seen' \subseteq Line(DOMAIN jobs)
        BY <1>4 DEF Inv, StateOK
    <2>2. sweeps' \in Seq(Line(Nat))
        BY <1>2, <1>4 DEF Inv, StateOK
    <2> QED BY <1>1, <2>1, <2>2 DEF Inv, StateOK, ClearInv, Ids
<1> QED BY <1>3, <1>4 DEF ApplyLine

LEMMA NoLineIsLine == NoLine \in Line(Nat) /\ NoLine.id = 0 /\ NoLine.cut = "whole"
BY DEF NoLine, Line

LEMMA ModStep ==
    ASSUME Inv, PollRead \/ PollClear \/ ClientTrigger \/ JvmStop \/ JvmStart
                \/ \E n \in 1 .. MaxInGame : ClientBatch(n)
    PROVE  Inv'
<1> USE DEF Inv, queue, request, mod, history, started, bounds
<1>1. CASE PollRead
    BY <1>1 DEF PollRead, StateOK, ClearInv, Ids
<1>2. CASE PollClear
    BY <1>2 DEF PollClear, StateOK, ClearInv, Ids
<1>3. CASE ClientTrigger
    BY <1>3, NoLineIsLine DEF ClientTrigger, StateOK, ClearInv, Ids
<1>4. ASSUME NEW n \in 1 .. MaxInGame, ClientBatch(n) PROVE Inv'
    <2>1. n \in Nat /\ [i \in 1 .. n |-> NoLine] \in Seq(Line(Nat))
        BY <1>4, WipeAssumption, NoLineIsLine
    <2>2. sweeps' \in Seq(Line(Nat))
        BY <1>4, <2>1 DEF ClientBatch, StateOK
    <2>3. UNCHANGED <<jobs, oldest, panel, serving, body, left, cmdFile, jvm, todo, seen,
                      earlier, forgotten, lost, restarts, crashes>>
        BY <1>4 DEF ClientBatch
    <2> QED BY <2>2, <2>3 DEF StateOK, ClearInv, Ids
<1>5. CASE JvmStop
    <2>1. {sweeps[n].id : n \in DOMAIN sweeps} \subseteq Nat /\ <<>> \in Seq(Line(Nat))
        <3>1. \A n \in DOMAIN sweeps : sweeps[n] \in Line(Nat)
            BY DEF StateOK
        <3> QED BY <3>1 DEF Line
    <2>2. sweeps' \in Seq(Line(Nat)) /\ earlier' \subseteq Nat
        BY <1>5, <2>1 DEF JvmStop, StateOK
    <2>3. /\ UNCHANGED <<jobs, oldest, panel, serving, body, left, cmdFile, forgotten, lost, crashes>>
          /\ jvm' = "down" /\ todo' = {} /\ seen' = {} /\ restarts' = restarts + 1
        BY <1>5 DEF JvmStop
    <2> QED BY <2>2, <2>3 DEF StateOK, ClearInv, Ids
<1>6. CASE JvmStart
    BY <1>6 DEF JvmStart, StateOK, ClearInv, Ids
<1> QED BY <1>1, <1>2, <1>3, <1>4, <1>5, <1>6

LEMMA InvInit == Init => Inv
BY WipeAssumption DEF Init, Inv, StateOK, ClearInv, Ids

LEMMA InvStep == Inv /\ [Next]_vars => Inv'
<1> SUFFICES ASSUME Inv, [Next]_vars PROVE Inv'
    OBVIOUS
<1>1. CASE UNCHANGED vars
    BY <1>1 DEF vars, queue, request, mod, history, started, bounds, Inv, StateOK, ClearInv, Ids
<1> QED
    BY <1>1, TriggerStep, ClearStep, WriteStep, StoredStep, PartStep, RestStep, BrokenStep,
       VerifiedStep, CrashStep, ApplyStep, ModStep DEF Next

\* No step changes the profile.
LEMMA ProfileStays == [Next]_vars => UNCHANGED filesKind
<1>1. CASE Next
    BY <1>1 DEF Next, Trigger, ClearQueue, WriteLocalCmd, UploadStored, StorePart, StoreRest,
                UploadBroken, UploadVerified, PanelCrash, PollRead, PollClear, ApplyLine, ClientTrigger,
                ClientBatch, JvmStop, JvmStart
<1> QED BY <1>1 DEF vars

\* Every variable of the wipe bridge stays in its type.
THEOREM WipeTypeCorrect == Spec => []TypeOK
<1>1. Init => ProfileOK
    BY WipeAssumption DEF Init, ProfileOK
<1>2. ProfileOK /\ [Next]_vars => ProfileOK'
    BY ProfileStays DEF ProfileOK
<1>3. Inv /\ ProfileOK => TypeOK
    BY DEF Inv, TypeOK
<1> QED BY <1>1, <1>2, <1>3, InvInit, InvStep, PTL DEF Spec

\* What a step adds to the sweeps of this JVM is not a forgotten job.
LEMMA NewSweep ==
    ASSUME Inv, [Next]_vars, NEW n \in DOMAIN sweeps' \ DOMAIN sweeps
    PROVE  sweeps'[n].id \notin forgotten
<1>1. ASSUME NEW l \in todo, ApplyLine(l) PROVE sweeps'[n].id \notin forgotten
    <2>1. l.id \notin forgotten /\ sweeps \in Seq(Line(Nat))
        BY DEF Inv, StateOK, ClearInv, Ids
    <2>2. sweeps' = Append(sweeps, l)
        BY <1>1 DEF ApplyLine
    <2>3. sweeps'[n] = l
        BY <2>1, <2>2
    <2> QED BY <2>1, <2>3
<1>2. NoLine.id \notin forgotten
    BY NoLineIsLine DEF Inv, StateOK
<1>3. CASE ClientTrigger
    <2>1. sweeps' = Append(sweeps, NoLine) /\ sweeps \in Seq(Line(Nat))
        BY <1>3 DEF ClientTrigger, Inv, StateOK
    <2>2. sweeps'[n] = NoLine
        BY <2>1
    <2> QED BY <1>2, <2>2
<1>4. ASSUME NEW k \in 1 .. MaxInGame, ClientBatch(k) PROVE sweeps'[n].id \notin forgotten
    <2>1. /\ k \in Nat /\ [i \in 1 .. k |-> NoLine] \in Seq(Line(Nat))
          /\ sweeps \in Seq(Line(Nat))
          /\ sweeps' = sweeps \o [i \in 1 .. k |-> NoLine]
          /\ Len([i \in 1 .. k |-> NoLine]) = k
        BY <1>4, WipeAssumption, NoLineIsLine DEF ClientBatch, Inv, StateOK
    <2>2. sweeps'[n] = NoLine
        BY <2>1
    <2> QED BY <1>2, <2>2
<1>5. CASE JvmStop
    BY <1>5 DEF JvmStop
<1>6. CASE UNCHANGED sweeps
    BY <1>6
<1> QED
    BY <1>1, <1>3, <1>4, <1>5, <1>6
    DEF Next, Trigger, ClearQueue, WriteLocalCmd, UploadStored, StorePart, StoreRest,
        UploadBroken, UploadVerified, PanelCrash, PollRead, PollClear, JvmStart, vars,
        history, started

\* A wipe that was cleared and left the file never starts again.
THEOREM ClearedWipesStayCleared == Spec => ClearHolds
<1>1. Inv /\ [Next]_vars
        => [\A n \in DOMAIN sweeps' \ DOMAIN sweeps : sweeps'[n].id \notin forgotten]_vars
    BY NewSweep
<1> QED BY <1>1, InvInit, InvStep, PTL DEF Spec, ClearHolds
-----------------------------------------------------------------------------
(***************************************************************************)
(* Wipes start in the order they were triggered.  A line passes from the   *)
(* queue to the body, the file, the lines the mod read and the nonces it   *)
(* noted.  At each of these places, whatever an earlier stage still holds  *)
(* that is older than something here is here as well, or fell into a hole  *)
(* of the file (lost): every body is the whole queue, every file a body,   *)
(* the beginning of one, or what comes behind a hole.  So the oldest line  *)
(* the mod has not noted is younger than every line it has.  Torn lines    *)
(* have nonces of their own and are left out of all this.                  *)
(***************************************************************************)

\* What of R is older than something in A is in C.
Follows(A, R, C) == \A b \in A, a \in R : a < b => a \in C

\* Nonces noted, ids lost, lines read, the file, the body and the queue.
Ordered(S, L, T, F, B, P) ==
    /\ Follows(S, T \cup F \cup B \cup P, S \cup L)
    /\ Follows(T, F \cup B \cup P, T \cup S \cup L)
    /\ Follows(F, B \cup P, F \cup L)
    /\ Follows(B, P, B \cup L)

Pending == PendingJobs(jobs, oldest)

\* The ids of the whole lines.
WIds(lines) == {l.id : l \in {x \in lines : x.cut = "whole"}}

SweepsNoted == \A n \in DOMAIN sweeps : ByLine(sweeps[n]) => sweeps[n].id \in WIds(seen)

OrderInv ==
    /\ SweepsNoted /\ StartsInOrder
    /\ Ordered(WIds(seen), lost, WIds(todo), WIds(cmdFile), body, Pending)

LEMMA IdsOfWhole == ASSUME NEW S PROVE WIds(Whole(S)) = S
<1>1. \A i \in S : [id |-> i, cut |-> "whole"] \in Whole(S)
    BY DEF Whole
<1>2. \A i \in S : i \in WIds(Whole(S))
    <2> TAKE i \in S
    <2>1. [id |-> i, cut |-> "whole"].id = i /\ [id |-> i, cut |-> "whole"].cut = "whole"
        OBVIOUS
    <2> QED BY <1>1, <2>1 DEF WIds
<1>3. WIds(Whole(S)) \subseteq S
    BY DEF WIds, Whole
<1> QED BY <1>2, <1>3

\* A torn line counts for nothing.
LEMMA TornCounts ==
    ASSUME NEW lines, NEW torn, \A l \in torn : l.cut # "whole"
    PROVE  WIds(lines \cup torn) = WIds(lines) /\ WIds(lines \ torn) = WIds(lines)
<1>1. {x \in lines \cup torn : x.cut = "whole"} = {x \in lines : x.cut = "whole"}
    OBVIOUS
<1>2. {x \in lines \ torn : x.cut = "whole"} = {x \in lines : x.cut = "whole"}
    OBVIOUS
<1> QED BY <1>1, <1>2 DEF WIds

\* The ids the mod holds are those of jobs that exist.
LEMMA KnownIds ==
    ASSUME StateOK
    PROVE  /\ WIds(seen) \subseteq DOMAIN jobs /\ WIds(todo) \subseteq DOMAIN jobs
           /\ WIds(cmdFile) \subseteq DOMAIN jobs /\ body \subseteq DOMAIN jobs
           /\ Pending \subseteq DOMAIN jobs /\ DOMAIN jobs = 1 .. Len(jobs)
           /\ Len(jobs) \in Nat
<1>1. ASSUME NEW lines, lines \subseteq Line(DOMAIN jobs) PROVE WIds(lines) \subseteq DOMAIN jobs
    BY <1>1 DEF WIds, Line
<1>2. Pending \subseteq DOMAIN jobs /\ DOMAIN jobs = 1 .. Len(jobs) /\ Len(jobs) \in Nat
    BY DEF StateOK, Pending, PendingJobs
<1> QED BY <1>1, <1>2 DEF StateOK

\* Stages that lose what they hold keep the order.
LEMMA OrderedLess ==
    ASSUME NEW S, NEW L, NEW T, NEW F, NEW B, NEW P, NEW B2, NEW P2,
           Ordered(S, L, T, F, B, P), B2 = B \/ B2 = {}, P2 \subseteq P
    PROVE  Ordered(S, L, T, F, B2, P2)
BY DEF Ordered, Follows

\* The file becomes the body.
LEMMA OrderedStore ==
    ASSUME NEW S, NEW L, NEW T, NEW F, NEW B, NEW P, Ordered(S, L, T, F, B, P)
    PROVE  Ordered(S, L, T, B, B, P)
BY DEF Ordered, Follows

\* The file becomes the beginning of a body.
LEMMA OrderedPart ==
    ASSUME NEW S, NEW L, NEW T, NEW F, NEW B, NEW P, NEW F2, NEW k \in Int,
           Ordered(S, L, T, F, B, P), B \subseteq Int, P \subseteq Int, F2 = {i \in B : i < k}
    PROVE  Ordered(S, L, T, F2, B, P)
<1>1. Follows(S, T \cup F2 \cup B \cup P, S \cup L)
    BY DEF Ordered, Follows
<1>2. Follows(T, F2 \cup B \cup P, T \cup S \cup L)
    BY DEF Ordered, Follows
<1>3. Follows(F2, B \cup P, F2 \cup L)
    <2> SUFFICES ASSUME NEW b \in B, b < k, NEW a \in B \cup P, a < b, a \notin L
                 PROVE  a \in B /\ a < k
        BY DEF Follows
    <2>1. a \in B
        BY DEF Ordered, Follows
    <2> QED BY <2>1
<1>4. Follows(B, P, B \cup L)
    BY DEF Ordered
<1> QED BY <1>1, <1>2, <1>3, <1>4 DEF Ordered

\* The file becomes what of the body lies behind a hole.
LEMMA OrderedHole ==
    ASSUME NEW S, NEW L, NEW T, NEW F, NEW B, NEW P, Ordered(S, L, T, F, B, P),
           NEW F2 \in SUBSET B
    PROVE  Ordered(S, L \cup (B \ F2), T, F2, B, P)
<1>1. Follows(S, T \cup F2 \cup B \cup P, S \cup L)
    BY DEF Ordered, Follows
<1>2. Follows(T, F2 \cup B \cup P, T \cup S \cup L)
    BY DEF Ordered, Follows
<1>3. Follows(F2, B \cup P, B \cup L) /\ Follows(B, P, B \cup L)
    BY DEF Ordered, Follows
<1> QED BY <1>1, <1>2, <1>3 DEF Ordered, Follows

\* A job younger than everything joins the queue; the body may become the queue.
LEMMA OrderedTrigger ==
    ASSUME NEW S, NEW L, NEW T, NEW F, NEW B, NEW P, NEW B2, NEW P2, NEW n,
           Ordered(S, L, T, F, B, P), \A x \in S \cup T \cup F \cup B \cup P : ~ (n < x),
           ~ (n < n), P2 \subseteq P \cup {n},
           B2 = B \/ (P2 \subseteq B2 /\ B2 \subseteq P \cup {n})
    PROVE  Ordered(S, L, T, F, B2, P2)
<1>1. CASE B2 = B
    BY <1>1 DEF Ordered, Follows
<1>2. CASE P2 \subseteq B2 /\ B2 \subseteq P \cup {n}
    BY <1>2 DEF Ordered, Follows
<1> QED BY <1>1, <1>2

\* The mod reads the file, empties it, forgets everything.
LEMMA OrderedMod ==
    ASSUME NEW S, NEW L, NEW T, NEW F, NEW B, NEW P, Ordered(S, L, T, F, B, P)
    PROVE  /\ Ordered(S, L, F, F, B, P)
           /\ Ordered(S, L, T, {}, B, P)
           /\ Ordered({}, L, {}, F, B, P)
BY DEF Ordered, Follows

\* The mod notes the oldest line it holds.
LEMMA OrderedApply ==
    ASSUME NEW S, NEW L, NEW T, NEW F, NEW B, NEW P, NEW T2, NEW i \in T,
           Ordered(S, L, T, F, B, P),
           \A x \in T : ~ (x < i), T2 \subseteq T, T \subseteq T2 \cup {i}
    PROVE  Ordered(S \cup {i}, L, T2, F, B, P)
<1>1. Follows(S \cup {i}, T2 \cup F \cup B \cup P, S \cup {i} \cup L)
    BY DEF Ordered, Follows
<1>2. Follows(T2, F \cup B \cup P, T2 \cup (S \cup {i}) \cup L)
    BY DEF Ordered, Follows
<1> QED BY <1>1, <1>2 DEF Ordered

\* What the mod does not touch: its lines, its nonces and its sweeps.
LEMMA OrderQuiet ==
    ASSUME OrderInv, UNCHANGED <<todo, seen, sweeps>>, lost \subseteq lost',
           Ordered(WIds(seen), lost', WIds(todo), WIds(cmdFile'), body', Pending')
    PROVE  OrderInv'
<1>1. SweepsNoted' /\ StartsInOrder'
    BY DEF OrderInv, SweepsNoted, StartsInOrder, ByLine
<1>2. WIds(seen') = WIds(seen) /\ WIds(todo') = WIds(todo)
    OBVIOUS
<1> QED BY <1>1, <1>2 DEF OrderInv

LEMMA TriggerOrder ==
    ASSUME StateOK, OrderInv, NEW upload \in BOOLEAN, Trigger(upload) PROVE OrderInv'
<1>1. "queued" \in Statuses /\ jobs' = Append(jobs, "queued")
    BY DEF Trigger, Statuses
<1>2. /\ Len(jobs) \in Nat /\ Len(jobs') = Len(jobs) + 1
      /\ \A i \in DOMAIN jobs : jobs'[i] = jobs[i]
    BY <1>1, Grown
<1>3. oldest \in Nat /\ oldest' \in Nat /\ oldest' >= oldest
    BY <1>2, WipeAssumption DEF Trigger, Cut, StateOK
<1>4. PendingJobs(jobs', oldest) \subseteq Pending \cup {Len(jobs')}
    BY <1>2, <1>3, KnownIds DEF Pending, PendingJobs, StateOK
<1>5. Pending' \subseteq PendingJobs(jobs', oldest)
    BY <1>2, <1>3 DEF Pending, PendingJobs
<1>6. body' = body \/ body' = PendingJobs(jobs', oldest)
    BY DEF Trigger, request
<1>7. UNCHANGED <<cmdFile, todo, seen, sweeps, lost>>
    BY DEF Trigger, mod, history, started
<1>8. \A x \in WIds(seen) \cup WIds(todo) \cup WIds(cmdFile) \cup body \cup Pending :
          ~ (Len(jobs') < x)
    BY <1>2, KnownIds
<1>9. Ordered(WIds(seen), lost, WIds(todo), WIds(cmdFile), body', Pending')
    <2> DEFINE n == Len(jobs')
    <2>1. ~ (n < n)
        BY <1>2
    <2> HIDE DEF n
    <2>2. Ordered(WIds(seen), lost, WIds(todo), WIds(cmdFile), body, Pending)
        BY DEF OrderInv
    <2>3. \A x \in WIds(seen) \cup WIds(todo) \cup WIds(cmdFile) \cup body \cup Pending : ~ (n < x)
        BY <1>8 DEF n
    <2>4. PendingJobs(jobs', oldest) \subseteq Pending \cup {n}
        BY <1>4 DEF n
    <2> QED BY <1>5, <1>6, <2>1, <2>2, <2>3, <2>4, OrderedTrigger
<1> QED BY <1>7, <1>9, OrderQuiet DEF OrderInv

LEMMA ClearOrder == ASSUME StateOK, OrderInv, ClearQueue PROVE OrderInv'
<1>1. UNCHANGED <<oldest, cmdFile, todo, seen, sweeps, lost>> /\ body' = {}
    BY DEF ClearQueue, mod, history, started
<1>2. Pending' \subseteq Pending
    BY <1>1 DEF ClearQueue, Pending, PendingJobs, StateOK
<1>3. Ordered(WIds(seen), lost, WIds(todo), WIds(cmdFile), body', Pending')
    BY <1>1, <1>2, OrderedLess DEF OrderInv
<1> QED BY <1>1, <1>3, OrderQuiet DEF OrderInv

\* The end of a request takes nothing into the queue.
LEMMA EndOrder ==
    ASSUME StateOK, NEW uploaded \in BOOLEAN, EndRequest(uploaded), oldest' = oldest
    PROVE  Pending' \subseteq Pending /\ body' = {}
<1>1. CASE jobs' = jobs
    BY <1>1 DEF EndRequest, Pending, PendingJobs
<1>2. CASE jobs' = [jobs EXCEPT ![serving] = "upload_failed"]
    BY <1>2 DEF EndRequest, Pending, PendingJobs, StateOK
<1> QED BY <1>1, <1>2 DEF EndRequest

\* The whole body reaches the file.
LEMMA StoreOrder ==
    ASSUME OrderInv, StoreBody
    PROVE  Ordered(WIds(seen), lost, WIds(todo), WIds(cmdFile'), body, Pending)
<1>1. cmdFile' = Whole(body) /\ WIds(cmdFile') = body
    BY IdsOfWhole DEF StoreBody
<1> QED BY <1>1, OrderedStore DEF OrderInv

LEMMA WriteOrder == ASSUME StateOK, OrderInv, WriteLocalCmd PROVE OrderInv'
<1>1. StoreBody /\ UNCHANGED <<oldest, todo, seen, sweeps, lost>>
    BY DEF WriteLocalCmd, mod, history, started
<1>2. (body' = body \/ body' = {}) /\ Pending' \subseteq Pending
    <2>1. CASE left = 1
        BY <1>1, <2>1, EndOrder DEF WriteLocalCmd
    <2>2. CASE left # 1
        BY <1>1, <2>2 DEF WriteLocalCmd, Pending
    <2> QED BY <2>1, <2>2
<1>3. Ordered(WIds(seen), lost, WIds(todo), WIds(cmdFile'), body', Pending')
    BY <1>1, <1>2, StoreOrder, OrderedLess
<1> QED BY <1>1, <1>3, StoreOrder, OrderQuiet

LEMMA StoredOrder == ASSUME OrderInv, UploadStored PROVE OrderInv'
<1>1. StoreBody /\ UNCHANGED <<jobs, oldest, body, todo, seen, sweeps, lost>>
    BY DEF UploadStored, queue, mod, history, started
<1>2. Pending' = Pending
    BY <1>1 DEF Pending
<1> QED BY <1>1, <1>2, StoreOrder, OrderQuiet

\* The whole lines of a part of the body are its beginning.
LEMMA StoredWhole ==
    ASSUME NEW k, NEW lines \in Stored(k)
    PROVE  WIds(lines) = {i \in body : i < k}
<1> DEFINE kept == {i \in body : i < k}
<1>1. PICK torn \in {{}} \cup {{[id |-> k, cut |-> c]} : c \in TornCuts} :
          lines = Whole(kept) \cup torn
    BY DEF Stored
<1>2. \A l \in torn : l.cut # "whole"
    <2>1. \A c \in TornCuts : [id |-> k, cut |-> c].cut = c /\ c # "whole"
        BY DEF TornCuts
    <2> QED BY <1>1, <2>1
<1> HIDE DEF kept
<1>3. WIds(lines) = kept
    BY <1>1, <1>2, TornCounts, IdsOfWhole
<1> QED BY <1>3 DEF kept

\* The file becomes a part of the body.
LEMMA PartOrdered ==
    ASSUME StateOK, OrderInv, NEW k \in body, cmdFile' \in Stored(k)
    PROVE  Ordered(WIds(seen), lost, WIds(todo), WIds(cmdFile'), body, Pending)
<1>1. WIds(cmdFile') = {i \in body : i < k}
    BY StoredWhole
<1>2. k \in Int /\ body \subseteq Int /\ Pending \subseteq Int
    BY KnownIds
<1> QED BY <1>1, <1>2, OrderedPart DEF OrderInv

LEMMA PartOrder == ASSUME StateOK, OrderInv, StorePart PROVE OrderInv'
<1>1. UNCHANGED <<jobs, oldest, body, todo, seen, sweeps, lost>>
    BY DEF StorePart, queue, mod, history, started
<1>2. PICK k \in body : cmdFile' \in Stored(k)
    BY DEF StorePart
<1>3. Pending' = Pending
    BY <1>1 DEF Pending
<1> QED BY <1>1, <1>2, <1>3, PartOrdered, OrderQuiet

\* The rest of the body lies behind a hole, or the file is whole.
LEMMA RestOrder == ASSUME StateOK, OrderInv, StoreRest PROVE OrderInv'
<1>1. UNCHANGED <<jobs, oldest, body, todo, seen, sweeps>>
    BY DEF StoreRest, queue, mod, started
<1>2. Pending' = Pending
    BY <1>1 DEF Pending
<1>3. Ordered(WIds(seen), lost, WIds(todo), WIds(cmdFile), body, Pending)
    BY DEF OrderInv
<1>4. CASE cmdFile = {}
    <2> DEFINE rest == {i \in body : i > left}
    <2>1. cmdFile' = Whole(rest) /\ lost' = lost \cup {i \in body : i <= left}
        BY <1>4 DEF StoreRest
    <2>2. rest \in SUBSET body /\ {i \in body : i <= left} = body \ rest
        <3>1. body \subseteq Nat /\ left \in Nat
            BY DEF StateOK
        <3>2. \A i \in body : i <= left <=> ~ (i > left)
            BY <3>1
        <3> QED BY <3>2
    <2> HIDE DEF rest
    <2>3. WIds(cmdFile') = rest /\ lost' = lost \cup (body \ rest)
        BY <2>1, <2>2, IdsOfWhole
    <2>4. Ordered(WIds(seen), lost \cup (body \ rest), WIds(todo), rest, body, Pending)
        BY <1>3, <2>2, OrderedHole
    <2> QED BY <1>1, <1>2, <2>3, <2>4, OrderQuiet
<1>5. CASE cmdFile # {}
    <2>1. WIds(cmdFile') = body /\ lost' = lost
        BY <1>5, IdsOfWhole DEF StoreRest
    <2> QED BY <1>1, <1>2, <1>3, <2>1, OrderedStore, OrderQuiet
<1> QED BY <1>4, <1>5

\* A broken upload leaves the file as it is or a part of the body.
LEMMA BrokenOrder == ASSUME StateOK, OrderInv, UploadBroken PROVE OrderInv'
<1>1. EndRequest(FALSE) /\ UNCHANGED <<oldest, todo, seen, sweeps, lost>>
    BY DEF UploadBroken, mod, history, started
<1>2. Pending' \subseteq Pending /\ body' = {}
    BY <1>1, EndOrder
<1>3. Ordered(WIds(seen), lost, WIds(todo), WIds(cmdFile'), body, Pending)
    <2>1. CASE UNCHANGED cmdFile
        BY <2>1 DEF OrderInv
    <2>2. CASE \E k \in body : cmdFile' \in Stored(k)
        BY <2>2, PartOrdered
    <2> QED BY <2>1, <2>2 DEF UploadBroken
<1>4. Ordered(WIds(seen), lost, WIds(todo), WIds(cmdFile'), body', Pending')
    BY <1>2, <1>3, OrderedLess
<1> QED BY <1>1, <1>4, OrderQuiet

LEMMA VerifiedOrder == ASSUME StateOK, OrderInv, UploadVerified PROVE OrderInv'
<1>1. /\ \E uploaded \in BOOLEAN : EndRequest(uploaded)
      /\ UNCHANGED <<oldest, cmdFile, todo, seen, sweeps, lost>>
    <2>1. PICK answered \in BOOLEAN : EndRequest(answered /\ cmdFile = Whole(body))
        BY DEF UploadVerified
    <2>2. (answered /\ cmdFile = Whole(body)) \in BOOLEAN
        OBVIOUS
    <2> QED BY <2>1, <2>2 DEF UploadVerified, mod, history, started
<1>2. Ordered(WIds(seen), lost, WIds(todo), WIds(cmdFile'), body', Pending')
    BY <1>1, EndOrder, OrderedLess DEF OrderInv
<1> QED BY <1>1, <1>2, OrderQuiet DEF OrderInv

LEMMA CrashOrder ==
    ASSUME StateOK, OrderInv, NEW torn \in BOOLEAN, PanelCrash(torn) PROVE OrderInv'
<1>1. UNCHANGED <<jobs, cmdFile, todo, seen, sweeps, lost>> /\ body' = {}
    BY DEF PanelCrash, mod, history, started
<1>2. Pending' \subseteq Pending
    BY <1>1 DEF PanelCrash, Pending, PendingJobs, StateOK
<1>3. Ordered(WIds(seen), lost, WIds(todo), WIds(cmdFile'), body', Pending')
    BY <1>1, <1>2, OrderedLess DEF OrderInv
<1> QED BY <1>1, <1>3, OrderQuiet DEF OrderInv

\* A sweep added for no whole line of the panel.
LEMMA NotByLine ==
    ASSUME StateOK, OrderInv, UNCHANGED <<lost, seen>>,
           \A n \in DOMAIN sweeps' :
               ByLine(sweeps'[n]) => n \in DOMAIN sweeps /\ sweeps'[n] = sweeps[n]
    PROVE  SweepsNoted' /\ StartsInOrder'
<1>1. SweepsNoted'
    BY DEF OrderInv, SweepsNoted, ByLine
<1>2. StartsInOrder'
    BY DEF OrderInv, StartsInOrder, ByLine
<1> QED BY <1>1, <1>2

\* The oldest line left is noted: it is younger than all that were noted.
LEMMA ApplyOrder ==
    ASSUME StateOK, OrderInv, NEW l \in todo, ApplyLine(l) PROVE OrderInv'
<1>1. UNCHANGED <<jobs, oldest, body, cmdFile, lost>> /\ todo' = todo \ {l}
    BY DEF ApplyLine, queue, request
<1>2. Pending' = Pending
    BY <1>1 DEF Pending
<1>3. sweeps \in Seq(Line(Nat)) /\ l \in Line(DOMAIN jobs) /\ l.id \in Nat \ {0}
    BY DEF StateOK, Line
<1>4. CASE l.cut # "whole"
    <2>1. WIds(todo') = WIds(todo)
        <3>1. \A x \in {l} : x.cut # "whole"
            BY <1>4
        <3>2. WIds(todo \ {l}) = WIds(todo)
            BY <3>1, TornCounts
        <3> QED BY <1>1, <3>2
    <2>2. WIds(seen') = WIds(seen)
        <3>1. \A x \in {l} : x.cut # "whole"
            BY <1>4
        <3>2. WIds(seen \cup {l}) = WIds(seen)
            BY <3>1, TornCounts
        <3> QED BY <3>2 DEF ApplyLine
    <2>3. SweepsNoted' /\ StartsInOrder'
        <3>1. CASE UNCHANGED <<seen, sweeps>>
            BY <1>1, <3>1 DEF OrderInv, SweepsNoted, StartsInOrder, ByLine
        <3>2. CASE sweeps' = Append(sweeps, l)
            <4>1. \A n \in DOMAIN sweeps' :
                      ByLine(sweeps'[n]) => n \in DOMAIN sweeps /\ sweeps'[n] = sweeps[n]
                BY <1>3, <1>4, <3>2 DEF ByLine
            <4>2. SweepsNoted'
                BY <2>2, <4>1 DEF OrderInv, SweepsNoted, ByLine
            <4>3. StartsInOrder'
                BY <1>1, <4>1 DEF OrderInv, StartsInOrder, ByLine
            <4> QED BY <4>2, <4>3
        <3> QED BY <3>1, <3>2 DEF ApplyLine
    <2> QED BY <1>1, <1>2, <2>1, <2>2, <2>3 DEF OrderInv
<1>5. CASE l.cut = "whole"
    <2>1. l.id \in WIds(todo)
        BY <1>5 DEF WIds
    <2>2. \A x \in WIds(todo) : ~ (x < l.id)
        <3>1. \A other \in todo : l.id <= other.id
            BY DEF ApplyLine, FirstLine
        <3>2. \A x \in WIds(todo) : x \in Nat /\ l.id <= x
            BY <3>1, KnownIds DEF WIds
        <3> QED BY <1>3, <3>2
    <2>3. WIds(todo') \subseteq WIds(todo) /\ WIds(todo) \subseteq WIds(todo') \cup {l.id}
        BY <1>1 DEF WIds
    <2>4. Ordered(WIds(seen) \cup {l.id}, lost, WIds(todo'), WIds(cmdFile), body, Pending)
        BY <2>1, <2>2, <2>3, OrderedApply DEF OrderInv
    <2>5. l \in seen <=> l.id \in WIds(seen)
        <3>1. ASSUME NEW s \in seen, s.cut = "whole", s.id = l.id PROVE s = l
            <4>1. s \in Line(DOMAIN jobs)
                BY DEF StateOK
            <4> QED BY <1>3, <1>5, <3>1, <4>1 DEF Line
        <3> QED BY <1>5, <3>1 DEF WIds
    <2>6. CASE SeenBefore(l)
        <3>1. UNCHANGED <<seen, sweeps>> /\ WIds(seen) \cup {l.id} = WIds(seen)
            BY <2>5, <2>6 DEF ApplyLine, SeenBefore
        <3>2. SweepsNoted' /\ StartsInOrder'
            BY <1>1, <3>1 DEF OrderInv, SweepsNoted, StartsInOrder, ByLine
        <3> QED BY <1>1, <1>2, <2>4, <3>1, <3>2 DEF OrderInv
    <2>7. CASE ~ SeenBefore(l)
        <3>1. seen' = seen \cup {l} /\ sweeps' = Append(sweeps, l)
            BY <1>5, <2>7 DEF ApplyLine
        <3>2. WIds(seen') = WIds(seen) \cup {l.id} /\ l.id \notin WIds(seen)
            BY <1>5, <2>5, <2>7, <3>1 DEF WIds, SeenBefore
        <3>3. \A s \in WIds(seen) : s < l.id \/ (s # l.id /\ l.id \in lost)
            <4>1. \A s \in WIds(seen) : l.id < s => l.id \in lost
                BY <2>1, <3>2 DEF OrderInv, Ordered, Follows
            <4> QED BY <1>3, <3>2, <4>1, KnownIds
        <3>4. /\ \A n \in DOMAIN sweeps' : n \in DOMAIN sweeps \/ n = Len(sweeps) + 1
              /\ \A n \in DOMAIN sweeps : sweeps'[n] = sweeps[n] /\ n < Len(sweeps) + 1
              /\ sweeps'[Len(sweeps) + 1] = l
              /\ DOMAIN sweeps' \subseteq Nat /\ Len(sweeps) \in Nat
            BY <1>3, <3>1
        <3>5. SweepsNoted'
            BY <3>2, <3>4 DEF OrderInv, SweepsNoted, ByLine
        <3>6. StartsInOrder'
            <4> SUFFICES ASSUME NEW m \in DOMAIN sweeps', NEW n \in DOMAIN sweeps',
                                m < n, ByLine(sweeps'[m]), ByLine(sweeps'[n])
                         PROVE  \/ sweeps'[m].id < sweeps'[n].id
                                \/ sweeps'[m].id # sweeps'[n].id /\ sweeps'[n].id \in lost'
                BY DEF StartsInOrder, ByLine
            <4>1. m \in DOMAIN sweeps
                BY <3>4
            <4>2. CASE n \in DOMAIN sweeps
                BY <1>1, <3>4, <4>1, <4>2 DEF OrderInv, StartsInOrder, ByLine
            <4>3. CASE n = Len(sweeps) + 1
                <5>1. sweeps'[m] = sweeps[m] /\ sweeps'[n] = l
                    BY <3>4, <4>1, <4>3
                <5>2. sweeps[m].id \in WIds(seen)
                    BY <4>1, <5>1 DEF OrderInv, SweepsNoted
                <5> QED BY <1>1, <3>3, <5>1, <5>2
            <4> QED BY <3>4, <4>2, <4>3
        <3> QED BY <1>1, <1>2, <2>4, <3>2, <3>5, <3>6 DEF OrderInv
    <2> QED BY <2>6, <2>7
<1> QED BY <1>4, <1>5

\* Sweeps asked for in the game carry no job.
LEMMA GameOrder ==
    ASSUME StateOK, OrderInv, ClientTrigger \/ \E n \in 1 .. MaxInGame : ClientBatch(n)
    PROVE  OrderInv'
<1>1. UNCHANGED <<jobs, oldest, body, cmdFile, todo, seen, lost>>
    BY DEF ClientTrigger, ClientBatch, queue, request, mod
<1>2. \E k \in Nat : sweeps' = sweeps \o [i \in 1 .. k |-> NoLine]
    <2>1. CASE ClientTrigger
        <3>1. Append(sweeps, NoLine) = sweeps \o [i \in 1 .. 1 |-> NoLine]
            BY DEF StateOK
        <3> QED BY <2>1, <3>1 DEF ClientTrigger
    <2>2. CASE \E n \in 1 .. MaxInGame : ClientBatch(n)
        <3>1. PICK n \in 1 .. MaxInGame : ClientBatch(n)
            BY <2>2
        <3>2. sweeps' = sweeps \o [i \in 1 .. n |-> NoLine]
            BY <3>1 DEF ClientBatch
        <3>3. n \in Nat
            BY WipeAssumption
        <3> QED BY <3>2, <3>3
    <2> QED BY <2>1, <2>2
<1>3. PICK k \in Nat : sweeps' = sweeps \o [i \in 1 .. k |-> NoLine]
    BY <1>2
<1>4. \A n \in DOMAIN sweeps' :
          ByLine(sweeps'[n]) => n \in DOMAIN sweeps /\ sweeps'[n] = sweeps[n]
    <2>1. /\ sweeps \in Seq(Line(Nat)) /\ [i \in 1 .. k |-> NoLine] \in Seq(Line(Nat))
          /\ Len([i \in 1 .. k |-> NoLine]) = k
        BY NoLineIsLine DEF StateOK
    <2>2. \A n \in DOMAIN sweeps' :
              (n \in DOMAIN sweeps /\ sweeps'[n] = sweeps[n]) \/ sweeps'[n] = NoLine
        BY <1>3, <2>1
    <2> QED BY <2>2, NoLineIsLine DEF ByLine
<1>5. SweepsNoted' /\ StartsInOrder'
    BY <1>1, <1>4, NotByLine
<1>6. Pending' = Pending
    BY <1>1 DEF Pending
<1> QED BY <1>1, <1>5, <1>6 DEF OrderInv

LEMMA ModOrder ==
    ASSUME StateOK, OrderInv, PollRead \/ PollClear \/ JvmStop \/ JvmStart PROVE OrderInv'
<1>1. UNCHANGED <<jobs, oldest, body, lost>> /\ Pending' = Pending
    BY DEF PollRead, PollClear, JvmStop, JvmStart, queue, request, Pending, history
<1>2. Ordered(WIds(seen), lost, WIds(todo), WIds(cmdFile), body, Pending)
    BY DEF OrderInv
<1>3. WIds({}) = {}
    BY DEF WIds
<1>4. ASSUME UNCHANGED <<seen, sweeps>> PROVE SweepsNoted' /\ StartsInOrder'
    BY <1>1, <1>4 DEF OrderInv, SweepsNoted, StartsInOrder, ByLine
<1>5. CASE PollRead
    <2>1. UNCHANGED <<seen, sweeps, cmdFile>> /\ todo' = cmdFile
        BY <1>5 DEF PollRead, history, started
    <2>2. Ordered(WIds(seen), lost, WIds(cmdFile), WIds(cmdFile), body, Pending)
        BY <1>2, OrderedMod
    <2> QED BY <1>1, <1>4, <2>1, <2>2 DEF OrderInv
<1>6. CASE PollClear
    <2>1. UNCHANGED <<seen, sweeps, todo>> /\ cmdFile' = {}
        BY <1>6 DEF PollClear, history, started
    <2>2. Ordered(WIds(seen), lost, WIds(todo), {}, body, Pending)
        BY <1>2, OrderedMod
    <2> QED BY <1>1, <1>3, <1>4, <2>1, <2>2 DEF OrderInv
<1>7. CASE JvmStop
    <2>1. todo' = {} /\ seen' = {} /\ sweeps' = <<>> /\ cmdFile' = cmdFile
        BY <1>7 DEF JvmStop
    <2>2. SweepsNoted' /\ StartsInOrder'
        BY <2>1 DEF SweepsNoted, StartsInOrder
    <2>3. Ordered({}, lost, {}, WIds(cmdFile), body, Pending)
        BY <1>2, OrderedMod
    <2> QED BY <1>1, <1>3, <2>1, <2>2, <2>3 DEF OrderInv
<1>8. CASE JvmStart
    <2>1. UNCHANGED <<seen, sweeps, todo, cmdFile>>
        BY <1>8 DEF JvmStart, history, started
    <2> QED BY <1>1, <1>2, <1>4, <2>1 DEF OrderInv
<1> QED BY <1>5, <1>6, <1>7, <1>8

LEMMA OrderInit == Init => OrderInv
<1> SUFFICES ASSUME Init PROVE OrderInv
    OBVIOUS
<1>1. body = {} /\ sweeps = <<>> /\ WIds(cmdFile) = {} /\ WIds(todo) = {} /\ WIds(seen) = {}
    BY DEF Init, WIds
<1>2. Ordered({}, lost, {}, {}, {}, Pending)
    <2>1. Pending = {}
        BY DEF Init, Pending, PendingJobs
    <2> QED BY <2>1 DEF Ordered, Follows
<1>3. SweepsNoted /\ StartsInOrder
    BY <1>1 DEF SweepsNoted, StartsInOrder
<1> QED BY <1>1, <1>2, <1>3 DEF OrderInv

LEMMA OrderStep == StateOK /\ OrderInv /\ [Next]_vars => OrderInv'
<1> SUFFICES ASSUME StateOK, OrderInv, [Next]_vars PROVE OrderInv'
    OBVIOUS
<1>1. CASE UNCHANGED vars
    <2>1. UNCHANGED <<jobs, oldest, body, cmdFile, todo, seen, sweeps, lost>>
        BY <1>1 DEF vars, queue, request, mod, history, started
    <2>2. Pending' = Pending
        BY <2>1 DEF Pending
    <2> QED BY <2>1, <2>2, OrderQuiet DEF OrderInv
<1> QED
    BY <1>1, TriggerOrder, ClearOrder, WriteOrder, StoredOrder, PartOrder, RestOrder,
       BrokenOrder, VerifiedOrder, CrashOrder, ApplyOrder, GameOrder, ModOrder DEF Next

(***************************************************************************)
(* In one life of the JVM the panel's wipes start in the order they were   *)
(* triggered and each at most once, whatever is lost, cleared, torn,       *)
(* retried or crashes on the way; only a wipe at or before the hole of a   *)
(* store the mod emptied half-way may be overtaken (StartsInOrder).        *)
(***************************************************************************)
THEOREM WipesStartInOrder == Spec => []StartsInOrder
<1>1. OrderInv => StartsInOrder
    BY DEF OrderInv
<1>2. Inv => StateOK
    BY DEF Inv
<1> QED BY <1>1, <1>2, OrderInit, OrderStep, InvInit, InvStep, PTL DEF Spec
=============================================================================
