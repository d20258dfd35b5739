---------------------------- MODULE LocalServer ----------------------------
(***************************************************************************)
(* The smoke test: a dedicated server on the panel's own machine, started  *)
(* over the mirror.  Start, stop and status run in worker threads, any     *)
(* number side by side, and know the server by a pid in a file and by the  *)
(* last lines of what was logged: of a console file that grows from run to *)
(* run, of the log the newest server writes for itself, or of the log of a *)
(* test server started by hand in .cache/dedi-test, whichever was written  *)
(* last.  The processes are those of Linux, where a child of the   *)
(* panel that ended keeps its pid until another one is started.            *)
(***************************************************************************)
EXTENDS PanelThreads, FiniteSetsExt

CONSTANTS
    TailCap,     \* the last lines that are read
    MaxRuns,     \* bound: servers ever started
    MaxLines,    \* bound: lines ever logged
    MaxTestLines,\* bound: those of them that the test server logs
    MaxSmoke,    \* bound: requests ever made
    MaxLocalDies \* bound: deaths of the panel

VARIABLES
    jvms,      \* the server of each pid: "up", "closing", "zombie" or "gone"
    pidFile,   \* the pid in local_server.json, 0 without the file
    console,   \* what was logged so far: [pid, text]; pid 0 is the test server
    smoke,     \* requests under way: [op, pid]
    asks       \* counters of the bounded events

localVars == <<jvms, pidFile, console, smoke, asks>>

LocalInit ==
    /\ jvms = <<>> /\ pidFile = 0 /\ console = <<>> /\ smoke = <<>>
    /\ asks = [smoke |-> 0, dies |-> 0]

\* _pid_alive: os.kill with signal 0 finds a zombie as well.
PidAlive(p) == p # 0 /\ jvms[p] # "gone"

\* inspect.
Running == PidAlive(pidFile)

Drop(n) == smoke' = RemoveAt(smoke, n)
-----------------------------------------------------------------------------
(* The requests. *)

\* smoke_start and smoke_stop up to what inspect tells them.
SmokeAsks(op) ==
    /\ asks.smoke < MaxSmoke
    /\ asks' = [asks EXCEPT !.smoke = @ + 1]
    /\ smoke' = Append(smoke, [op |-> op, pid |-> 0])
    /\ UNCHANGED <<jvms, pidFile, console>>

\* Nothing running, a mirror and an installation: the process is made, and
\* making it reaps the children that ended.
Spawn(n) ==
    /\ smoke[n].op = "spawn" /\ Len(jvms) < MaxRuns
    /\ jvms' = Append([p \in DOMAIN jvms |-> IF jvms[p] = "zombie" THEN "gone" ELSE jvms[p]], "up")
    /\ smoke' = [smoke EXCEPT ![n] = [op |-> "note", pid |-> Len(jvms')]]
    /\ UNCHANGED <<pidFile, console, asks>>

StartLooks(n) ==
    /\ smoke[n].op = "start"
    /\ IF Running THEN Drop(n) ELSE smoke' = [smoke EXCEPT ![n].op = "spawn"]
    /\ UNCHANGED <<jvms, pidFile, console, asks>>

\* No installation, a paused or an empty mirror.
StartRefused(n) ==
    /\ smoke[n].op = "spawn"
    /\ Drop(n)
    /\ UNCHANGED <<jvms, pidFile, console, asks>>

NotesPid(n) ==
    /\ smoke[n].op = "note"
    /\ pidFile' = smoke[n].pid
    /\ Drop(n)
    /\ UNCHANGED <<jvms, console, asks>>

StopLooks(n) ==
    /\ smoke[n].op = "stop"
    /\ IF Running THEN smoke' = [smoke EXCEPT ![n] = [op |-> "kill", pid |-> pidFile]] ELSE Drop(n)
    /\ UNCHANGED <<jvms, pidFile, console, asks>>

\* SIGTERM, and the file goes, whosever pid it holds by now.
Kill(n) ==
    /\ smoke[n].op = "kill"
    /\ jvms' = [jvms EXCEPT ![smoke[n].pid] = IF @ = "up" THEN "closing" ELSE @]
    /\ pidFile' = 0
    /\ Drop(n)
    /\ UNCHANGED <<console, asks>>
-----------------------------------------------------------------------------
(* The servers. *)

\* _WORLD_STAGES: the three before the last are told apart by their labels only.
Stages == <<"loading", "ready">>

\* Lines are numbered as in the console.
SaidBy(p) == {i \in DOMAIN console : console[i].pid = p}

\* A line of the next stage, of an error, or of neither.
Logs(p) ==
    /\ jvms[p] \in {"up", "closing"} /\ Len(console) < MaxLines
    /\ \E text \in {"error", "fatal", "chatter"} \cup Range(Stages) :
          /\ text \in Range(Stages) =>
                /\ jvms[p] = "up"
                /\ text = "ready" <=> \E i \in SaidBy(p) : console[i].text = "loading"
          /\ console' = Append(console, [pid |-> p, text |-> text])
    /\ UNCHANGED <<jvms, pidFile, smoke, asks>>

\* A line of the test server, which has no part in the requests.
TestLogs ==
    /\ Len(console) < MaxLines /\ Cardinality(SaidBy(0)) < MaxTestLines
    /\ \E text \in {"error", "fatal", "chatter"} \cup Range(Stages) :
          console' = Append(console, [pid |-> 0, text |-> text])
    /\ UNCHANGED <<jvms, pidFile, smoke, asks>>

\* It ends, of itself or because it was told to.
JvmEnds(p) ==
    /\ jvms[p] \in {"up", "closing"}
    /\ jvms' = [jvms EXCEPT ![p] = "zombie"]
    /\ UNCHANGED <<pidFile, console, smoke, asks>>

\* The panel dies: its threads with it, and nobody is a zombie any more.
LocalPanelDies ==
    /\ asks.dies < MaxLocalDies
    /\ asks' = [asks EXCEPT !.dies = @ + 1]
    /\ jvms' = [p \in DOMAIN jvms |-> IF jvms[p] = "zombie" THEN "gone" ELSE jvms[p]]
    /\ smoke' = <<>>
    /\ UNCHANGED <<pidFile, console>>

LocalNext ==
    \/ SmokeAsks("start") \/ SmokeAsks("stop")
    \/ \E n \in DOMAIN smoke :
          StartLooks(n) \/ Spawn(n) \/ StartRefused(n) \/ NotesPid(n) \/ StopLooks(n) \/ Kill(n)
    \/ \E p \in DOMAIN jvms : Logs(p) \/ JvmEnds(p)
    \/ TestLogs \/ LocalPanelDies
-----------------------------------------------------------------------------
(* What the status says. *)

TailOf(lines) == {i \in lines : Cardinality({j \in lines : j > i}) < TailCap}

\* The console file holds what the panel's own servers said.
InConsole == DOMAIN console \ SaidBy(0)

\* _collect_log_lines: what the test server said if it was the last to write, or
\* else the console or what the last one to write said itself.
LogLines ==
    IF console = <<>> THEN {{}}
    ELSE LET last == Last(console).pid
         IN  {TailOf(SaidBy(last))} \cup IF last = 0 THEN {} ELSE {TailOf(InConsole)}

Texts(lines) == {console[i].text : i \in lines}

\* The last stage with a marker in the lines, in the order of _WORLD_STAGES.
LogStage(lines) ==
    IF Texts(lines) \cap Range(Stages) = {} THEN "idle"
    ELSE Stages[Max({k \in DOMAIN Stages : Stages[k] \in Texts(lines)})]

HasErrors(lines) == Texts(lines) \cap {"error", "fatal"} # {}

\* Mutant: a failure anywhere in the lines is a failure.
WorldStageOfAny(lines, running) ==
    LET stage == LogStage(lines)
    IN  IF "fatal" \in Texts(lines) THEN "failed" ELSE IF stage = "idle" THEN "loading" ELSE stage

\* parse_world_status.
WorldStage(lines, running) ==
    LET stage == LogStage(lines)
        failed == stage # "ready" /\ ("fatal" \in Texts(lines) \/ (HasErrors(lines) /\ ~ running))
    IN  IF failed THEN "failed"
        ELSE IF running THEN IF stage = "idle" THEN "loading" ELSE stage
        ELSE IF stage = "ready" THEN "stopped"
        ELSE IF stage = "loading" THEN "failed"
        ELSE stage

\* smoke_status.
Verdict(lines) ==
    LET world == WorldStage(lines, Running)
    IN  IF world = "ready" /\ Running THEN "pass"
        ELSE IF world = "failed" \/ (HasErrors(lines) /\ ~ Running) THEN "fail"
        ELSE IF Running THEN "running"
        ELSE "idle"

LocalTypeOK ==
    /\ jvms \in Seq({"up", "closing", "zombie", "gone"})
    /\ pidFile \in 0 .. Len(jvms)
    /\ \A i \in DOMAIN console : console[i].pid \in 0 .. Len(jvms)
    /\ \A n \in DOMAIN smoke :
          /\ smoke[n].op \in {"start", "spawn", "note", "stop", "kill"}
          /\ smoke[n].op \in {"note", "kill"} <=> smoke[n].pid # 0
          /\ smoke[n].pid \in 0 .. Len(jvms)
    /\ asks \in [smoke : 0 .. MaxSmoke, dies : 0 .. MaxLocalDies]

(***************************************************************************)
(* A server that is up, is the one the pid file names, was the last to     *)
(* write and has logged its start among the lines that are read is         *)
(* reported as a pass, whatever is left in the console of a run that       *)
(* failed before it or was said by the test server, and whichever of its   *)
(* two logs is read (smoke_status, parse_world_status).                    *)
(***************************************************************************)
StartedPasses ==
    /\ pidFile # 0 /\ console # <<>>
    /\ jvms[pidFile] = "up" /\ Last(console).pid = pidFile
    /\ \E i \in TailOf(InConsole) : console[i] = [pid |-> pidFile, text |-> "ready"]
    => \A lines \in LogLines : Verdict(lines) = "pass"
=============================================================================
