----------------------------- MODULE Scheduler -----------------------------
(***************************************************************************)
(* The task list of the panel and the loop that runs what is due.  Every   *)
(* request handler, and every part of the loop between two awaits, runs    *)
(* alone on the event loop; only the RCON commands are awaited, and while  *)
(* one of them is under way tasks are created, changed, deleted and run by *)
(* hand.  Twice a minute the loop asks once for what is due and runs it    *)
(* one task after the other; a task is kept from running twice in a minute *)
(* by the stamp it gets after its run.  The order of the list, in which    *)
(* what is due is run, is left open.                                       *)
(***************************************************************************)
EXTENDS Integers, FiniteSets

CONSTANTS
    SeedTasks,    \* DEFAULT_TASKS: a set of [id, on, cron, last]
    Crons,        \* schedules: sets of minutes, or Malformed
    Malformed,    \* five words, the first of them not a minute
    MaxMinute,    \* bound: the clock stops here
    MaxAdds,      \* bound: tasks ever created
    MaxSchedDies  \* bound: deaths of the panel

VARIABLES
    minute,     \* the wall clock
    taskFile,   \* the task list of scheduler.json
    loop,       \* the loop: the minute it asked for, tasks to go, the one being run
    manual,     \* tasks that are being run by hand
    ran,        \* history: the runs of the loop, task and minute
    adds,       \* tasks created so far
    schedDies   \* deaths so far

schedVars == <<minute, taskFile, loop, manual, ran, adds, schedDies>>

Asleep == [at |-> 0, queue |-> {}, busy |-> 0]

(***************************************************************************)
(* No list, a broken one and an empty one are the same to _ensure_store:   *)
(* whoever loads the tasks next writes the default tasks.                  *)
(***************************************************************************)
Stored == IF taskFile = {} THEN SeedTasks ELSE taskFile

SchedInit ==
    /\ minute = 1
    /\ taskFile = {}
    /\ loop = Asleep /\ manual = {} /\ ran = {}
    /\ adds = 0 /\ schedDies = 0

Has(tasks, id) == \E t \in tasks : t.id = id

\* The list with f of the task id in its place.
Changed(tasks, id, f(_)) == {IF t.id = id THEN f(t) ELSE t : t \in tasks}

Minute ==
    /\ minute < MaxMinute
    /\ minute' = minute + 1
    /\ UNCHANGED <<taskFile, loop, manual, ran, adds, schedDies>>
-----------------------------------------------------------------------------
(* Requests. *)

\* scheduler_create: validate_cron counts words, it does not read them.
CreateTask(on, cron) ==
    /\ adds < MaxAdds
    /\ adds' = adds + 1
    /\ taskFile' = Stored \cup {[id |-> Cardinality(SeedTasks) + adds', on |-> on,
                                 cron |-> cron, last |-> 0]}
    /\ UNCHANGED <<minute, loop, manual, ran, schedDies>>

\* scheduler_patch.
PatchTask(id, on, cron) ==
    /\ Has(Stored, id)
    /\ taskFile' = Changed(Stored, id, LAMBDA t : [t EXCEPT !.on = on, !.cron = cron])
    /\ UNCHANGED <<minute, loop, manual, ran, adds, schedDies>>

\* The runs of default tasks are forgotten when these are about to be written anew.
Forget(runs) == {r \in runs : ~ Has(SeedTasks, r.id)}

\* scheduler_delete.  The last task takes the list with it.
DeleteTask(id) ==
    /\ Has(Stored, id)
    /\ taskFile' = {t \in Stored : t.id # id}
    /\ ran' = IF taskFile' = {} THEN Forget(ran) ELSE ran
    /\ UNCHANGED <<minute, loop, manual, adds, schedDies>>

\* mark_task_run: load, stamp the task if it is still there, save.
Marked(id) == Changed(Stored, id, LAMBDA t : [t EXCEPT !.last = minute])

\* scheduler_run_now up to its await, and after it.
RunNow(id) ==
    /\ Has(Stored, id) /\ id \notin manual
    /\ manual' = manual \cup {id}
    /\ taskFile' = Stored
    /\ UNCHANGED <<minute, loop, ran, adds, schedDies>>

RunNowDone(id) ==
    /\ id \in manual
    /\ manual' = manual \ {id}
    /\ taskFile' = Marked(id)
    /\ UNCHANGED <<minute, loop, ran, adds, schedDies>>
-----------------------------------------------------------------------------
(* The loop. *)

\* cron_matches; a word that is no number raises.
Matches(cron, at) == cron # Malformed /\ at \in cron

\* tasks_due_now for one task.
Due(t) == t.on /\ Matches(t.cron, minute) /\ t.last # minute

\* One enabled task with a malformed schedule ends the whole round.
Raises == \E t \in Stored : t.on /\ t.cron = Malformed

LoopWakes ==
    /\ loop = Asleep
    /\ taskFile' = Stored
    /\ LET due == {t \in Stored : Due(t)}
       IN  loop' = IF Raises \/ due = {} THEN Asleep
                   ELSE [at |-> minute, queue |-> {t.id : t \in due}, busy |-> 0]
    /\ UNCHANGED <<minute, manual, ran, adds, schedDies>>

\* The command goes out, whatever has become of the task since.
LoopSends(id) ==
    /\ loop.busy = 0 /\ id \in loop.queue
    /\ loop' = [loop EXCEPT !.busy = id, !.queue = @ \ {id}]
    /\ ran' = ran \cup {[id |-> id, at |-> loop.at]}
    /\ UNCHANGED <<minute, taskFile, manual, adds, schedDies>>

\* On to the next task, or to sleep.
RoundGoesOn == loop' = IF loop.queue = {} THEN Asleep ELSE [loop EXCEPT !.busy = 0]

\* Mutant: only a command that was answered is stamped.
LoopMarksAnswers ==
    /\ loop.busy # 0
    /\ taskFile' \in {Stored, Marked(loop.busy)}
    /\ RoundGoesOn
    /\ UNCHANGED <<minute, manual, ran, adds, schedDies>>

\* The answer or the error of the command: both are recorded.
LoopMarks ==
    /\ loop.busy # 0
    /\ taskFile' = Marked(loop.busy)
    /\ RoundGoesOn
    /\ UNCHANGED <<minute, manual, ran, adds, schedDies>>

\* The process dies, and a run that is not stamped yet does not count; in the
\* middle of a write it leaves a broken list.
PanelDies ==
    /\ schedDies < MaxSchedDies
    /\ schedDies' = schedDies + 1
    /\ loop' = Asleep /\ manual' = {}
    /\ taskFile' \in {taskFile, {}}
    /\ LET marked == ran \ {[id |-> loop.busy, at |-> loop.at]}
       IN  ran' = IF taskFile' = {} THEN Forget(marked) ELSE marked
    /\ UNCHANGED <<minute, adds>>

TaskIds == 1 .. Cardinality(SeedTasks) + MaxAdds

SchedNext ==
    \/ Minute
    \/ \E on \in BOOLEAN, cron \in Crons : CreateTask(on, cron)
    \/ \E id \in TaskIds, on \in BOOLEAN, cron \in Crons : PatchTask(id, on, cron)
    \/ \E id \in TaskIds : DeleteTask(id) \/ RunNow(id) \/ RunNowDone(id)
    \/ LoopWakes \/ (\E id \in loop.queue : LoopSends(id)) \/ LoopMarks
    \/ PanelDies
-----------------------------------------------------------------------------
SchedTypeOK ==
    /\ minute \in 1 .. MaxMinute
    /\ taskFile \subseteq [id : TaskIds, on : BOOLEAN, cron : Crons, last : 0 .. minute]
    /\ \A t, u \in taskFile : t.id = u.id => t = u
    /\ loop \in [at : 0 .. minute, queue : SUBSET TaskIds, busy : {0} \cup TaskIds]
    /\ loop.queue = {} /\ loop.busy = 0 => loop = Asleep
    /\ manual \subseteq TaskIds
    /\ ran \subseteq [id : TaskIds, at : 1 .. minute]
    /\ adds \in 0 .. MaxAdds /\ schedDies \in 0 .. MaxSchedDies

(***************************************************************************)
(* What the loop is about to run it has not run before for that minute:    *)
(* not when it wakes again within the minute, not when the command was     *)
(* slow or failed, not when the task was changed or run by hand in         *)
(* between, and not when the panel died after the stamp (_scheduler_loop,  *)
(* tasks_due_now and mark_task_run).  Default tasks that were written anew *)
(* count as new.                                                           *)
(***************************************************************************)
OncePerMinute == \A id \in loop.queue : [id |-> id, at |-> loop.at] \notin ran
=============================================================================
