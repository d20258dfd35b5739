----------------------------- MODULE CitySweep -----------------------------
(***************************************************************************)
(* The sweeps of AdminCityWipe: a list of jobs in the memory of the JVM,   *)
(* each with a cursor over the boxed city, floors first, then west to      *)
(* east, then north to south.  Every game tick moves the first job's       *)
(* cursor over at most SQUARES_PER_TICK tiles.  A tile whose chunk is not  *)
(* in memory is counted as missing and not waited for.                     *)
(***************************************************************************)
EXTENDS Integers, Sequences, FiniteSets

CONSTANTS
    Boxes,     \* AdminTools.CITIES: boxes of tiles, both corners included
    ZLevels,   \* Z_LEVELS, the floors in the order they are swept
    Budget,    \* SQUARES_PER_TICK
    MaxJobs,   \* bound: sweeps ever asked for
    MaxStops   \* bound: stops of the JVM

ASSUME SweepAssumption ==
    /\ Boxes \subseteq [x1 : Int, y1 : Int, x2 : Int, y2 : Int]
    /\ \A b \in Boxes : b.x1 <= b.x2 /\ b.y1 <= b.y2
    /\ ZLevels \in Seq(Int) /\ ZLevels # <<>>
    /\ \A i, j \in DOMAIN ZLevels : ZLevels[i] = ZLevels[j] => i = j
    /\ Budget \in Nat \ {0} /\ MaxJobs \in Nat /\ MaxStops \in Nat

VARIABLES
    jobs,    \* AdminCityWipe._jobs; log is history: the tiles of the job so far
    report,  \* the job of the last "City wipe done", <<>> before the first
    asked,   \* sweeps asked for so far
    stops    \* JVM stops so far

vars == <<jobs, report, asked, stops>>

\* startJob: the cursor stands on the first tile.
NewJob(b) ==
    [city |-> b, x |-> b.x1, y |-> b.y1, zIndex |-> 1,
     squares |-> 0, missing |-> 0, done |-> FALSE, log |-> <<>>]

Init == jobs = <<>> /\ report = <<>> /\ asked = 0 /\ stops = 0

StartJob(b) ==
    /\ asked < MaxJobs
    /\ jobs' = Append(jobs, NewJob(b))
    /\ asked' = asked + 1
    /\ UNCHANGED <<report, stops>>

\* Mutant: the last column is left out.
MoveShort(j) ==
    IF j.zIndex < Len(ZLevels) THEN [j EXCEPT !.zIndex = @ + 1]
    ELSE IF j.x + 1 < j.city.x2 THEN [j EXCEPT !.zIndex = 1, !.x = @ + 1]
    ELSE [j EXCEPT !.zIndex = 1, !.x = j.city.x1, !.y = @ + 1, !.done = j.y >= j.city.y2]

\* The cursor moves up a floor, else east, else to the start of the next row.
Move(j) ==
    IF j.zIndex < Len(ZLevels) THEN [j EXCEPT !.zIndex = @ + 1]
    ELSE IF j.x < j.city.x2 THEN [j EXCEPT !.zIndex = 1, !.x = @ + 1]
    ELSE [j EXCEPT !.zIndex = 1, !.x = j.city.x1, !.y = @ + 1, !.done = j.y >= j.city.y2]

\* Mutant: a tile that is not in memory is not counted.
CountLoaded(j, loaded) ==
    [j EXCEPT !.squares = IF loaded THEN @ + 1 ELSE @,
              !.log = Append(@, <<j.x, j.y, ZLevels[j.zIndex]>>)]

\* The tile under the cursor is swept when its chunk is loaded.
Count(j, loaded) ==
    [j EXCEPT !.squares = IF loaded THEN @ + 1 ELSE @,
              !.missing = IF loaded THEN @ ELSE @ + 1,
              !.log = Append(@, <<j.x, j.y, ZLevels[j.zIndex]>>)]

\* n rounds of the loop, of which the ones in loaded find their chunk.
Walk(job, loaded) ==
    LET after[n \in 0 .. Budget] ==
            IF n = 0 THEN job
            ELSE LET j == after[n - 1]
                 IN  IF j.done THEN j ELSE Move(Count(j, n \in loaded))
    IN  after[Budget]

\* Mutant: a finished job stays in the list.
TickJobsKeep ==
    /\ jobs # <<>>
    /\ \E loaded \in SUBSET (1 .. Budget) :
          jobs' = <<Walk(Head(jobs), loaded)>> \o Tail(jobs)
    /\ UNCHANGED <<report, asked, stops>>

(***************************************************************************)
(* tickJobs.  A job that is done leaves in the tick that finished it, so   *)
(* the branch that removes a done job at the start of a tick is never      *)
(* taken.                                                                  *)
(***************************************************************************)
TickJobs ==
    /\ jobs # <<>>
    /\ \E loaded \in SUBSET (1 .. Budget) :
          LET job == Walk(Head(jobs), loaded)
          IN  IF job.done
              THEN jobs' = Tail(jobs) /\ report' = <<job>>
              ELSE jobs' = <<job>> \o Tail(jobs) /\ UNCHANGED report
    /\ UNCHANGED <<asked, stops>>

\* The list dies with the JVM; a sweep that was under way is not resumed.
JvmStop ==
    /\ stops < MaxStops
    /\ jobs' = <<>>
    /\ stops' = stops + 1
    /\ UNCHANGED <<report, asked>>

Next == (\E b \in Boxes : StartJob(b)) \/ TickJobs \/ JvmStop

Spec == Init /\ [][Next]_vars

\* The game ticks as long as it runs.
FairSpec == Spec /\ WF_vars(TickJobs)
-----------------------------------------------------------------------------
(* Properties. *)

TilesOf(b) ==
    (b.x1 .. b.x2) \X (b.y1 .. b.y2) \X {ZLevels[i] : i \in DOMAIN ZLevels}

LogSet(j) == {j.log[n] : n \in DOMAIN j.log}

(***************************************************************************)
(* The numbers of "City wipe done" are right: every tile of the city was   *)
(* counted once, as swept or as missing, and no tile was left out.         *)
(***************************************************************************)
ReportIsComplete ==
    \A n \in DOMAIN report :
        LET job == report[n]
            b == job.city
        IN  /\ job.squares + job.missing
                 = (b.x2 - b.x1 + 1) * (b.y2 - b.y1 + 1) * Len(ZLevels)
            /\ Cardinality(LogSet(job)) = job.squares + job.missing

(***************************************************************************)
(* The list of cursors implements SweepPlan: one city at a time, in order, *)
(* every tick handles between one and SQUARES_PER_TICK tiles of the city   *)
(* that were not handled before, none outside it, and it ends with none    *)
(* left.                                                                   *)
(***************************************************************************)
Plan == INSTANCE SweepPlan WITH
    Levels <- {ZLevels[i] : i \in DOMAIN ZLevels},
    plan <- [n \in DOMAIN jobs |->
                [city |-> jobs[n].city, left |-> TilesOf(jobs[n].city) \ LogSet(jobs[n])]]

PlanSpec == Plan!Spec

(***************************************************************************)
(* Every sweep ends: by its own work or with the JVM, never by waiting for *)
(* chunks that nobody loads.                                               *)
(***************************************************************************)
SweepsEnd == (jobs # <<>>) ~> (jobs = <<>>)
=============================================================================
