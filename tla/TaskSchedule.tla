----------------------------- MODULE TaskSchedule -----------------------------
(***************************************************************************)
(* A scheduled task: services/scheduler.py, with the handlers of           *)
(* routers/scheduler.py and what the code relies on in APScheduler.        *)
(*                                                                         *)
(* The row of the task is in the database; the job that fires it, the job  *)
(* that catches up a missed occurrence and the executions under way are in *)
(* the memory of the process and die with it.  The clock counts units of   *)
(* the misfire grace (hours); within a unit anything may happen in any     *)
(* order.  While the process lives its loop is never late by more than the *)
(* grace.                                                                  *)
(***************************************************************************)
EXTENDS Naturals, FiniteSets, FiniteSetsExt

CONSTANTS
    Due,      \* the occurrences of the cron expression
    OnceAt,   \* the date of the one-shot (@once)
    Kinds,    \* subset of {"cron", "once"}
    Modes,    \* subset of {"turn", "mission"}: as_mission
    Grace,    \* scheduler_misfire_grace_seconds
    MaxAge,   \* scheduler_catchup_max_age_hours
    Budgets,  \* whether check_user_budget may refuse: subset of BOOLEAN
    MaxTime,  \* bound: hours
    MaxStops, \* bound: stops of the process
    MaxUses   \* bound: requests of the user

ASSUME TimesAssumption ==
    /\ MaxTime \in Nat /\ Due \subseteq 1..MaxTime /\ OnceAt \in 1..MaxTime
    /\ Grace \in Nat /\ MaxAge \in Nat /\ MaxStops \in Nat /\ MaxUses \in Nat
    /\ Kinds \subseteq {"cron", "once"} /\ Modes \subseteq {"turn", "mission"}
    /\ Budgets \subseteq BOOLEAN

VARIABLES
    now,     \* the clock
    kind,    \* what cron_expression is
    mode,    \* as_mission
    row,     \* scheduled_tasks: the row of the task
    up,      \* the process lives
    job,     \* next_run_time of the job task_<id>, 0 without a job
    catchup, \* the occurrence of the job catchup_<id>, 0 without a job
    marking, \* _marquer is spawned and has not run
    run,     \* run[v]: the call of _execute_task that v started
    mission, \* the missions of the task: one is living, or all wait or are over
    fate,    \* fate[o]: what became of occurrence o
    stops, uses

ram    == <<up, job, catchup, marking>>
given  == <<kind, mode>>
bounds == <<stops, uses>>
vars   == <<now, given, row, ram, run, mission, fate, bounds>>

Times == 0..MaxTime
Vias  == {"job", "catchup", "manual"}
Occs  == IF kind = "once" THEN {OnceAt} ELSE Due
Fates == {"none", "begun", "done", "budget", "busy", "overlap", "paused"}
RowRec == [exists : BOOLEAN, enabled : BOOLEAN, lastRun : Times,
           status : {"none", "running", "ended", "missed"}]
RunRec == [pc : {"idle", "load", "budget", "mark", "turn", "save", "check", "create",
                 "note", "final"},
           occ : Times, once : BOOLEAN]
NoRun  == [pc |-> "idle", occ |-> 0, once |-> FALSE]

MaxOr0(S) == IF S = {} THEN 0 ELSE Max(S)
MinOr0(S) == IF S = {} THEN 0 ELSE Min(S)

-----------------------------------------------------------------------------
(* Triggers.                                                               *)

\* add_job, external: a cron expression fires next after now, a date fires at its
\* date even when it is past.
NextFire == IF kind = "once" THEN OnceAt ELSE MinOr0({o \in Due : o > now})

\* The occurrence of the last execution counts again.
FromLastRun(age) == MaxOr0({o \in Due : o <= now /\ o >= row.lastRun /\ o + age >= now})

\* compute_catchup_run: the last occurrence due after the last execution (or the
\* creation, at 0) and not older than age.  A date trigger answers its date
\* whatever the cursor, so that neither bound applies to a one-shot.
MissedSince(age) == MaxOr0({o \in Due : o <= now /\ o > row.lastRun /\ o + age >= now})
\* The age bounds a one-shot too.
FreshOnly(age) == IF kind # "once" THEN MissedSince(age)
                  ELSE IF OnceAt <= now /\ OnceAt + age >= now THEN OnceAt ELSE 0

Missed(age) == IF kind = "once" THEN IF OnceAt <= now THEN OnceAt ELSE 0
               ELSE MissedSince(age)

-----------------------------------------------------------------------------
(* The process.                                                            *)

\* load_and_schedule_tasks without _signaler_occurrence_perdue.
RegistersQuietly == /\ job' = NextFire /\ catchup' = Missed(MaxAge)
                    /\ marking' = FALSE

\* load_and_schedule_tasks, for an enabled row.
Registers == /\ job' = NextFire /\ catchup' = Missed(MaxAge)
             /\ marking' = (Missed(MaxAge) = 0 /\ Missed(MaxTime) # 0)

Boot == /\ ~up /\ up' = TRUE
        /\ IF row.exists /\ row.enabled THEN Registers
           ELSE UNCHANGED <<job, catchup, marking>>
        /\ UNCHANGED <<now, given, row, run, mission, fate, bounds>>

Stop == /\ up /\ stops > 0 /\ stops' = stops - 1
        /\ up' = FALSE /\ job' = 0 /\ catchup' = 0 /\ marking' = FALSE
        /\ run' = [v \in Vias |-> NoRun]
        /\ fate' = [o \in Times |-> IF fate[o] # "begun" THEN fate[o]
                                   ELSE IF row.enabled THEN "none" ELSE "paused"]
        /\ UNCHANGED <<now, given, row, mission, uses>>

Hour == /\ now < MaxTime /\ now' = now + 1
        /\ up => (job = 0 \/ now < job + Grace) /\ catchup = 0
        /\ fate' = [o \in Times |-> IF o = now + 1 /\ o \in Occs /\ ~row.enabled
                                   THEN "paused" ELSE fate[o]]
        /\ UNCHANGED <<given, row, ram, run, mission, bounds>>

\* _marquer
Marks == /\ up /\ marking /\ marking' = FALSE
         /\ row' = IF row.exists /\ row.status # "running"
                   THEN [row EXCEPT !.status = "missed"] ELSE row
         /\ UNCHANGED <<now, given, up, job, catchup, run, mission, fate, bounds>>

-----------------------------------------------------------------------------
(* Firing.  max_instances = 1 holds for each job, not for the task.        *)

Begin(v, o) == /\ run[v].pc = "idle"
               /\ run' = [run EXCEPT ![v] = [NoRun EXCEPT !.pc = "load", !.occ = o]]

\* The last occurrence due (coalesce).
Firing == IF kind = "once" THEN OnceAt ELSE Max({o \in Due : o <= now})

Fires ==
    /\ up /\ job # 0 /\ job <= now
    /\ job' = IF kind = "once" THEN 0 ELSE NextFire
    /\ IF now > job + Grace
       THEN UNCHANGED <<run, fate>>
       ELSE IF run["job"].pc # "idle"
       THEN fate' = [fate EXCEPT ![Firing] = "overlap"] /\ run' = run
       ELSE Begin("job", Firing) /\ fate' = [fate EXCEPT ![Firing] = "begun"]
    /\ UNCHANGED <<now, given, row, up, catchup, marking, mission, bounds>>

CatchesUp ==
    /\ up /\ catchup # 0 /\ catchup' = 0
    /\ Begin("catchup", catchup) /\ fate' = [fate EXCEPT ![catchup] = "begun"]
    /\ UNCHANGED <<now, given, row, up, job, marking, mission, bounds>>

-----------------------------------------------------------------------------
(* _execute_task.                                                          *)

Goes(v, pc) == run' = [run EXCEPT ![v].pc = pc]
Ends(v)     == run' = [run EXCEPT ![v] = NoRun]
Fate(v, f)  == fate' = IF v = "manual" THEN fate ELSE [fate EXCEPT ![run[v].occ] = f]

\* A task that is gone or paused is left at once, without the finally block.
Loads(v) ==
    /\ run[v].pc = "load"
    /\ IF row.exists /\ row.enabled
       THEN /\ run' = [run EXCEPT ![v].pc = "budget", ![v].once = (kind = "once")]
            /\ fate' = fate
       ELSE Ends(v) /\ Fate(v, "paused")
    /\ UNCHANGED <<now, given, row, ram, mission, bounds>>

ChecksBudget(v) ==
    /\ run[v].pc = "budget"
    /\ \E refused \in Budgets :
         IF refused THEN Goes(v, "final") /\ Fate(v, "budget")
         ELSE /\ Goes(v, IF mode = "mission" THEN "check" ELSE "mark")
              /\ fate' = fate
    /\ UNCHANGED <<now, given, row, ram, mission, bounds>>

MarksRunning(v) ==
    /\ run[v].pc = "mark" /\ Goes(v, "turn")
    /\ row' = IF row.exists THEN [row EXCEPT !.status = "running"] ELSE row
    /\ UNCHANGED <<now, given, ram, mission, fate, bounds>>

\* The agent's turn, external: it answers, fails or says nothing.
Turns(v) ==
    /\ run[v].pc = "turn" /\ Goes(v, "save")
    /\ UNCHANGED <<now, given, row, ram, mission, fate, bounds>>

\* The hour of the wall clock, an hour ahead of UTC.
NotedAhead == IF row.exists THEN [row EXCEPT !.lastRun = now + 1, !.status = "ended"]
              ELSE row

\* last_run_at is the hour of the end, whatever the result.
Noted == IF row.exists THEN [row EXCEPT !.lastRun = now, !.status = "ended"] ELSE row

Saves(v) ==
    /\ run[v].pc = "save" /\ Goes(v, "final")
    /\ row' = Noted /\ Fate(v, "done")
    /\ UNCHANGED <<now, given, ram, mission, bounds>>

\* _lancer_la_mission looks for the mission of an earlier occurrence; one that
\* waits for its user is not among the statuses it asks for.
ChecksLiving(v) ==
    /\ run[v].pc = "check"
    /\ IF mission = "living"
       THEN Goes(v, "final") /\ Fate(v, "busy") /\ row' = Noted
       ELSE Goes(v, "create") /\ UNCHANGED <<row, fate>>
    /\ UNCHANGED <<now, given, ram, mission, bounds>>

CreatesMission(v) ==
    /\ run[v].pc = "create" /\ Goes(v, "note")
    /\ mission' = "living"
    /\ UNCHANGED <<now, given, row, ram, fate, bounds>>

NotesMission(v) ==
    /\ run[v].pc = "note" /\ Goes(v, "final") /\ Fate(v, "done") /\ row' = Noted
    /\ UNCHANGED <<now, given, ram, mission, bounds>>

\* The finally block: a one-shot is deleted, with its job.
Finishes(v) ==
    /\ run[v].pc = "final" /\ Ends(v)
    /\ IF run[v].once
       THEN row' = [row EXCEPT !.exists = FALSE] /\ job' = 0
       ELSE UNCHANGED <<row, job>>
    /\ UNCHANGED <<now, given, up, catchup, marking, mission, fate, bounds>>

\* The missions go on: they end or ask their user, whose answer wakes them.
MissionMoves ==
    /\ mission # "none"
    /\ mission' = IF mission = "living" THEN "still" ELSE "living"
    /\ UNCHANGED <<now, given, row, ram, run, fate, bounds>>

-----------------------------------------------------------------------------
(* Requests of the user: pause, resume, run now, delete.                   *)

Use == up /\ row.exists /\ uses > 0 /\ uses' = uses - 1

Pauses == /\ Use /\ row.enabled /\ row' = [row EXCEPT !.enabled = FALSE] /\ job' = 0
          /\ fate' = [o \in Times |-> IF o \in Occs /\ o <= now /\ fate[o] = "none"
                                     THEN "paused" ELSE fate[o]]
          /\ UNCHANGED <<now, given, up, catchup, marking, run, mission,
                         stops>>

Resumes == /\ Use /\ ~row.enabled /\ row' = [row EXCEPT !.enabled = TRUE]
           /\ job' = NextFire
           /\ UNCHANGED <<now, given, up, catchup, marking, run, mission, fate, stops>>

RunsNow == /\ Use /\ Begin("manual", 0)
           /\ UNCHANGED <<now, given, row, ram, mission, fate, stops>>

Deletes == /\ Use /\ row' = [row EXCEPT !.exists = FALSE] /\ job' = 0
           /\ UNCHANGED <<now, given, up, catchup, marking, run, mission, fate, stops>>

-----------------------------------------------------------------------------
\* The task has just been created, enabled and scheduled.
Init == /\ now = 0 /\ kind \in Kinds /\ mode \in Modes
        /\ row = [exists |-> TRUE, enabled |-> TRUE, lastRun |-> 0, status |-> "none"]
        /\ up = TRUE /\ job = MinOr0(Occs) /\ catchup = 0 /\ marking = FALSE
        /\ run = [v \in Vias |-> NoRun] /\ mission = "none"
        /\ fate = [o \in Times |-> "none"]
        /\ stops = MaxStops /\ uses = MaxUses

Executes(v) == \/ Loads(v) \/ ChecksBudget(v) \/ MarksRunning(v) \/ Turns(v) \/ Saves(v)
               \/ ChecksLiving(v) \/ CreatesMission(v) \/ NotesMission(v) \/ Finishes(v)

Next == \/ Boot \/ Stop \/ Hour \/ Marks
        \/ Fires \/ CatchesUp \/ \E v \in Vias : Executes(v)
        \/ MissionMoves
        \/ Pauses \/ Resumes \/ RunsNow \/ Deletes

Spec == Init /\ [][Next]_vars

\* The process is started again after it stops, time passes, APScheduler fires what
\* is due and the awaits of an execution return.
FairSpec == /\ Spec /\ WF_vars(Boot) /\ WF_vars(Hour) /\ WF_vars(Marks)
            /\ WF_vars(Fires) /\ WF_vars(CatchesUp) /\ \A v \in Vias : WF_vars(Executes(v))

-----------------------------------------------------------------------------
\* Types.
TypeOK == /\ now \in Times /\ kind \in Kinds /\ mode \in Modes /\ row \in RowRec
          /\ up \in BOOLEAN /\ job \in Times /\ catchup \in Times /\ marking \in BOOLEAN
          /\ run \in [Vias -> RunRec] /\ mission \in {"none", "living", "still"}
          /\ fate \in [Times -> Fates]
          /\ stops \in 0..MaxStops /\ uses \in 0..MaxUses

\* No occurrence of a recurring task is lost in silence ("on cesse de la taire"):
\* once the process has settled, one that nobody executed was skipped for a reason
\* the scheduler knows, is covered by a later one, or shows on the task's card - as
\* missed, or as an execution a stop has cut and that still reads "running".
Quiet == /\ up /\ catchup = 0 /\ ~marking /\ (job = 0 \/ job > now)
         /\ \A v \in Vias : run[v].pc = "idle"
Covered(o) == \/ o <= row.lastRun
              \/ \E p \in Due : o <= p /\ p <= now /\ fate[p] # "none"
              \/ row.status \in {"missed", "running"}
NothingIsSilentlyLost ==
    kind = "cron" /\ Quiet /\ row.exists /\ row.enabled
        => \A o \in Due : o <= now => Covered(o)

\* A recurring occurrence that is executed, under way or left to its living mission
\* is not fired a second time, by its job or by the catch-up of a restart.
NotRedone == [][\A v \in {"job", "catchup"} :
    kind = "cron" /\ run[v].pc = "idle" /\ run'[v].pc = "load"
        => fate[run'[v].occ] \notin {"begun", "done", "busy"}]_vars

\* A one-shot the user leaves alone always comes to a verdict - it is executed, left to
\* a mission that lives, or refused by the budget - and its row always goes or is paused:
\* neither the age of a miss nor a stop leaves it waiting for ever (_delete_oneshot).
OneShotDisappears ==
    kind = "once" => /\ <>(\/ fate[OnceAt] \in {"done", "busy", "budget"}
                           \/ uses < MaxUses)
                     /\ <>(~row.exists \/ ~row.enabled)

-----------------------------------------------------------------------------
(* What comments of the code say, and the code does not do.                *)

\* "runs exactly once, then disappears" (scheduler.py:420): a one-shot that nobody
\* deleted has been executed when its row is gone.
OneShotRuns == kind = "once" /\ ~row.exists /\ uses = MaxUses => fate[OnceAt] = "done"
=============================================================================
