----------------------------- MODULE ScheduleProofs -----------------------------
(***************************************************************************)
(* Theorems about TaskSchedule for any occurrences of the expression, any  *)
(* grace and maximal age, any length of time, and any number of stops of   *)
(* the process and of requests of the user.                                *)
(***************************************************************************)
EXTENDS TaskSchedule, WellFoundedInduction, TLAPS

-----------------------------------------------------------------------------
(* The last and the next occurrences.                                      *)

LEMMA NatHasMin ==
    ASSUME NEW S, S \subseteq Nat, S # {}
    PROVE  \E x \in S : \A y \in S : x <= y
<1> DEFINE R == OpToRel(<, Nat)
<1>1. \A x, y \in Nat : x < y => <<x, y>> \in R
  BY DEF OpToRel
<1> HIDE DEF R
<1>2. IsWellFoundedOn(R, Nat)
  BY NatLessThanWellFounded DEF R
<1>3. PICK x \in S : \A y \in S : ~(<<y, x>> \in R)
  BY <1>2, WFMin
<1>4. \A y \in S : ~(y < x)
  BY <1>1, <1>3
<1> QED
  BY <1>3, <1>4

LEMMA MinOK ==
    ASSUME NEW S, S \subseteq Nat, S # {}
    PROVE  Min(S) \in S /\ \A y \in S : Min(S) <= y
BY NatHasMin DEF Min

LEMMA MaxOK ==
    ASSUME NEW n \in Nat, NEW S, S \subseteq 0..n, S # {}
    PROVE  Max(S) \in S /\ \A y \in S : Max(S) >= y
<1> DEFINE T == {n - x : x \in S}
<1>1. T \subseteq Nat
  <2>1. \A x \in S : n - x \in Nat
    OBVIOUS
  <2> QED
    BY <2>1
<1>2. T # {}
  <2>1. PICK x \in S : TRUE
    OBVIOUS
  <2>2. n - x \in T
    BY <2>1
  <2> QED
    BY <2>2
<1>3. PICK t \in T : \A y \in T : t <= y
  BY <1>1, <1>2, NatHasMin
<1>4. PICK x \in S : t = n - x
  BY <1>3
<1>5. \A y \in S : x >= y
  <2> TAKE y \in S
  <2>1. n - x <= n - y /\ x \in 0..n /\ y \in 0..n
    BY <1>3, <1>4
  <2> QED
    BY <2>1
<1> QED
  BY <1>5 DEF Max

LEMMA Constants ==
    /\ MaxTime \in Nat /\ Grace \in Nat /\ MaxAge \in Nat
    /\ MaxStops \in Nat /\ MaxUses \in Nat
    /\ Due \subseteq 1..MaxTime /\ Due \subseteq Nat \ {0}
    /\ OnceAt \in 1..MaxTime /\ Kinds \subseteq {"cron", "once"}
    /\ Times \subseteq Nat /\ Due \subseteq Times /\ OnceAt \in Times /\ 0 \in Times
BY TimesAssumption DEF Times

\* The next occurrence, or none is left.
LEMMA NextFireOK ==
    ASSUME now \in Times, kind \in Kinds
    PROVE  /\ NextFire \in Times
           /\ kind = "cron" => /\ NextFire # 0 => NextFire \in Due /\ NextFire > now
                               /\ \A o \in Due : o > now => NextFire # 0 /\ NextFire <= o
<1> DEFINE S == {o \in Due : o > now}
<1>1. S \subseteq Nat /\ S \subseteq Due
  BY Constants
<1>2. S # {} => MinOr0(S) \in S /\ \A o \in S : MinOr0(S) <= o
  BY <1>1, MinOK DEF MinOr0
<1>3. S = {} => MinOr0(S) = 0
  BY DEF MinOr0
<1>4. kind # "once" => NextFire = MinOr0(S)
  BY DEF NextFire
<1>5. kind = "once" => NextFire = OnceAt
  BY DEF NextFire
<1> HIDE DEF S
<1>6. CASE kind = "once"
  BY <1>5, <1>6, Constants
<1>7. CASE kind # "once" /\ S = {}
  <2>1. \A o \in Due : ~(o > now)
    BY <1>7 DEF S
  <2> QED
    BY <1>3, <1>4, <1>7, <2>1, Constants
<1>8. CASE kind # "once" /\ S # {}
  <2>1. NextFire \in Due /\ NextFire > now /\ \A o \in Due : o > now => NextFire <= o
    BY <1>2, <1>4, <1>8 DEF S
  <2> QED
    BY <2>1, Constants
<1> QED
  BY <1>6, <1>7, <1>8

\* The occurrence that a restart catches up: the last one since the last execution.
\* Without one, none is due that is not too old.
LEMMA MissedOK ==
    ASSUME now \in Times, kind \in Kinds, NEW age \in Nat, row.lastRun \in Times
    PROVE  /\ Missed(age) \in Times
           /\ kind = "cron" =>
                /\ Missed(age) # 0 => /\ Missed(age) \in Due /\ Missed(age) <= now
                                      /\ Missed(age) > row.lastRun
                                      /\ \A o \in Due : o <= now => o <= Missed(age)
                /\ Missed(age) = 0 =>
                     \A o \in Due : o <= now /\ o + age >= now => o <= row.lastRun
<1> DEFINE S == {o \in Due : o <= now /\ o > row.lastRun /\ o + age >= now}
<1>1. S \subseteq 0..MaxTime /\ S \subseteq Due /\ now \in Nat /\ row.lastRun \in Nat
  BY Constants DEF Times
<1>2. S # {} => MaxOr0(S) \in S /\ \A o \in S : MaxOr0(S) >= o
  BY <1>1, MaxOK, Constants DEF MaxOr0
<1>3. S = {} => MaxOr0(S) = 0
  BY DEF MaxOr0
<1>4. kind # "once" => Missed(age) = MaxOr0(S)
  BY DEF Missed, MissedSince
<1>5. kind = "once" => Missed(age) \in {0, OnceAt}
  BY DEF Missed
<1> HIDE DEF S
<1>6. CASE kind = "once"
  BY <1>5, <1>6, Constants
<1>7. CASE kind # "once" /\ S = {}
  <2>1. \A o \in Due : o <= now /\ o + age >= now => ~(o > row.lastRun)
    BY <1>7 DEF S
  <2>2. \A o \in Due : o <= now /\ o + age >= now => o <= row.lastRun
    BY <1>1, <2>1, Constants
  <2> QED
    BY <1>3, <1>4, <1>7, <2>2, Constants
<1>8. CASE kind # "once" /\ S # {}
  <2> DEFINE m == MaxOr0(S)
  <2>1. /\ m \in Due /\ m <= now /\ m > row.lastRun /\ m + age >= now
        /\ \A o \in S : m >= o
    BY <1>2, <1>8 DEF S
  <2> HIDE DEF m
  <2>2. m \in Nat /\ m # 0 /\ m \in Times
    BY <2>1, Constants
  <2>3. ASSUME NEW o \in Due, o <= now PROVE o <= m
    <3>1. o \in Nat
      BY Constants
    <3>2. CASE o \in S
      BY <2>1, <2>2, <3>1, <3>2
    <3>3. CASE o \notin S
      <4>1. ~(o > row.lastRun /\ o + age >= now)
        BY <2>3, <3>3 DEF S
      <4> QED
        BY <1>1, <2>1, <2>2, <3>1, <4>1
    <3> QED
      BY <3>2, <3>3
  <2>4. Missed(age) = m
    BY <1>4, <1>8 DEF m
  <2> QED
    BY <2>1, <2>2, <2>3, <2>4
<1> QED
  BY <1>6, <1>7, <1>8

\* What a job that is due fires: the last occurrence due.
LEMMA FiringOK ==
    ASSUME now \in Times, kind \in Kinds, kind = "cron", job \in Due, job <= now
    PROVE  Firing \in Due /\ Firing <= now /\ \A o \in Due : o <= now => o <= Firing
<1> DEFINE S == {o \in Due : o <= now}
<1>1. S \subseteq 0..MaxTime /\ job \in S
  BY Constants DEF Times
<1>2. Max(S) \in S /\ \A o \in S : Max(S) >= o
  BY <1>1, MaxOK, Constants
<1>3. Firing = Max(S)
  BY DEF Firing
<1> HIDE DEF Firing
<1>4. S \subseteq Nat
  BY Constants
<1> QED
  BY <1>2, <1>3, <1>4

-----------------------------------------------------------------------------
(* What a step of an execution does: to its own run, to what became of its   *)
(* occurrence, to the row, and, when it ends the life of a one-shot, to its  *)
(* job.                                                                      *)

JobOK   == kind = "cron" /\ job # 0 => job \in Due
TypeInv == TypeOK /\ JobOK

Elsewhere(v) == \A u \in Vias \ {v} : run'[u] = run[u]

LEMMA NoRunOK == NoRun \in RunRec /\ NoRun.pc = "idle"
BY Constants DEF NoRun, RunRec

LEMMA RunMoves ==
    ASSUME run \in [Vias -> RunRec], NEW v \in Vias,
           \/ \E pc \in {"load", "budget", "mark", "turn", "save", "check", "create", "note",
                         "final"} : Goes(v, pc)
           \/ Ends(v)
    PROVE  /\ run' \in [Vias -> RunRec] /\ Elsewhere(v)
           /\ run'[v].pc = "idle" \/ run'[v].occ = run[v].occ
<1>1. ASSUME NEW pc \in {"load", "budget", "mark", "turn", "save", "check", "create", "note",
                         "final"}, Goes(v, pc)
      PROVE  run' \in [Vias -> RunRec] /\ Elsewhere(v) /\ run'[v].occ = run[v].occ
  BY <1>1 DEF Goes, Elsewhere, RunRec
<1>2. CASE Ends(v)
  BY <1>2, NoRunOK DEF Ends, Elsewhere
<1> QED
  BY <1>1, <1>2

LEMMA NotedOK ==
    ASSUME row \in RowRec, now \in Times
    PROVE  /\ Noted \in RowRec
           /\ Noted.exists = row.exists /\ Noted.enabled = row.enabled
           /\ row.exists => Noted.lastRun = now
           /\ ~row.exists => Noted = row
BY DEF Noted, RowRec

\* How an occurrence may come out of its execution.
Outcome(v, f) ==
    /\ f \in {"done", "budget", "busy", "paused"} /\ v # "manual"
    /\ fate' = [fate EXCEPT ![run[v].occ] = f]
    /\ f \in {"done", "busy"} => row' = Noted

RowMoves == /\ row' \in RowRec /\ row'.enabled = row.enabled
            /\ row'.exists => row.exists
            /\ row'.lastRun = row.lastRun \/ row'.lastRun = now
            /\ row'.lastRun = now \/ row'.status = row.status \/ row'.status = "running"

LEMMA NotedMoves ==
    ASSUME row \in RowRec, now \in Times, row' = Noted
    PROVE  RowMoves
<1>1. CASE row.exists
  BY <1>1, NotedOK DEF RowMoves
<1>2. CASE ~row.exists
  BY <1>2, NotedOK DEF RowMoves
<1> QED
  BY <1>1, <1>2

LEMMA FateMoves ==
    ASSUME NEW v \in Vias, NEW f \in {"done", "budget", "busy", "paused"}, Fate(v, f),
           f \in {"done", "busy"} => row' = Noted
    PROVE  fate' = fate \/ Outcome(v, f)
BY DEF Fate, Outcome

LEMMA ExecutesOK ==
    ASSUME TypeOK, NEW v \in Vias, Executes(v)
    PROVE  /\ run[v].pc # "idle"
           /\ run' \in [Vias -> RunRec] /\ Elsewhere(v)
           /\ run'[v].pc = "idle" \/ run'[v].occ = run[v].occ
           /\ fate' = fate \/ \E f : Outcome(v, f)
           /\ RowMoves
           /\ job' = job \/ (job' = 0 /\ ~row'.exists)
           /\ mission' \in {"none", "living", "still"}
           /\ UNCHANGED <<now, given, up, catchup, marking, bounds>>
<1>1. /\ row \in RowRec /\ now \in Times /\ run \in [Vias -> RunRec] /\ mode \in Modes
      /\ mission \in {"none", "living", "still"}
  BY DEF TypeOK
<1>2. row' = row => RowMoves
  BY <1>1 DEF RowMoves
<1>3. CASE Loads(v)
  <2>1. /\ run[v].pc = "load" /\ row' = row /\ UNCHANGED <<now, given, ram, mission, bounds>>
    BY <1>3 DEF Loads
  <2>2. CASE row.exists /\ row.enabled
    <3>1. /\ run' = [run EXCEPT ![v].pc = "budget", ![v].once = (kind = "once")]
          /\ fate' = fate
      BY <1>3, <2>2 DEF Loads
    <3>2. run' \in [Vias -> RunRec] /\ Elsewhere(v) /\ run'[v].occ = run[v].occ
      BY <1>1, <3>1 DEF Elsewhere, RunRec
    <3> QED
      BY <1>1, <1>2, <2>1, <3>1, <3>2 DEF ram
  <2>3. CASE ~(row.exists /\ row.enabled)
    <3>1. Ends(v) /\ Fate(v, "paused")
      BY <1>3, <2>3 DEF Loads
    <3>2. fate' = fate \/ Outcome(v, "paused")
      BY <3>1, FateMoves
    <3> QED
      BY <1>1, <1>2, <2>1, <3>1, <3>2, RunMoves DEF ram
  <2> QED
    BY <2>2, <2>3
<1>4. CASE ChecksBudget(v)
  <2>1. run[v].pc = "budget" /\ row' = row /\ UNCHANGED <<now, given, ram, mission, bounds>>
    BY <1>4 DEF ChecksBudget
  <2>2. \/ Goes(v, "final") /\ Fate(v, "budget")
        \/ Goes(v, "check") /\ fate' = fate
        \/ Goes(v, "mark") /\ fate' = fate
    BY <1>4 DEF ChecksBudget
  <2>3. fate' = fate \/ Outcome(v, "budget")
    BY <2>2, FateMoves
  <2>4. /\ run' \in [Vias -> RunRec] /\ Elsewhere(v)
        /\ run'[v].pc = "idle" \/ run'[v].occ = run[v].occ
    BY <1>1, <2>2, RunMoves
  <2> QED
    BY <1>1, <1>2, <2>1, <2>3, <2>4 DEF ram
<1>5. CASE MarksRunning(v) \/ Turns(v) \/ CreatesMission(v)
  <2>1. /\ run[v].pc # "idle"
        /\ Goes(v, "turn") \/ Goes(v, "save") \/ Goes(v, "note")
        /\ fate' = fate /\ UNCHANGED <<now, given, ram, bounds>>
        /\ mission' = mission \/ mission' = "living"
    BY <1>5 DEF MarksRunning, Turns, CreatesMission
  <2>2. row' = row \/ row' = [row EXCEPT !.status = "running"]
    BY <1>5 DEF MarksRunning, Turns, CreatesMission
  <2>3. RowMoves
    BY <1>1, <2>2 DEF RowMoves, RowRec
  <2>4. /\ run' \in [Vias -> RunRec] /\ Elsewhere(v)
        /\ run'[v].pc = "idle" \/ run'[v].occ = run[v].occ
    BY <1>1, <2>1, RunMoves
  <2> QED
    BY <1>1, <2>1, <2>3, <2>4 DEF ram
<1>6. CASE Saves(v) \/ NotesMission(v)
  <2>1. /\ run[v].pc # "idle" /\ Goes(v, "final") /\ Fate(v, "done") /\ row' = Noted
        /\ UNCHANGED <<now, given, ram, mission, bounds>>
    BY <1>6 DEF Saves, NotesMission
  <2>2. RowMoves /\ (fate' = fate \/ Outcome(v, "done"))
    BY <1>1, <2>1, NotedMoves, FateMoves
  <2>3. /\ run' \in [Vias -> RunRec] /\ Elsewhere(v)
        /\ run'[v].pc = "idle" \/ run'[v].occ = run[v].occ
    BY <1>1, <2>1, RunMoves
  <2> QED
    BY <1>1, <2>1, <2>2, <2>3 DEF ram
<1>7. CASE ChecksLiving(v)
  <2>1. /\ run[v].pc = "check" /\ UNCHANGED <<now, given, ram, mission, bounds>>
        /\ \/ Goes(v, "final") /\ Fate(v, "busy") /\ row' = Noted
           \/ Goes(v, "create") /\ row' = row /\ fate' = fate
    BY <1>7 DEF ChecksLiving
  <2>2. RowMoves /\ (fate' = fate \/ Outcome(v, "busy"))
    BY <1>1, <1>2, <2>1, NotedMoves, FateMoves
  <2>3. /\ run' \in [Vias -> RunRec] /\ Elsewhere(v)
        /\ run'[v].pc = "idle" \/ run'[v].occ = run[v].occ
    BY <1>1, <2>1, RunMoves
  <2> QED
    BY <1>1, <2>1, <2>2, <2>3 DEF ram
<1>8. CASE Finishes(v)
  <2>1. /\ run[v].pc = "final" /\ Ends(v)
        /\ fate' = fate /\ UNCHANGED <<now, given, up, catchup, marking, mission, bounds>>
    BY <1>8 DEF Finishes
  <2>2. \/ row' = [row EXCEPT !.exists = FALSE] /\ job' = 0
        \/ row' = row /\ job' = job
    BY <1>8 DEF Finishes
  <2>3. RowMoves /\ (job' = job \/ (job' = 0 /\ ~row'.exists))
    <3>1. CASE row' = [row EXCEPT !.exists = FALSE] /\ job' = 0
      <4>1. /\ row' \in RowRec /\ row'.exists = FALSE /\ row'.enabled = row.enabled
            /\ row'.lastRun = row.lastRun /\ row'.status = row.status
        BY <1>1, <3>1 DEF RowRec
      <4> QED
        BY <3>1, <4>1 DEF RowMoves
    <3>2. CASE row' = row /\ job' = job
      BY <1>2, <3>2
    <3> QED
      BY <2>2, <3>1, <3>2
  <2>4. /\ run' \in [Vias -> RunRec] /\ Elsewhere(v)
        /\ run'[v].pc = "idle" \/ run'[v].occ = run[v].occ
    BY <1>1, <2>1, RunMoves
  <2> QED
    BY <1>1, <2>1, <2>3, <2>4
<1> QED
  BY <1>3, <1>4, <1>5, <1>6, <1>7, <1>8 DEF Executes

-----------------------------------------------------------------------------
(* Types.                                                                    *)

LEMMA OutcomeOK ==
    ASSUME fate \in [Times -> Fates], NEW v \in Vias, fate' = fate \/ \E f : Outcome(v, f)
    PROVE  fate' \in [Times -> Fates]
BY DEF Outcome, Fates

LEMMA TypeExecutes ==
    ASSUME TypeInv, NEW v \in Vias, Executes(v)
    PROVE  TypeInv'
<1>1. TypeOK
  BY DEF TypeInv
<1>2. /\ run' \in [Vias -> RunRec] /\ row' \in RowRec
      /\ fate' = fate \/ \E f : Outcome(v, f)
      /\ job' = job \/ job' = 0
      /\ mission' \in {"none", "living", "still"}
      /\ UNCHANGED <<now, given, up, catchup, marking, bounds>>
  BY <1>1, ExecutesOK DEF RowMoves
<1>3. fate' \in [Times -> Fates]
  BY <1>1, <1>2, OutcomeOK DEF TypeOK
<1>4. job' \in Times /\ JobOK'
  BY <1>1, <1>2, Constants DEF TypeOK, TypeInv, JobOK, given
<1> QED
  BY <1>1, <1>2, <1>3, <1>4 DEF TypeInv, TypeOK, given, bounds

\* What a boot registers.
LEMMA TypeProcess ==
    ASSUME TypeInv, Boot \/ Stop \/ Hour \/ Marks
    PROVE  TypeInv'
<1> USE DEF TypeInv, given, ram, bounds
<1>1. /\ now \in Times /\ kind \in Kinds /\ row \in RowRec /\ row.lastRun \in Times
      /\ job \in Times /\ catchup \in Times /\ fate \in [Times -> Fates]
      /\ JobOK
  BY DEF TypeOK, RowRec
<1>2. CASE Boot
  <2>1. /\ up' = TRUE /\ UNCHANGED <<now, given, row, run, mission, fate, bounds>>
        /\ \/ job' = NextFire /\ catchup' = Missed(MaxAge)
              /\ marking' = (Missed(MaxAge) = 0 /\ Missed(MaxTime) # 0)
           \/ UNCHANGED <<job, catchup, marking>>
    BY <1>2 DEF Boot, Registers
  <2>2. NextFire \in Times /\ Missed(MaxAge) \in Times
        /\ (kind = "cron" /\ NextFire # 0 => NextFire \in Due)
    BY <1>1, NextFireOK, MissedOK, Constants
  <2>3. job' \in Times /\ catchup' \in Times
    BY <1>1, <2>1, <2>2
  <2>4. marking' \in BOOLEAN
    BY <2>1 DEF TypeOK
  <2>5. JobOK'
    BY <1>1, <2>1, <2>2 DEF JobOK
  <2> QED
    BY <2>1, <2>3, <2>4, <2>5 DEF TypeOK
<1>3. CASE Stop
  <2>1. /\ up' = FALSE /\ job' = 0 /\ catchup' = 0 /\ marking' = FALSE
        /\ run' = [v \in Vias |-> NoRun] /\ stops' \in 0..MaxStops
        /\ UNCHANGED <<now, given, row, mission, uses>>
    BY <1>3, Constants DEF Stop, TypeOK
  <2>2. fate' \in [Times -> Fates]
    BY <1>1, <1>3 DEF Stop, Fates
  <2>3. run' \in [Vias -> RunRec]
    BY <2>1, NoRunOK
  <2>4. JobOK'
    BY <2>1 DEF JobOK
  <2> QED
    BY <2>1, <2>2, <2>3, <2>4, Constants DEF TypeOK
<1>4. CASE Hour
  <2>1. now' \in Times /\ UNCHANGED <<given, row, ram, run, mission, bounds>>
    BY <1>1, <1>4, Constants DEF Hour, Times
  <2>2. fate' \in [Times -> Fates]
    BY <1>1, <1>4 DEF Hour, Fates
  <2>3. JobOK'
    BY <1>1, <2>1 DEF JobOK
  <2> QED
    BY <2>1, <2>2, <2>3 DEF TypeOK
<1>5. CASE Marks
  <2>1. /\ marking' = FALSE
        /\ UNCHANGED <<now, given, up, job, catchup, run, mission, fate, bounds>>
        /\ row' = row \/ row' = [row EXCEPT !.status = "missed"]
    BY <1>5 DEF Marks
  <2>2. row' \in RowRec
    BY <1>1, <2>1 DEF RowRec
  <2>3. JobOK'
    BY <1>1, <2>1 DEF JobOK
  <2> QED
    BY <2>1, <2>2, <2>3 DEF TypeOK
<1> QED
  BY <1>2, <1>3, <1>4, <1>5

LEMMA BeginOK ==
    ASSUME run \in [Vias -> RunRec], NEW v \in Vias, NEW o \in Times, Begin(v, o)
    PROVE  /\ run[v].pc = "idle" /\ run' \in [Vias -> RunRec] /\ Elsewhere(v)
           /\ run'[v].pc = "load" /\ run'[v].occ = o
BY Constants DEF Begin, NoRun, RunRec, Elsewhere

\* An execution that the clock starts is of an occurrence that is due.
LEMMA FiresOK ==
    ASSUME TypeInv, Fires
    PROVE  /\ up /\ job # 0 /\ job <= now
           /\ job' = IF kind = "once" THEN 0 ELSE NextFire
           /\ \/ now > job + Grace /\ run' = run /\ fate' = fate
              \/ /\ Firing \in Times /\ fate' = [fate EXCEPT ![Firing] = "overlap"]
                 /\ run' = run
              \/ /\ Firing \in Times /\ fate' = [fate EXCEPT ![Firing] = "begun"]
                 /\ Begin("job", Firing)
           /\ UNCHANGED <<now, given, row, up, catchup, marking, mission, bounds>>
<1>1. now \in Times /\ kind \in Kinds
  BY DEF TypeInv, TypeOK
<1>2. up /\ job # 0 /\ job <= now
  BY DEF Fires
<1>3. Firing \in Times
  <2>1. CASE kind = "once"
    BY <2>1, Constants DEF Firing
  <2>2. CASE kind = "cron"
    <3>1. job \in Due
      BY <1>2, <2>2 DEF TypeInv, JobOK
    <3> QED
      BY <1>1, <1>2, <2>2, <3>1, FiringOK, Constants
  <2> QED
    BY <1>1, <2>1, <2>2, Constants
<1> QED
  BY <1>2, <1>3 DEF Fires

LEMMA TypeClock ==
    ASSUME TypeInv, Fires \/ CatchesUp
    PROVE  TypeInv'
<1> USE DEF TypeInv, given, ram, bounds
<1>1. /\ now \in Times /\ kind \in Kinds /\ run \in [Vias -> RunRec]
      /\ job \in Times /\ catchup \in Times /\ fate \in [Times -> Fates]
      /\ JobOK
  BY DEF TypeOK
<1>2. CASE Fires
  <2>1. /\ job' = IF kind = "once" THEN 0 ELSE NextFire
        /\ \/ run' = run /\ fate' = fate
           \/ fate' = [fate EXCEPT ![Firing] = "overlap"] /\ run' = run
           \/ /\ Firing \in Times /\ fate' = [fate EXCEPT ![Firing] = "begun"]
              /\ Begin("job", Firing)
        /\ UNCHANGED <<now, given, row, up, catchup, marking, mission, bounds>>
    BY <1>2, FiresOK
  <2>2. job' \in Times /\ JobOK'
    BY <1>1, <2>1, NextFireOK, Constants DEF JobOK
  <2>3. run' \in [Vias -> RunRec]
    BY <1>1, <2>1, BeginOK DEF Vias
  <2>4. fate' \in [Times -> Fates]
    BY <1>1, <2>1 DEF Fates
  <2> QED
    BY <2>1, <2>2, <2>3, <2>4 DEF TypeOK
<1>3. CASE CatchesUp
  <2>1. /\ catchup' = 0 /\ Begin("catchup", catchup)
        /\ fate' = [fate EXCEPT ![catchup] = "begun"]
        /\ UNCHANGED <<now, given, row, up, job, marking, mission, bounds>>
    BY <1>3 DEF CatchesUp
  <2>2. run' \in [Vias -> RunRec]
    BY <1>1, <2>1, BeginOK DEF Vias
  <2>3. fate' \in [Times -> Fates]
    BY <1>1, <2>1 DEF Fates
  <2>4. JobOK'
    BY <1>1, <2>1 DEF JobOK
  <2> QED
    BY <2>1, <2>2, <2>3, <2>4, Constants DEF TypeOK
<1> QED
  BY <1>2, <1>3

LEMMA TypeUser ==
    ASSUME TypeInv, MissionMoves \/ Pauses \/ Resumes \/ RunsNow \/ Deletes
    PROVE  TypeInv'
<1> USE DEF TypeInv, given, ram, bounds
<1>1. /\ now \in Times /\ kind \in Kinds /\ run \in [Vias -> RunRec] /\ row \in RowRec
      /\ job \in Times /\ catchup \in Times /\ fate \in [Times -> Fates]
      /\ JobOK
  BY DEF TypeOK
<1>2. Use => uses' \in 0..MaxUses
  BY Constants DEF Use, TypeOK
<1>3. CASE MissionMoves
  BY <1>1, <1>3 DEF MissionMoves, TypeOK, JobOK
<1>4. CASE Pauses
  <2>1. /\ Use /\ row' = [row EXCEPT !.enabled = FALSE] /\ job' = 0
        /\ UNCHANGED <<now, given, up, catchup, marking, run, mission, stops>>
    BY <1>4 DEF Pauses
  <2>2. row' \in RowRec /\ JobOK'
    BY <1>1, <2>1 DEF RowRec, JobOK
  <2>3. fate' \in [Times -> Fates]
    BY <1>1, <1>4 DEF Pauses, Fates
  <2> QED
    BY <1>2, <2>1, <2>2, <2>3, Constants DEF TypeOK
<1>5. CASE Resumes
  <2>1. /\ Use /\ row' = [row EXCEPT !.enabled = TRUE] /\ job' = NextFire
        /\ UNCHANGED <<now, given, up, catchup, marking, run, mission, fate, stops>>
    BY <1>5 DEF Resumes
  <2>2. row' \in RowRec
    BY <1>1, <2>1 DEF RowRec
  <2>3. job' \in Times /\ JobOK'
    BY <1>1, <2>1, NextFireOK DEF JobOK
  <2> QED
    BY <1>2, <2>1, <2>2, <2>3 DEF TypeOK
<1>6. CASE RunsNow
  <2>1. /\ Use /\ Begin("manual", 0)
        /\ UNCHANGED <<now, given, row, ram, mission, fate, stops>>
    BY <1>6 DEF RunsNow
  <2>2. run' \in [Vias -> RunRec]
    BY <1>1, <2>1, BeginOK, Constants DEF Vias
  <2>3. JobOK'
    BY <1>1, <2>1 DEF JobOK
  <2> QED
    BY <1>2, <2>1, <2>2, <2>3 DEF TypeOK
<1>7. CASE Deletes
  <2>1. /\ Use /\ row' = [row EXCEPT !.exists = FALSE] /\ job' = 0
        /\ UNCHANGED <<now, given, up, catchup, marking, run, mission, fate, stops>>
    BY <1>7 DEF Deletes
  <2>2. row' \in RowRec /\ JobOK'
    BY <1>1, <2>1 DEF RowRec, JobOK
  <2> QED
    BY <1>2, <2>1, <2>2, Constants DEF TypeOK
<1> QED
  BY <1>3, <1>4, <1>5, <1>6, <1>7

\* The first occurrence is scheduled with the task.
LEMMA TypeInit == Init => TypeInv
<1> SUFFICES ASSUME Init PROVE TypeInv
  OBVIOUS
<1>1. now = 0 /\ kind \in Kinds /\ now \in Times
  BY Constants DEF Init
<1>2. job \in Times /\ JobOK
  <2>1. Occs \subseteq Nat /\ Occs \subseteq Times /\ (kind = "cron" => Occs \subseteq Due)
    BY Constants DEF Occs
  <2>2. MinOr0(Occs) = 0 \/ MinOr0(Occs) \in Occs
    BY <2>1, MinOK DEF MinOr0
  <2> QED
    BY <2>1, <2>2, Constants DEF Init, JobOK
<1>3. row \in RowRec
  BY Constants DEF Init, RowRec
<1>4. run \in [Vias -> RunRec]
  BY NoRunOK DEF Init
<1>5. fate \in [Times -> Fates]
  BY DEF Init, Fates
<1>6. stops \in 0..MaxStops /\ uses \in 0..MaxUses /\ catchup \in Times
  BY Constants DEF Init
<1>7. up \in BOOLEAN /\ marking \in BOOLEAN /\ mode \in Modes
      /\ mission \in {"none", "living", "still"}
  BY DEF Init
<1> QED
  BY <1>1, <1>2, <1>3, <1>4, <1>5, <1>6, <1>7 DEF TypeInv, TypeOK

LEMMA TypeNext == TypeInv /\ [Next]_vars => TypeInv'
<1> SUFFICES ASSUME TypeInv, [Next]_vars PROVE TypeInv'
  OBVIOUS
<1>1. CASE UNCHANGED vars
  BY <1>1 DEF TypeInv, TypeOK, JobOK, vars, given, ram, bounds
<1>2. CASE Next
  BY <1>2, TypeProcess, TypeClock, TypeExecutes, TypeUser DEF Next
<1> QED
  BY <1>1, <1>2

\* Every variable keeps its type; the job of a recurring task fires at an occurrence
\* of its expression, so that there is always one to fire when it is due.
THEOREM TypeCorrect == Spec => []TypeOK
<1>1. TypeInv => TypeOK
  BY DEF TypeInv
<1> QED
  BY <1>1, TypeInit, TypeNext, PTL DEF Spec

-----------------------------------------------------------------------------
(* Nothing is fired twice.  What was fired is behind the job, which fires at *)
(* an occurrence that was to come when it was set; and what a boot catches   *)
(* up is after the last execution, while those that are over are before it.  *)

Fired(o) == fate[o] \in {"begun", "done", "busy"}

DownOK   == ~up => /\ job = 0 /\ catchup = 0 /\ \A v \in Vias : run[v].pc = "idle"
                   /\ \A o \in Times : fate[o] # "begun"
RunOK(v) == run[v].pc # "idle" /\ v # "manual" =>
                run[v].occ <= now /\ (job # 0 => run[v].occ < job)
FateOK(o) == /\ Fired(o) => o <= now /\ (job # 0 => o < job)
             /\ row.exists /\ fate[o] \in {"done", "busy"} => o <= row.lastRun
CatchOK  == catchup # 0 => /\ catchup \in Due /\ catchup <= now /\ (job # 0 => job > now)
                           /\ run["job"].pc = "idle" /\ run["catchup"].pc = "idle"
                           /\ ~Fired(catchup)
CronOK   == DownOK /\ CatchOK /\ (\A v \in Vias : RunOK(v)) /\ \A o \in Times : FateOK(o)
CronInv  == TypeInv /\ (kind = "cron" => CronOK)

LEMMA CronTypes ==
    ASSUME TypeInv
    PROVE  /\ TypeOK /\ now \in Times /\ kind \in Kinds /\ row \in RowRec
           /\ run \in [Vias -> RunRec] /\ fate \in [Times -> Fates]
           /\ row.lastRun \in Times /\ job \in Times /\ catchup \in Times
           /\ now \in Nat /\ job \in Nat /\ catchup \in Nat /\ row.lastRun \in Nat
           /\ \A v \in Vias : run[v].occ \in Times /\ run[v].occ \in Nat
BY Constants DEF TypeInv, TypeOK, RowRec, RunRec

\* While a process that has just booted has an occurrence to catch up, neither its
\* job nor the catch-up runs, and the job has still to come.
LEMMA CronExecutes ==
    ASSUME CronInv, kind = "cron", NEW v \in Vias, Executes(v)
    PROVE  CronOK'
<1>1. TypeInv /\ CronOK
  BY DEF CronInv
<1>2. /\ run[v].pc # "idle" /\ Elsewhere(v)
      /\ run'[v].pc = "idle" \/ run'[v].occ = run[v].occ
      /\ fate' = fate \/ \E f : Outcome(v, f)
      /\ RowMoves
      /\ job' = job \/ job' = 0
      /\ UNCHANGED <<now, up, catchup>>
  BY <1>1, CronTypes, ExecutesOK DEF given
<1>3. /\ now \in Nat /\ row.lastRun \in Nat /\ run[v].occ \in Times /\ run[v].occ \in Nat
      /\ fate \in [Times -> Fates] /\ row \in RowRec /\ Times \subseteq Nat
  BY <1>1, CronTypes, Constants
<1>4. up
  BY <1>1, <1>2 DEF CronOK, DownOK
<1>5. DownOK'
  BY <1>2, <1>4 DEF DownOK
<1>6. ASSUME NEW o \in Times
      PROVE  \/ fate'[o] = fate[o]
             \/ /\ v # "manual" /\ o = run[v].occ
                /\ fate'[o] \in {"done", "budget", "busy", "paused"}
                /\ fate'[o] \in {"done", "busy"} => row' = Noted
  BY <1>2, <1>3 DEF Outcome
<1>7. v # "manual" => run[v].occ <= now /\ (job # 0 => run[v].occ < job)
  BY <1>1, <1>2 DEF CronOK, RunOK
<1>8. ASSUME NEW u \in Vias PROVE RunOK(u)'
  <2>1. RunOK(u)
    BY <1>1 DEF CronOK
  <2>2. CASE u = v
    BY <1>2, <1>7, <2>2 DEF RunOK
  <2>3. CASE u # v
    BY <1>2, <2>1, <2>3 DEF RunOK, Elsewhere
  <2> QED
    BY <2>2, <2>3
<1>9. ASSUME NEW o \in Times PROVE FateOK(o)'
  <2>1. FateOK(o) /\ o \in Nat
    BY <1>1, <1>3 DEF CronOK
  <2>2. row'.exists => row.exists /\ (row'.lastRun = row.lastRun \/ row'.lastRun = now)
    BY <1>2 DEF RowMoves
  <2>3. CASE fate'[o] = fate[o]
    <3>1. Fired(o)' => o <= now' /\ (job' # 0 => o < job')
      BY <1>2, <2>1, <2>3 DEF FateOK, Fired
    <3>2. row'.exists /\ fate'[o] \in {"done", "busy"} => o <= row'.lastRun
      BY <1>3, <2>1, <2>2, <2>3 DEF FateOK, Fired
    <3> QED
      BY <3>1, <3>2 DEF FateOK
  <2>4. CASE /\ v # "manual" /\ o = run[v].occ
             /\ fate'[o] \in {"done", "busy"} => row' = Noted
             /\ fate'[o] \in {"done", "budget", "busy", "paused"}
    <3>1. o <= now' /\ (job' # 0 => o < job')
      BY <1>2, <1>7, <2>4
    <3>2. row'.exists /\ fate'[o] \in {"done", "busy"} => o <= row'.lastRun
      BY <1>2, <1>3, <1>7, <2>2, <2>4, NotedOK, <1>1, CronTypes
    <3> QED
      BY <3>1, <3>2 DEF FateOK
  <2> QED
    BY <1>6, <2>3, <2>4
<1>10. CatchOK'
  <2> SUFFICES ASSUME catchup # 0 PROVE CatchOK'
    BY <1>2 DEF CatchOK
  <2>1. /\ catchup \in Due /\ catchup <= now /\ (job # 0 => job > now)
        /\ run["job"].pc = "idle" /\ run["catchup"].pc = "idle" /\ ~Fired(catchup)
    BY <1>1 DEF CronOK, CatchOK
  <2>2. v = "manual"
    BY <1>2, <2>1 DEF Vias
  <2>3. fate' = fate
    BY <1>2, <2>2 DEF Outcome
  <2>4. run'["job"].pc = "idle" /\ run'["catchup"].pc = "idle"
    BY <1>2, <2>1, <2>2 DEF Elsewhere, Vias
  <2> QED
    BY <1>2, <2>1, <2>3, <2>4 DEF CatchOK, Fired
<1> QED
  BY <1>5, <1>8, <1>9, <1>10 DEF CronOK

LEMMA CronProcess ==
    ASSUME CronInv, kind = "cron", Boot \/ Stop \/ Hour \/ Marks
    PROVE  CronOK'
<1>1. TypeInv /\ CronOK
  BY DEF CronInv
<1>2. /\ now \in Nat /\ job \in Nat /\ row \in RowRec /\ row.lastRun \in Times
      /\ fate \in [Times -> Fates] /\ now \in Times /\ kind \in Kinds
      /\ \A v \in Vias : run[v].occ \in Nat
  BY <1>1, CronTypes
<1>3. CASE Boot
  <2>1. /\ ~up /\ up' = TRUE /\ now' = now /\ row' = row /\ run' = run /\ fate' = fate
        /\ \/ row.exists /\ job' = NextFire /\ catchup' = Missed(MaxAge)
           \/ job' = job /\ catchup' = catchup
    BY <1>3 DEF Boot, Registers
  <2>2. /\ job = 0 /\ catchup = 0 /\ (\A v \in Vias : run[v].pc = "idle")
        /\ \A o \in Times : fate[o] # "begun"
    BY <1>1, <2>1 DEF CronOK, DownOK
  <2>3. /\ NextFire # 0 => NextFire > now /\ NextFire \in Nat
        /\ Missed(MaxAge) # 0 => /\ Missed(MaxAge) \in Due /\ Missed(MaxAge) <= now
                                 /\ Missed(MaxAge) > row.lastRun
    BY <1>2, NextFireOK, MissedOK, Constants
  <2>4. job' # 0 => job' > now /\ job' \in Nat
    BY <2>1, <2>2, <2>3
  <2>5. \A v \in Vias : RunOK(v)'
    BY <2>1, <2>2 DEF RunOK
  <2>6. ASSUME NEW o \in Times PROVE FateOK(o)'
    <3>1. FateOK(o) /\ o \in Nat
      BY <1>1, Constants DEF CronOK
    <3> QED
      BY <1>2, <2>1, <2>4, <3>1 DEF FateOK, Fired
  <2>7. CatchOK'
    <3> SUFFICES ASSUME catchup' # 0 PROVE CatchOK'
      BY DEF CatchOK
    <3>1. row.exists /\ catchup' = Missed(MaxAge) /\ catchup' # 0
      BY <2>1, <2>2
    <3>2. /\ catchup' \in Due /\ catchup' \in Times /\ catchup' \in Nat
          /\ catchup' <= now /\ catchup' > row.lastRun
      BY <2>3, <3>1, Constants
    <3>3. FateOK(catchup') /\ row.lastRun \in Nat
      BY <1>1, <1>2, <3>2, Constants DEF CronOK
    <3>4. fate[catchup'] \notin {"begun", "done", "busy"}
      BY <2>2, <3>1, <3>2, <3>3 DEF FateOK
    <3> QED
      BY <2>1, <2>2, <2>4, <3>2, <3>4 DEF CatchOK, Fired, Vias
  <2>8. DownOK'
    BY <2>1 DEF DownOK
  <2> QED
    BY <2>5, <2>6, <2>7, <2>8 DEF CronOK
<1>4. CASE Stop
  <2>1. /\ up' = FALSE /\ now' = now /\ row' = row /\ job' = 0 /\ catchup' = 0
        /\ run' = [v \in Vias |-> NoRun]
        /\ fate' = [o \in Times |-> IF fate[o] # "begun" THEN fate[o]
                                    ELSE IF row.enabled THEN "none" ELSE "paused"]
    BY <1>4 DEF Stop
  <2>2. \A v \in Vias : run'[v].pc = "idle"
    BY <2>1, NoRunOK
  <2>3. ASSUME NEW o \in Times PROVE fate'[o] # "begun" /\ FateOK(o)'
    <3>1. FateOK(o)
      BY <1>1 DEF CronOK
    <3>2. (fate'[o] = fate[o] /\ fate[o] # "begun") \/ fate'[o] \in {"none", "paused"}
      BY <2>1
    <3> QED
      BY <2>1, <3>1, <3>2 DEF FateOK, Fired
  <2>4. DownOK'
    BY <2>1, <2>2, <2>3 DEF DownOK
  <2>5. CatchOK'
    BY <2>1 DEF CatchOK
  <2>6. \A v \in Vias : RunOK(v)'
    BY <2>2 DEF RunOK
  <2> QED
    BY <2>3, <2>4, <2>5, <2>6 DEF CronOK
<1>5. CASE Hour
  <2>1. /\ now' = now + 1 /\ row' = row /\ run' = run
        /\ UNCHANGED <<up, job, catchup>> /\ (up => catchup = 0)
        /\ fate' = [o \in Times |-> IF o = now + 1 /\ o \in Occs /\ ~row.enabled
                                    THEN "paused" ELSE fate[o]]
    BY <1>5 DEF Hour, ram
  <2>2. catchup = 0
    BY <1>1, <2>1 DEF CronOK, DownOK
  <2>3. ASSUME NEW o \in Times
        PROVE  FateOK(o)' /\ (fate[o] # "begun" => fate'[o] # "begun")
    <3>1. FateOK(o) /\ o \in Nat
      BY <1>1, Constants DEF CronOK
    <3>2. fate'[o] = fate[o] \/ fate'[o] = "paused"
      BY <2>1
    <3>3. o <= now => o <= now + 1
      BY <1>2, <3>1
    <3> QED
      BY <2>1, <3>1, <3>2, <3>3 DEF FateOK, Fired
  <2>4. ASSUME NEW v \in Vias PROVE RunOK(v)'
    <3>1. RunOK(v) /\ run[v].occ \in Nat
      BY <1>1, <1>2 DEF CronOK
    <3>2. run[v].occ <= now => run[v].occ <= now + 1
      BY <1>2, <3>1
    <3> QED
      BY <2>1, <3>1, <3>2 DEF RunOK
  <2>5. CatchOK'
    BY <2>1, <2>2 DEF CatchOK
  <2>6. DownOK'
    BY <1>1, <2>1, <2>3 DEF CronOK, DownOK
  <2> QED
    BY <2>3, <2>4, <2>5, <2>6 DEF CronOK
<1>6. CASE Marks
  <2>1. /\ UNCHANGED <<now, up, job, catchup, run, fate>>
        /\ row' = row \/ row' = [row EXCEPT !.status = "missed"]
    BY <1>6 DEF Marks
  <2>2. row'.exists = row.exists /\ row'.lastRun = row.lastRun
    BY <1>2, <2>1 DEF RowRec
  <2> QED
    BY <1>1, <2>1, <2>2 DEF CronOK, DownOK, CatchOK, RunOK, FateOK, Fired
<1> QED
  BY <1>3, <1>4, <1>5, <1>6

LEMMA CronClock ==
    ASSUME CronInv, kind = "cron", Fires \/ CatchesUp
    PROVE  CronOK'
<1>1. TypeInv /\ CronOK
  BY DEF CronInv
<1>2. /\ now \in Nat /\ job \in Nat /\ catchup \in Times /\ catchup \in Nat
      /\ fate \in [Times -> Fates] /\ now \in Times /\ kind \in Kinds
      /\ run \in [Vias -> RunRec]
  BY <1>1, CronTypes
<1>3. CASE Fires
  <2>1. /\ up /\ job # 0 /\ job <= now /\ job' = NextFire
        /\ \/ run' = run /\ fate' = fate
           \/ fate' = [fate EXCEPT ![Firing] = "overlap"] /\ run' = run
           \/ fate' = [fate EXCEPT ![Firing] = "begun"] /\ Begin("job", Firing)
        /\ UNCHANGED <<now, row, up, catchup>>
    BY <1>1, <1>3, FiresOK
  <2>2. catchup = 0
    BY <1>1, <1>2, <2>1 DEF CronOK, CatchOK
  <2>3. Firing \in Due /\ Firing <= now /\ Firing \in Times
    BY <1>1, <1>2, <2>1, FiringOK, Constants DEF TypeInv, JobOK
  <2>4. job' # 0 => job' > now /\ job' \in Nat
    BY <1>2, <2>1, NextFireOK, Constants
  <2>5. ASSUME NEW o \in Times PROVE FateOK(o)'
    <3>1. FateOK(o) /\ o \in Nat
      BY <1>1, Constants DEF CronOK
    <3>2. fate'[o] = fate[o] \/ (fate'[o] \in {"overlap", "begun"} /\ o = Firing)
      BY <1>2, <2>1
    <3>3. Fired(o)' => o <= now
      BY <2>3, <3>1, <3>2 DEF FateOK, Fired
    <3>4. o <= now => (job' # 0 => o < job')
      BY <1>2, <2>4, <3>1
    <3>5. row.exists /\ fate'[o] \in {"done", "busy"} => o <= row.lastRun
      BY <3>1, <3>2 DEF FateOK
    <3> QED
      BY <2>1, <3>3, <3>4, <3>5 DEF FateOK
  <2>6. ASSUME NEW v \in Vias PROVE RunOK(v)'
    <3>1. RunOK(v) /\ run[v].occ \in Nat
      BY <1>1, CronTypes DEF CronOK
    <3>2. run'[v] = run[v] \/ run'[v].occ = Firing
      BY <1>2, <2>1, <2>3, BeginOK DEF Elsewhere, Vias
    <3>3. run'[v].pc # "idle" /\ v # "manual" => run'[v].occ <= now /\ run'[v].occ \in Nat
      BY <2>3, <3>1, <3>2, Constants DEF RunOK
    <3> QED
      BY <1>2, <2>1, <2>4, <3>3 DEF RunOK
  <2>7. CatchOK' /\ DownOK'
    BY <2>1, <2>2 DEF CatchOK, DownOK
  <2> QED
    BY <2>5, <2>6, <2>7 DEF CronOK
<1>4. CASE CatchesUp
  <2>1. /\ up /\ catchup # 0 /\ catchup' = 0 /\ Begin("catchup", catchup)
        /\ fate' = [fate EXCEPT ![catchup] = "begun"]
        /\ UNCHANGED <<now, row, up, job>>
    BY <1>4 DEF CatchesUp
  <2>2. catchup <= now /\ (job # 0 => job > now)
    BY <1>1, <2>1 DEF CronOK, CatchOK
  <2>3. job # 0 => catchup < job
    BY <1>2, <2>2
  <2>4. ASSUME NEW o \in Times PROVE FateOK(o)'
    <3>1. FateOK(o)
      BY <1>1 DEF CronOK
    <3>2. fate'[o] = fate[o] \/ (fate'[o] = "begun" /\ o = catchup)
      BY <1>2, <2>1
    <3> QED
      BY <2>1, <2>2, <2>3, <3>1, <3>2 DEF FateOK, Fired
  <2>5. ASSUME NEW v \in Vias PROVE RunOK(v)'
    <3>1. RunOK(v)
      BY <1>1 DEF CronOK
    <3>2. run'[v] = run[v] \/ run'[v].occ = catchup
      BY <1>2, <2>1, BeginOK DEF Elsewhere, Vias
    <3> QED
      BY <2>1, <2>2, <2>3, <3>1, <3>2 DEF RunOK
  <2>6. CatchOK' /\ DownOK'
    BY <2>1 DEF CatchOK, DownOK
  <2> QED
    BY <2>4, <2>5, <2>6 DEF CronOK
<1> QED
  BY <1>3, <1>4

LEMMA CronUser ==
    ASSUME CronInv, kind = "cron", MissionMoves \/ Pauses \/ Resumes \/ RunsNow \/ Deletes
    PROVE  CronOK'
<1>1. TypeInv /\ CronOK
  BY DEF CronInv
<1>2. /\ now \in Nat /\ row \in RowRec /\ fate \in [Times -> Fates] /\ now \in Times
      /\ kind \in Kinds /\ run \in [Vias -> RunRec] /\ catchup \in Times
  BY <1>1, CronTypes
<1>3. CASE MissionMoves
  BY <1>1, <1>3
  DEF MissionMoves, ram, CronOK, DownOK, CatchOK, RunOK, FateOK, Fired
<1>4. CASE Pauses \/ Deletes
  <2>1. /\ up /\ job' = 0 /\ UNCHANGED <<now, up, catchup, run>>
        /\ row' = [row EXCEPT !.enabled = FALSE] \/ row' = [row EXCEPT !.exists = FALSE]
    BY <1>4 DEF Pauses, Deletes, Use
  <2>2. row'.lastRun = row.lastRun /\ (row'.exists => row.exists)
    BY <1>2, <2>1 DEF RowRec
  <2>3. \A o \in Times : fate'[o] = fate[o] \/ fate'[o] = "paused"
    BY <1>4 DEF Pauses, Deletes
  <2>4. \A o \in Times : FateOK(o)'
    BY <1>1, <2>1, <2>2, <2>3 DEF CronOK, FateOK, Fired
  <2>5. \A v \in Vias : RunOK(v)'
    BY <1>1, <2>1 DEF CronOK, RunOK
  <2>6. CatchOK'
    BY <1>1, <1>2, <2>1, <2>3 DEF CronOK, CatchOK, Fired
  <2>7. DownOK'
    BY <2>1 DEF DownOK
  <2> QED
    BY <2>4, <2>5, <2>6, <2>7 DEF CronOK
<1>5. CASE Resumes
  <2>1. /\ up /\ job' = NextFire /\ UNCHANGED <<now, up, catchup, run, fate>>
        /\ row' = [row EXCEPT !.enabled = TRUE]
    BY <1>5 DEF Resumes, Use
  <2>2. row'.lastRun = row.lastRun /\ row'.exists = row.exists
    BY <1>2, <2>1 DEF RowRec
  <2>3. job' # 0 => job' > now /\ job' \in Nat
    BY <1>2, <2>1, NextFireOK, Constants
  <2>4. ASSUME NEW o \in Times PROVE FateOK(o)'
    <3>1. FateOK(o) /\ o \in Nat
      BY <1>1, Constants DEF CronOK
    <3>2. o <= now => (job' # 0 => o < job')
      BY <1>2, <2>3, <3>1
    <3> QED
      BY <2>1, <2>2, <3>1, <3>2 DEF FateOK, Fired
  <2>5. ASSUME NEW v \in Vias PROVE RunOK(v)'
    <3>1. RunOK(v) /\ run[v].occ \in Nat
      BY <1>1, CronTypes DEF CronOK
    <3>2. run[v].occ <= now => (job' # 0 => run[v].occ < job')
      BY <1>2, <2>3, <3>1
    <3> QED
      BY <2>1, <3>1, <3>2 DEF RunOK
  <2>6. CatchOK' /\ DownOK'
    BY <1>1, <2>1, <2>3 DEF CronOK, CatchOK, DownOK, Fired
  <2> QED
    BY <2>4, <2>5, <2>6 DEF CronOK
<1>6. CASE RunsNow
  <2>1. /\ up /\ Begin("manual", 0) /\ UNCHANGED <<now, row, up, job, catchup, fate>>
    BY <1>6 DEF RunsNow, Use, ram
  <2>2. \A v \in Vias \ {"manual"} : run'[v] = run[v]
    BY <1>2, <2>1, BeginOK, Constants DEF Elsewhere, Vias
  <2>3. \A v \in Vias : RunOK(v)'
    BY <1>1, <2>1, <2>2 DEF CronOK, RunOK
  <2>4. \A o \in Times : FateOK(o)'
    BY <1>1, <2>1 DEF CronOK, FateOK, Fired
  <2>5. CatchOK'
    BY <1>1, <2>1, <2>2 DEF CronOK, CatchOK, Fired, Vias
  <2>6. DownOK'
    BY <2>1 DEF DownOK
  <2> QED
    BY <2>3, <2>4, <2>5, <2>6 DEF CronOK
<1> QED
  BY <1>3, <1>4, <1>5, <1>6

LEMMA CronInit == Init => CronInv
<1> SUFFICES ASSUME Init PROVE CronOK
  BY TypeInit DEF CronInv
<1>1. \A o \in Times : fate[o] = "none"
  BY DEF Init
<1>2. \A v \in Vias : run[v].pc = "idle"
  BY NoRunOK DEF Init
<1>3. up /\ catchup = 0
  BY DEF Init
<1> QED
  BY <1>1, <1>2, <1>3 DEF CronOK, DownOK, CatchOK, RunOK, FateOK, Fired

\* A task keeps its expression: no request of the model rewrites it.
LEMMA KindStays == TypeInv /\ [Next]_vars => kind' = kind
<1> SUFFICES ASSUME TypeInv, [Next]_vars PROVE kind' = kind
  OBVIOUS
<1>1. CASE \E v \in Vias : Executes(v)
  <2>1. PICK v \in Vias : Executes(v)
    BY <1>1
  <2> QED
    BY <2>1, ExecutesOK DEF TypeInv, given
<1>2. CASE Boot \/ Stop \/ Hour \/ Marks
  BY <1>2 DEF Boot, Stop, Hour, Marks, given
<1>3. CASE Fires \/ CatchesUp \/ MissionMoves
  BY <1>3 DEF Fires, CatchesUp, MissionMoves, given
<1>4. CASE Pauses \/ Resumes \/ RunsNow \/ Deletes
  BY <1>4 DEF Pauses, Resumes, RunsNow, Deletes, given
<1>5. CASE UNCHANGED vars
  BY <1>5 DEF vars, given
<1> QED
  BY <1>1, <1>2, <1>3, <1>4, <1>5 DEF Next

LEMMA CronNext == CronInv /\ [Next]_vars => CronInv'
<1> SUFFICES ASSUME CronInv, [Next]_vars, kind = "cron" PROVE CronOK'
  BY KindStays, TypeNext DEF CronInv
<1>1. CASE UNCHANGED vars
  BY <1>1
  DEF CronInv, vars, ram, CronOK, DownOK, CatchOK, RunOK, FateOK, Fired
<1>2. CASE Next
  BY <1>2, CronProcess, CronClock, CronExecutes, CronUser DEF Next
<1> QED
  BY <1>1, <1>2

FiredOnce == \A v \in {"job", "catchup"} :
    kind = "cron" /\ run[v].pc = "idle" /\ run'[v].pc = "load"
        => fate[run'[v].occ] \notin {"begun", "done", "busy"}

\* Only the clock starts an execution that is not the user's.
LEMMA FiresOnce == CronInv /\ [Next]_vars => FiredOnce
<1> SUFFICES ASSUME CronInv, [Next]_vars, NEW v \in {"job", "catchup"}, kind = "cron",
                    run[v].pc = "idle", run'[v].pc = "load"
             PROVE  ~Fired(run'[v].occ)
  BY DEF FiredOnce, Fired
<1>1. TypeInv /\ CronOK /\ v \in Vias
  BY DEF CronInv, Vias
<1>2. /\ now \in Nat /\ job \in Nat /\ catchup \in Times
      /\ fate \in [Times -> Fates] /\ now \in Times /\ kind \in Kinds
      /\ run \in [Vias -> RunRec] /\ TypeOK
  BY <1>1, CronTypes
<1>3. CASE Fires
  <2>1. job # 0 /\ job <= now /\ job \in Due
    BY <1>1, <1>3, FiresOK DEF TypeInv, JobOK
  <2>2. Firing \in Times /\ job <= Firing
    BY <1>2, <2>1, FiringOK, Constants
  <2>3. Begin("job", Firing)
    BY <1>1, <1>3, FiresOK
  <2>4. run'[v].occ = Firing
    BY <1>2, <2>2, <2>3, BeginOK DEF Elsewhere, Vias
  <2>5. Fired(Firing) => Firing < job
    BY <1>1, <2>1, <2>2 DEF CronOK, FateOK
  <2> QED
    BY <1>2, <2>2, <2>4, <2>5, Constants
<1>4. CASE CatchesUp
  <2>1. catchup # 0 /\ Begin("catchup", catchup)
    BY <1>4 DEF CatchesUp
  <2>2. run'[v].occ = catchup
    BY <1>2, <2>1, BeginOK DEF Elsewhere, Vias
  <2> QED
    BY <1>1, <2>1, <2>2 DEF CronOK, CatchOK
<1>5. CASE \E u \in Vias : Executes(u)
  <2>1. PICK u \in Vias : Executes(u)
    BY <1>5
  <2>2. run[u].pc # "idle" /\ Elsewhere(u)
    BY <1>2, <2>1, ExecutesOK
  <2> QED
    BY <1>1, <2>2 DEF Elsewhere
<1>6. CASE RunsNow
  <2>1. Begin("manual", 0)
    BY <1>6 DEF RunsNow
  <2>2. run'[v] = run[v]
    BY <1>2, <2>1, BeginOK, Constants DEF Elsewhere, Vias
  <2> QED
    BY <2>2
<1>7. CASE Stop
  BY <1>1, <1>7, NoRunOK DEF Stop
<1>8. CASE run' = run
  BY <1>8
<1>9. \/ Fires \/ CatchesUp \/ (\E u \in Vias : Executes(u)) \/ RunsNow \/ Stop
      \/ run' = run
  BY DEF Next, vars, Boot, Hour, Marks, MissionMoves, Pauses, Resumes, Deletes
<1> QED
  BY <1>3, <1>4, <1>5, <1>6, <1>7, <1>8, <1>9

\* A recurring occurrence that is executed, under way or left to its living mission
\* is not fired a second time: neither by the job, nor by the catch-up of a restart.
THEOREM NothingIsRedone == Spec => NotRedone
<1>1. CronInv /\ [Next]_vars => [FiredOnce]_vars
  BY FiresOnce
<1> QED
  BY <1>1, CronInit, CronNext, PTL DEF Spec, NotRedone, FiredOnce

-----------------------------------------------------------------------------
(* Nothing is lost in silence.  While the process lives its loop is in time, *)
(* the job is the next occurrence to come, and each one that is due is known *)
(* somewhere: it is covered, it is behind the catch-up of the last boot or   *)
(* its mark on the card, or the job has still to fire for it.                *)

InTime == up /\ job # 0 => now <= job + Grace
Ahead  == up /\ row.exists /\ row.enabled => \A o \in Due : o > now => job # 0 /\ job <= o
Idle   == ~row.enabled => \A o \in Due : o <= now => fate[o] # "none"
Known(o) == \/ Covered(o) \/ (catchup # 0 /\ o <= catchup) \/ marking
            \/ (job # 0 /\ job <= o)
Kept   == up /\ row.exists /\ row.enabled => \A o \in Due : o <= now => Known(o)
LossOK == InTime /\ Ahead /\ Idle /\ Kept
LossInv == CronInv /\ (kind = "cron" => LossOK)

\* What covers an occurrence goes on covering it while the process lives: the row is
\* only executed later, and what became of an occurrence is not forgotten.
LEMMA CoveredStays ==
    ASSUME TypeInv, NEW o \in Due, Covered(o), o <= now, now' \in Nat, now' >= now,
           \A p \in Due : fate[p] # "none" => fate'[p] # "none",
           row'.lastRun = row.lastRun \/ row'.lastRun = now,
           row'.status = row.status \/ row'.lastRun = now
           \/ row'.status \in {"missed", "running"}
    PROVE  Covered(o)'
<1>1. now \in Nat /\ row.lastRun \in Nat /\ o \in Nat /\ \A p \in Due : p \in Nat
  BY CronTypes, Constants
<1>2. CASE row'.lastRun = now
  BY <1>2 DEF Covered
<1>3. CASE row'.lastRun # now
  <2>1. /\ row'.lastRun = row.lastRun
        /\ row'.status = row.status \/ row'.status \in {"missed", "running"}
    BY <1>3
  <2>2. CASE o <= row.lastRun
    BY <2>1, <2>2 DEF Covered
  <2>3. CASE \E p \in Due : o <= p /\ p <= now /\ fate[p] # "none"
    <3>1. PICK p \in Due : o <= p /\ p <= now /\ fate[p] # "none"
      BY <2>3
    <3>2. p <= now'
      BY <1>1, <3>1
    <3> QED
      BY <3>1, <3>2 DEF Covered
  <2>4. CASE row.status \in {"missed", "running"}
    BY <2>1, <2>4 DEF Covered
  <2> QED
    BY <2>2, <2>3, <2>4 DEF Covered
<1> QED
  BY <1>2, <1>3

LEMMA LossTypes ==
    ASSUME LossInv, kind = "cron"
    PROVE  /\ TypeInv /\ CronOK /\ LossOK /\ TypeOK
           /\ now \in Times /\ kind \in Kinds /\ row \in RowRec /\ row.lastRun \in Times
           /\ fate \in [Times -> Fates] /\ run \in [Vias -> RunRec]
           /\ now \in Nat /\ job \in Nat /\ catchup \in Nat /\ Grace \in Nat
           /\ \A o \in Due : o \in Nat /\ o \in Times /\ o # 0
BY CronTypes, Constants DEF LossInv, CronInv

\* An execution covers more than it did, or it leaves things as they were.
LEMMA LossExecutes ==
    ASSUME LossInv, kind = "cron", NEW v \in Vias, Executes(v)
    PROVE  LossOK'
<1>1. TypeInv /\ LossOK /\ TypeOK /\ now \in Nat /\ fate \in [Times -> Fates] /\ row \in RowRec
  BY LossTypes
<1>2. /\ fate' = fate \/ \E f : Outcome(v, f)
      /\ RowMoves
      /\ job' = job \/ (job' = 0 /\ ~row'.exists)
      /\ UNCHANGED <<now, up, catchup, marking>>
  BY <1>1, ExecutesOK DEF given
<1>3. /\ row'.enabled = row.enabled /\ (row'.exists => row.exists)
      /\ row'.lastRun = row.lastRun \/ row'.lastRun = now
      /\ row'.lastRun = now \/ row'.status = row.status \/ row'.status = "running"
  BY <1>2 DEF RowMoves
<1>4. \A p \in Due : fate[p] # "none" => fate'[p] # "none"
  BY <1>1, <1>2, Constants DEF Outcome
<1>5. InTime'
  BY <1>1, <1>2 DEF LossOK, InTime
<1>6. Ahead'
  BY <1>1, <1>2, <1>3 DEF LossOK, Ahead
<1>7. Idle'
  BY <1>1, <1>2, <1>3, <1>4 DEF LossOK, Idle
<1>8. ASSUME NEW o \in Due, o <= now', up', row'.exists, row'.enabled
      PROVE  Known(o)'
  <2>1. Known(o) /\ job' = job
    BY <1>1, <1>2, <1>3, <1>8 DEF LossOK, Kept
  <2>2. Covered(o) => Covered(o)'
    BY <1>1, <1>2, <1>3, <1>4, <1>8, CoveredStays
  <2> QED
    BY <1>2, <2>1, <2>2 DEF Known
<1>9. Kept'
  BY <1>8 DEF Kept
<1> QED
  BY <1>5, <1>6, <1>7, <1>9 DEF LossOK

\* A boot registers the next occurrence.  What is due it catches up, or it was executed,
\* or its mark is on its way to the card.
LEMMA LossBoot ==
    ASSUME LossInv, kind = "cron", Boot
    PROVE  LossOK'
<1>1. /\ LossOK /\ CronOK /\ now \in Times /\ now \in Nat /\ kind \in Kinds
      /\ row.lastRun \in Times /\ \A o \in Due : o \in Nat /\ o \in Times
  BY LossTypes
<1>2. /\ ~up /\ up' = TRUE /\ UNCHANGED <<now, row, run, fate>>
      /\ IF row.exists /\ row.enabled THEN Registers
         ELSE UNCHANGED <<job, catchup, marking>>
  BY DEF Boot
<1>3. job = 0
  BY <1>1, <1>2 DEF CronOK, DownOK
<1>4. Idle'
  BY <1>1, <1>2 DEF LossOK, Idle
<1>5. CASE ~(row.exists /\ row.enabled)
  <2>1. job' = 0 /\ ~(row'.exists /\ row'.enabled)
    BY <1>2, <1>3, <1>5
  <2> QED
    BY <1>4, <2>1 DEF LossOK, InTime, Ahead, Kept
<1>6. CASE row.exists /\ row.enabled
  <2>1. /\ job' = NextFire /\ catchup' = Missed(MaxAge)
        /\ marking' = (Missed(MaxAge) = 0 /\ Missed(MaxTime) # 0)
    BY <1>2, <1>6 DEF Registers
  <2>2. /\ NextFire \in Times /\ NextFire \in Nat
        /\ NextFire # 0 => NextFire > now
        /\ \A o \in Due : o > now => NextFire # 0 /\ NextFire <= o
    BY <1>1, NextFireOK, Constants
  <2>3. InTime' /\ Ahead'
    <3>1. job' # 0 => now' <= job' + Grace
      BY <1>1, <1>2, <2>1, <2>2, Constants
    <3>2. Ahead'
      BY <1>2, <2>1, <2>2 DEF Ahead
    <3> QED
      BY <3>1, <3>2 DEF InTime
  <2>4. ASSUME NEW o \in Due, o <= now PROVE Known(o)'
    <3>1. CASE Missed(MaxAge) # 0
      <4>1. o <= Missed(MaxAge)
        BY <1>1, <2>4, <3>1, MissedOK, Constants
      <4> QED
        BY <2>1, <3>1, <4>1 DEF Known
    <3>2. CASE Missed(MaxAge) = 0 /\ Missed(MaxTime) # 0
      <4>1. marking'
        BY <2>1, <3>2
      <4> QED
        BY <4>1 DEF Known
    <3>3. CASE Missed(MaxAge) = 0 /\ Missed(MaxTime) = 0
      <4>1. o + MaxTime >= now
        BY <1>1, Constants DEF Times
      <4>2. o <= row.lastRun
        BY <1>1, <2>4, <3>3, <4>1, MissedOK, Constants
      <4> QED
        BY <1>2, <4>2 DEF Known, Covered
    <3> QED
      BY <3>1, <3>2, <3>3
  <2>5. Kept'
    BY <1>2, <2>4 DEF Kept
  <2> QED
    BY <1>4, <2>3, <2>5 DEF LossOK
<1> QED
  BY <1>5, <1>6

\* The hour waits for the loop; what becomes due is what the job fires next.
LEMMA LossProcess ==
    ASSUME LossInv, kind = "cron", Stop \/ Hour \/ Marks
    PROVE  LossOK'
<1>1. /\ TypeInv /\ LossOK /\ CronOK /\ now \in Nat /\ job \in Nat /\ catchup \in Nat
      /\ Grace \in Nat /\ fate \in [Times -> Fates] /\ row \in RowRec
      /\ \A o \in Due : o \in Nat /\ o \in Times
  BY LossTypes
<1>2. CASE Stop
  <2>1. /\ up' = FALSE /\ UNCHANGED <<now, row>>
        /\ fate' = [o \in Times |-> IF fate[o] # "begun" THEN fate[o]
                                    ELSE IF row.enabled THEN "none" ELSE "paused"]
    BY <1>2 DEF Stop
  <2>2. Idle'
    BY <1>1, <2>1 DEF LossOK, Idle
  <2> QED
    BY <2>1, <2>2 DEF LossOK, InTime, Ahead, Kept
<1>3. CASE Hour
  <2>1. /\ now' = now + 1 /\ UNCHANGED <<row, up, job, catchup, marking>>
        /\ up => (job = 0 \/ now < job + Grace)
        /\ fate' = [o \in Times |-> IF o = now + 1 /\ o \in Occs /\ ~row.enabled
                                    THEN "paused" ELSE fate[o]]
    BY <1>3 DEF Hour, ram
  <2>2. \A p \in Due : fate[p] # "none" => fate'[p] # "none"
    BY <1>1, <2>1
  <2>3. InTime'
    <3>1. job + Grace \in Nat
      BY <1>1
    <3>2. now < job + Grace => now + 1 <= job + Grace
      BY <1>1, <3>1
    <3> QED
      BY <2>1, <3>2 DEF InTime
  <2>4. Ahead'
    <3>1. \A o \in Due : o > now' => o > now
      BY <1>1, <2>1
    <3> QED
      BY <1>1, <2>1, <3>1 DEF LossOK, Ahead
  <2>5. Idle'
    <3>1. Occs = Due
      BY DEF Occs
    <3>2. ASSUME NEW o \in Due, ~row.enabled, o <= now + 1 PROVE fate'[o] # "none"
      <4>1. o = now + 1 \/ o <= now
        BY <1>1, <3>2
      <4>2. CASE o = now + 1
        BY <1>1, <2>1, <3>1, <3>2, <4>2
      <4>3. CASE o <= now
        BY <1>1, <2>2, <3>2, <4>3 DEF LossOK, Idle
      <4> QED
        BY <4>1, <4>2, <4>3
    <3> QED
      BY <2>1, <3>2 DEF Idle
  <2>6. ASSUME NEW o \in Due, o <= now', up', row'.exists, row'.enabled
        PROVE  Known(o)'
    <3>1. o <= now \/ o > now
      BY <1>1
    <3>2. CASE o > now
      <4>1. job # 0 /\ job <= o
        BY <1>1, <2>1, <2>6, <3>2 DEF LossOK, Ahead
      <4> QED
        BY <2>1, <4>1 DEF Known
    <3>3. CASE o <= now
      <4>1. Known(o)
        BY <1>1, <2>1, <2>6, <3>3 DEF LossOK, Kept
      <4>2. now' \in Nat /\ now' >= now
        BY <1>1, <2>1
      <4>3. Covered(o) => Covered(o)'
        BY <1>1, <2>1, <2>2, <3>3, <4>2, CoveredStays
      <4> QED
        BY <2>1, <4>1, <4>3 DEF Known
    <3> QED
      BY <3>1, <3>2, <3>3
  <2>7. Kept'
    BY <2>6 DEF Kept
  <2> QED
    BY <2>3, <2>4, <2>5, <2>7 DEF LossOK
<1>4. CASE Marks
  <2>1. /\ UNCHANGED <<now, up, job, catchup, fate>>
        /\ row' = IF row.exists /\ row.status # "running"
                  THEN [row EXCEPT !.status = "missed"] ELSE row
    BY <1>4 DEF Marks
  <2>2. /\ row'.exists = row.exists /\ row'.enabled = row.enabled
        /\ row.exists => row'.status \in {"missed", "running"}
    BY <1>1, <2>1 DEF RowRec
  <2>3. row'.exists => \A o \in Due : Known(o)'
    BY <2>2 DEF Known, Covered
  <2>4. Kept'
    BY <2>3 DEF Kept
  <2>5. InTime' /\ Ahead' /\ Idle'
    BY <1>1, <2>1, <2>2 DEF LossOK, InTime, Ahead, Idle
  <2> QED
    BY <2>4, <2>5 DEF LossOK
<1> QED
  BY <1>2, <1>3, <1>4

\* What a job in time fires covers all that is due, and so does what a boot catches up
\* for all that came before it.
LEMMA LossClock ==
    ASSUME LossInv, kind = "cron", Fires \/ CatchesUp
    PROVE  LossOK'
<1>1. /\ TypeInv /\ LossOK /\ CronOK /\ now \in Times /\ kind \in Kinds
      /\ now \in Nat /\ job \in Nat /\ catchup \in Nat
      /\ Grace \in Nat /\ fate \in [Times -> Fates]
      /\ \A o \in Due : o \in Nat /\ o \in Times
  BY LossTypes
<1>2. CASE Fires
  <2>1. /\ up /\ job # 0 /\ job <= now /\ job' = NextFire
        /\ \/ now > job + Grace /\ fate' = fate
           \/ fate' = [fate EXCEPT ![Firing] = "overlap"]
           \/ fate' = [fate EXCEPT ![Firing] = "begun"]
        /\ UNCHANGED <<now, row, up>>
    BY <1>1, <1>2, FiresOK
  <2>2. ~(now > job + Grace)
    <3>1. now <= job + Grace /\ job + Grace \in Nat
      BY <1>1, <2>1 DEF LossOK, InTime
    <3> QED
      BY <1>1, <3>1
  <2>3. Firing \in Due /\ Firing <= now /\ \A o \in Due : o <= now => o <= Firing
    BY <1>1, <2>1, FiringOK DEF TypeInv, JobOK
  <2>4. fate'[Firing] # "none" /\ \A o \in Due : fate[o] # "none" => fate'[o] # "none"
    BY <1>1, <2>1, <2>2, <2>3
  <2>5. /\ NextFire \in Nat /\ (NextFire # 0 => NextFire > now)
        /\ \A o \in Due : o > now => NextFire # 0 /\ NextFire <= o
    BY <1>1, NextFireOK, Constants
  <2>6. InTime'
    <3>1. job' # 0 => now' <= job' + Grace
      BY <1>1, <2>1, <2>5
    <3> QED
      BY <3>1 DEF InTime
  <2>7. Ahead'
    BY <2>1, <2>5 DEF Ahead
  <2>8. Idle'
    BY <1>1, <2>1, <2>4 DEF LossOK, Idle
  <2>9. Kept'
    <3>1. \A o \in Due : o <= now' => Covered(o)'
      BY <2>1, <2>3, <2>4 DEF Covered
    <3> QED
      BY <3>1 DEF Kept, Known
  <2> QED
    BY <2>6, <2>7, <2>8, <2>9 DEF LossOK
<1>3. CASE CatchesUp
  <2>1. /\ catchup # 0 /\ fate' = [fate EXCEPT ![catchup] = "begun"]
        /\ UNCHANGED <<now, row, up, job, marking>>
    BY <1>3 DEF CatchesUp
  <2>2. catchup \in Due /\ catchup <= now
    BY <1>1, <2>1 DEF CronOK, CatchOK
  <2>3. fate'[catchup] # "none" /\ \A o \in Due : fate[o] # "none" => fate'[o] # "none"
    BY <1>1, <2>1, <2>2
  <2>4. InTime' /\ Ahead' /\ Idle'
    BY <1>1, <2>1, <2>3 DEF LossOK, InTime, Ahead, Idle
  <2>5. ASSUME NEW o \in Due, o <= now', up', row'.exists, row'.enabled
        PROVE  Known(o)'
    <3>1. Known(o)
      BY <1>1, <2>1, <2>5 DEF LossOK, Kept
    <3>2. Covered(o) => Covered(o)'
      BY <1>1, <2>1, <2>3, <2>5, CoveredStays
    <3>3. o <= catchup => Covered(o)'
      BY <2>1, <2>2, <2>3 DEF Covered
    <3> QED
      BY <2>1, <3>1, <3>2, <3>3 DEF Known
  <2>6. Kept'
    BY <2>5 DEF Kept
  <2> QED
    BY <2>4, <2>6 DEF LossOK
<1> QED
  BY <1>2, <1>3

\* A task that is resumed had all that was due skipped while it was paused.
LEMMA LossUser ==
    ASSUME LossInv, kind = "cron", MissionMoves \/ Pauses \/ Resumes \/ RunsNow \/ Deletes
    PROVE  LossOK'
<1>1. /\ TypeInv /\ LossOK /\ now \in Times /\ kind \in Kinds /\ row \in RowRec
      /\ now \in Nat /\ Grace \in Nat /\ fate \in [Times -> Fates]
      /\ \A o \in Due : o \in Nat /\ o \in Times
  BY LossTypes
<1>2. CASE MissionMoves \/ RunsNow
  <2>1. UNCHANGED <<now, row, up, job, catchup, marking, fate>>
    BY <1>2 DEF MissionMoves, RunsNow, Use, ram
  <2>2. \A o \in Due : Known(o) => Known(o)'
    BY <2>1 DEF Known, Covered
  <2>3. Kept'
    BY <1>1, <2>1, <2>2 DEF LossOK, Kept
  <2> QED
    BY <1>1, <2>1, <2>3 DEF LossOK, InTime, Ahead, Idle
<1>3. CASE Pauses
  <2>1. /\ row' = [row EXCEPT !.enabled = FALSE] /\ job' = 0 /\ now' = now
        /\ fate' = [o \in Times |-> IF o \in Occs /\ o <= now /\ fate[o] = "none"
                                    THEN "paused" ELSE fate[o]]
    BY <1>3 DEF Pauses
  <2>2. ~row'.enabled /\ Occs = Due
    BY <1>1, <2>1 DEF RowRec, Occs
  <2>3. \A o \in Due : o <= now' => fate'[o] # "none"
    BY <1>1, <2>1, <2>2
  <2> QED
    BY <2>1, <2>2, <2>3 DEF LossOK, InTime, Ahead, Idle, Kept
<1>4. CASE Resumes
  <2>1. /\ ~row.enabled /\ row' = [row EXCEPT !.enabled = TRUE] /\ job' = NextFire
        /\ UNCHANGED <<now, fate>>
    BY <1>4 DEF Resumes
  <2>2. row'.enabled
    BY <1>1, <2>1 DEF RowRec
  <2>3. /\ NextFire \in Nat /\ (NextFire # 0 => NextFire > now)
        /\ \A o \in Due : o > now => NextFire # 0 /\ NextFire <= o
    BY <1>1, NextFireOK, Constants
  <2>4. InTime'
    <3>1. job' # 0 => now' <= job' + Grace
      BY <1>1, <2>1, <2>3
    <3> QED
      BY <3>1 DEF InTime
  <2>5. Ahead'
    BY <2>1, <2>3 DEF Ahead
  <2>6. \A o \in Due : o <= now' => Covered(o)'
    <3>1. \A o \in Due : o <= now => fate[o] # "none"
      BY <1>1, <2>1 DEF LossOK, Idle
    <3>2. \A o \in Due : o <= o
      BY <1>1
    <3> QED
      BY <2>1, <3>1, <3>2 DEF Covered
  <2>7. Kept'
    BY <2>6 DEF Kept, Known
  <2>8. Idle'
    BY <2>2 DEF Idle
  <2> QED
    BY <2>4, <2>5, <2>7, <2>8 DEF LossOK
<1>5. CASE Deletes
  <2>1. /\ row' = [row EXCEPT !.exists = FALSE] /\ job' = 0 /\ UNCHANGED <<now, fate>>
    BY <1>5 DEF Deletes
  <2>2. ~row'.exists /\ row'.enabled = row.enabled
    BY <1>1, <2>1 DEF RowRec
  <2> QED
    BY <1>1, <2>1, <2>2 DEF LossOK, InTime, Ahead, Idle, Kept
<1> QED
  BY <1>2, <1>3, <1>4, <1>5

\* The first occurrence is scheduled, and none is due.
LEMMA LossInit == Init => LossInv
<1> SUFFICES ASSUME Init, kind = "cron" PROVE LossOK
  BY CronInit DEF LossInv
<1>1. now = 0 /\ job = MinOr0(Due) /\ row.enabled
  BY DEF Init, Occs
<1>2. Due \subseteq Nat \ {0} /\ Grace \in Nat
  BY Constants
<1>3. \A o \in Due : MinOr0(Due) \in Due /\ MinOr0(Due) <= o
  BY <1>2, MinOK DEF MinOr0
<1>4. job \in Nat
  <2>1. CASE Due = {}
    BY <1>1, <2>1 DEF MinOr0
  <2>2. CASE Due # {}
    <3>1. job \in Due
      BY <1>1, <1>3, <2>2
    <3> QED
      BY <1>2, <3>1
  <2> QED
    BY <2>1, <2>2
<1>5. InTime
  <2>1. now <= job + Grace
    BY <1>1, <1>2, <1>4
  <2> QED
    BY <2>1 DEF InTime
<1>6. Ahead
  BY <1>1, <1>2, <1>3 DEF Ahead
<1>7. Idle
  BY <1>1 DEF Idle
<1>8. Kept
  <2>1. \A o \in Due : ~(o <= now)
    BY <1>1, <1>2
  <2> QED
    BY <2>1 DEF Kept
<1> QED
  BY <1>5, <1>6, <1>7, <1>8 DEF LossOK

LEMMA LossNext == LossInv /\ [Next]_vars => LossInv'
<1> SUFFICES ASSUME LossInv, [Next]_vars, kind = "cron" PROVE LossOK'
  BY KindStays, CronNext DEF LossInv, CronInv
<1>1. CASE UNCHANGED vars
  <2>1. UNCHANGED <<now, row, up, job, catchup, marking, fate>> /\ LossOK
    BY <1>1 DEF LossInv, vars, ram
  <2>2. \A o \in Due : Known(o) => Known(o)'
    BY <2>1 DEF Known, Covered
  <2> QED
    BY <2>1, <2>2 DEF LossOK, InTime, Ahead, Idle, Kept
<1>2. CASE Next
  BY <1>2, LossExecutes, LossBoot, LossProcess, LossClock, LossUser DEF Next
<1> QED
  BY <1>1, <1>2

\* No occurrence of a recurring task is lost in silence: once the process has settled,
\* one that nobody executed was skipped for a reason the scheduler knows, is covered by a
\* later one or shows on the task's card.
THEOREM LossesShow == Spec => []NothingIsSilentlyLost
<1>1. ASSUME LossInv, kind = "cron", Quiet, row.exists, row.enabled, NEW o \in Due, o <= now
      PROVE  Covered(o)
  <2>1. Known(o) /\ now \in Nat /\ job \in Nat /\ o \in Nat
    BY <1>1, LossTypes DEF LossOK, Kept, Quiet
  <2>2. catchup = 0 /\ ~marking /\ (job = 0 \/ job > now)
    BY <1>1 DEF Quiet
  <2>3. ~(job # 0 /\ job <= o)
    BY <1>1, <2>1, <2>2
  <2> QED
    BY <2>1, <2>2, <2>3 DEF Known
<1>2. LossInv => NothingIsSilentlyLost
  BY <1>1 DEF NothingIsSilentlyLost
<1> QED
  BY <1>2, LossInit, LossNext, PTL DEF Spec

===============================================================================
