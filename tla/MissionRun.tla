------------------------------ MODULE MissionRun ------------------------------
(***************************************************************************)
(* One mission: its row (services/mission_service.py), the passages that   *)
(* work on it (services/mission_heartbeat.py, the manual tick of           *)
(* routers/missions.py, agent/missions/chat_loop.py), the receipts of its  *)
(* write actions (services/mission_assurance.py) and the requests of its   *)
(* user (routers/missions.py, routers/autonomy.py).                        *)
(*                                                                         *)
(* Every change of status is an ORM session that selects the row, checks   *)
(* its status in Python, assigns attributes and commits an UPDATE by       *)
(* primary key of the attributes whose value changed (ReadStatus, then     *)
(* WriteStatus).  The event loop may run anybody else between the two.     *)
(* The row of mission_assurance that the same sessions write is kept in    *)
(* the same record.  The process may stop and start again.                 *)
(***************************************************************************)
EXTENDS Naturals, FiniteSets

CONSTANTS
    Passes,             \* tasks that may carry a passage
    Requests,           \* HTTP requests of the user that may be in flight
    Beat,               \* the heartbeat job itself
    Asks,               \* what the user of this instance may ask for
    Actions,            \* write calls, told apart by tool name and arguments
    MaxProviderRetries, \* MAX_PROVIDER_RETRIES
    MaxRuns,            \* bound: values started_at takes
    MaxCalls,           \* bound: tool calls of a passage (its recursion limit)
    MaxAsks,            \* bound: requests of the user
    MaxCrashes          \* bound: restarts of the backend

Actors == Passes \union Requests \union {Beat}

ASSUME ActorsAssumption == /\ Passes \intersect Requests = {}
                           /\ Beat \notin Passes \union Requests
ASSUME AsksAssumption == Asks \subseteq {"start", "pause", "abort", "repondre",
                                          "restart", "done", "retry", "tick"}
ASSUME BoundsAssumption == /\ MaxProviderRetries \in Nat
                           /\ MaxRuns \in Nat /\ MaxCalls \in Nat
                           /\ MaxAsks \in Nat /\ MaxCrashes \in Nat

VARIABLES
    row,        \* the mission: status, run it is in (started_at), due
                \* (next_tick_at), waiting (waiting_for) and retries
    provider,   \* provider_retries of the mission
    runs,       \* values of started_at handed out so far
    inFlight,   \* the mission is in _in_flight
    listed,     \* the heartbeat holds the mission, read with this provider
    pass,       \* pass[p]: where task p stands
    req,        \* req[r]: where request r stands
    tx,         \* tx[a]: the change of status actor a is in the middle of
    receipts,   \* receipts[k]: the row of autonomy_action_receipts
    sent,       \* sent[k]: times the call of k was handed to its tool
    retried,    \* retried[k]: times the user allowed another try
    late,       \* calls handed over since the mission last was alive
    asks, crashes

ledger == <<receipts, sent, retried>>
vars == <<row, provider, runs, inFlight, listed, pass, req, tx, receipts, sent,
          retried, late, asks, crashes>>

Runs      == 0..MaxRuns         \* 0 stands for started_at = None
Keys      == Runs \X Actions
Statuses  == {"draft", "planning", "running", "paused", "waiting_user",
              "completed", "failed", "aborted"}
Terminal  == {"completed", "failed", "aborted"}
Alive     == {"running", "planning"}
Rows      == [status : Statuses, run : Runs, due : {"never", "later", "now"},
              waiting : {"none", "link", "expired", "review"}, retries : 0..2]

\* Receipt(s, b): status s, written when b values of started_at had been given.
Receipt(s, b) == [status |-> s, born |-> b]
ReceiptStatuses == {"absent", "started", "success", "uncertain",
                    "human_confirmed", "retry_allowed"}
Unresolved == {"started", "uncertain"}

PassPCs == {"idle", "open", "take", "budget", "enter", "loop", "asked",
            "preflight", "reserve", "claim", "invoke", "finish", "interrupted",
            "close", "reschedule", "verify", "release"}
\* The task owns the entry of _in_flight.
Holding == PassPCs \ {"idle", "open", "take"}
Outcomes == {"done", "failed", "waiting", "more"}
NoKey    == <<>>
NewRow   == [status |-> "draft", run |-> 0, due |-> "never", waiting |-> "none",
             retries |-> 0]
NoTx     == [pc |-> "none", op |-> "start", stamp |-> 0, seen |-> NewRow]
NoPass   == [pc |-> "idle", by |-> "beat", stale |-> 0, draft |-> FALSE,
             run |-> 0, calls |-> 0, key |-> NoKey, fresh |-> TRUE, ok |-> TRUE,
             outcome |-> "more"]
NoReq    == [pc |-> "idle", op |-> "start", key |-> NoKey]
Moves    == {"start", "mark_running", "pause", "complete", "fail", "abort",
             "poser", "repondre", "suspend_link", "suspend_review", "guard",
             "guard_uncertain", "resume", "expire"}
Requestable == {"start", "pause", "abort", "repondre", "restart", "done", "retry",
                "tick"}

(***************************************************************************)
(* The changes of status.                                                  *)
(***************************************************************************)

\* The statuses each change accepts.
Sources(op) ==
    CASE op = "start"                              -> {"draft", "paused"}
      [] op = "mark_running"                       -> {"planning"}
      [] op = "pause"                              -> Alive \union {"paused"}
      [] op \in {"complete", "poser", "guard", "guard_uncertain",
                 "suspend_link", "suspend_review"} -> Alive
      [] op = "repondre"                           -> {"waiting_user"}
      [] op \in {"fail", "abort"}                  -> Statuses \ Terminal
      [] OTHER                                     -> {}

\* The agent is sent back to work, or the user is asked to review.
SentBack(m) == [m EXCEPT !.status = "running", !.due = "later"]
ToReview(m) == [m EXCEPT !.status = "waiting_user", !.due = "never", !.waiting = "review"]

\* guard_completion allows one corrective passage, unless an effect is uncertain.
Tried(m) == [m EXCEPT !.retries = IF m.retries = 2 THEN 2 ELSE m.retries + 1]
Corrected(m, uncertain) ==
    IF Tried(m).retries <= 1 /\ ~uncertain THEN SentBack(Tried(m)) ELSE ToReview(Tried(m))

\* The row m after the assignments of op; stamp is a new started_at, or 0.
Assigned(op, m, stamp) ==
    CASE op = "start" ->
           [m EXCEPT !.status = "planning", !.due = "now",
                     !.run = IF stamp = 0 THEN m.run ELSE stamp]
      [] op = "mark_running"    -> [m EXCEPT !.status = "running"]
      [] op = "pause"           -> [m EXCEPT !.status = "paused", !.due = "never"]
      [] op = "complete"        -> [m EXCEPT !.status = "completed"]
      [] op = "fail"            -> [m EXCEPT !.status = "failed"]
      [] op = "abort"           -> [m EXCEPT !.status = "aborted"]
      [] op = "poser"           -> [m EXCEPT !.status = "waiting_user", !.due = "never"]
      [] op = "repondre"        -> [m EXCEPT !.status = "running", !.due = "now"]
      [] op = "suspend_link"    -> [m EXCEPT !.status = "paused", !.due = "never",
                                             !.waiting = "link"]
      [] op = "suspend_review"  -> ToReview(m)
      [] op = "guard"           -> Corrected(m, FALSE)
      [] op = "guard_uncertain" -> Corrected(m, TRUE)
      [] op = "resume"          -> [m EXCEPT !.status = "planning", !.due = "now",
                                             !.waiting = "none"]
      [] OTHER                  -> [m EXCEPT !.status = "waiting_user",
                                             !.waiting = "expired"]

\* These assign next_tick_at a point in time, which always differs from the last.
Schedules == {"start", "repondre", "guard", "guard_uncertain", "resume"}

\* The commit writes the attributes whose value differs from the one selected.
Flushed(op, now, seen, new) ==
    LET Kept(old, selected, value) == IF value = selected THEN old ELSE value IN
    [status  |-> Kept(now.status, seen.status, new.status),
     run     |-> Kept(now.run, seen.run, new.run),
     due     |-> IF op \in Schedules /\ new.due # "never" THEN new.due
                 ELSE Kept(now.due, seen.due, new.due),
     waiting |-> Kept(now.waiting, seen.waiting, new.waiting),
     retries |-> Kept(now.retries, seen.retries, new.retries)]

(***************************************************************************)
(* Type and initial state: a draft that nobody has asked anything of.      *)
(***************************************************************************)

Transactions == [pc : {"none", "read", "write"}, op : Moves, stamp : Runs, seen : Rows]
PassRecords  == [pc : PassPCs, by : {"beat", "user"}, stale : 0..MaxProviderRetries,
                 draft : BOOLEAN, run : Runs, calls : 0..MaxCalls,
                 key : Keys \union {NoKey}, fresh : BOOLEAN, ok : BOOLEAN,
                 outcome : Outcomes]
ReqRecords   == [pc : {"idle", "asked", "commit", "after"}, op : Requestable,
                 key : Keys \union {NoKey}]
ReceiptRows  == [status : ReceiptStatuses, born : Runs]
Lists        == [held : BOOLEAN, provider : 0..MaxProviderRetries]

TypeOK ==
    /\ row \in Rows
    /\ provider \in 0..MaxProviderRetries
    /\ runs \in Runs
    /\ inFlight \in BOOLEAN
    /\ listed \in Lists
    /\ pass \in [Passes -> PassRecords]
    /\ \A p \in Passes :
          pass[p].pc \in {"claim", "invoke", "finish"} => pass[p].key \in Keys
    /\ req \in [Requests -> ReqRecords]
    /\ \A r \in Requests :
          req[r].pc = "commit" /\ req[r].op # "restart" => req[r].key \in Keys
    /\ tx \in [Actors -> Transactions]
    /\ receipts \in [Keys -> ReceiptRows]
    /\ sent \in [Keys -> Nat]
    /\ retried \in [Keys -> Nat]
    /\ late \in Nat
    /\ asks \in 0..MaxAsks
    /\ crashes \in 0..MaxCrashes

Init ==
    /\ row = NewRow
    /\ provider = 0
    /\ runs = 0
    /\ inFlight = FALSE
    /\ listed = [held |-> FALSE, provider |-> 0]
    /\ pass = [p \in Passes |-> NoPass]
    /\ req = [r \in Requests |-> NoReq]
    /\ tx = [a \in Actors |-> NoTx]
    /\ receipts = [k \in Keys |-> Receipt("absent", 0)]
    /\ sent = [k \in Keys |-> 0]
    /\ retried = [k \in Keys |-> 0]
    /\ late = 0
    /\ asks = 0
    /\ crashes = 0

(***************************************************************************)
(* One change of status, in two steps.                                     *)
(***************************************************************************)

Begin(a, op, stamp) ==
    tx' = [tx EXCEPT ![a] = [pc |-> "read", op |-> op, stamp |-> stamp, seen |-> row]]

At(p, pc) == pass[p].pc = pc /\ tx[p].pc = "none"
\* The task goes on at pc once the change of status it begins, if any, is over.
Goto(p, pc) == pass' = [pass EXCEPT ![p].pc = pc]

\* A request whose change of status is refused answers an error and is over; a
\* task goes on: its callers ignore the ValueError.
ReadStatus(a) ==
    /\ tx[a].pc = "read"
    /\ LET accepted == row.status \in Sources(tx[a].op) IN
       /\ tx' = [tx EXCEPT ![a] = IF accepted
                                  THEN [@ EXCEPT !.pc = "write", !.seen = row]
                                  ELSE NoTx]
       /\ req' = IF a \in Requests /\ ~accepted
                 THEN [req EXCEPT ![a] = NoReq] ELSE req
    /\ UNCHANGED <<row, provider, runs, inFlight, listed, pass, receipts, sent,
                   retried, late, asks, crashes>>

WriteStatus(a) ==
    /\ tx[a].pc = "write"
    /\ row' = Flushed(tx[a].op, row, tx[a].seen,
                      Assigned(tx[a].op, tx[a].seen, tx[a].stamp))
    /\ late' = IF row'.status \in Alive THEN 0 ELSE late
    /\ tx' = [tx EXCEPT ![a] = NoTx]
    /\ UNCHANGED <<provider, runs, inFlight, listed, pass, req, receipts, sent,
                   retried, asks, crashes>>

(***************************************************************************)
(* The heartbeat: resume_connected, list_due_missions, dispatch.           *)
(***************************************************************************)

\* Mutant: the join selects the missions that wait for their user.
ResumeWaiting ==
    /\ tx[Beat].pc = "none" /\ ~listed.held
    /\ row.status = "waiting_user" /\ row.waiting = "link"
    /\ tx' = [tx EXCEPT ![Beat] = [pc |-> "write", op |-> "resume", stamp |-> 0,
                                   seen |-> row]]
    /\ UNCHANGED <<row, provider, runs, inFlight, listed, pass, req, ledger, late,
                   asks, crashes>>

\* The integration the mission waits for is back, or has been away for 24 hours.
BeatResume ==
    /\ tx[Beat].pc = "none" /\ ~listed.held
    /\ row.status = "paused" /\ row.waiting = "link"
    /\ \E op \in {"resume", "expire"} :
          tx' = [tx EXCEPT ![Beat] = [pc |-> "write", op |-> op, stamp |-> 0,
                                      seen |-> row]]
    /\ UNCHANGED <<row, provider, runs, inFlight, listed, pass, req, ledger, late,
                   asks, crashes>>

\* Mutant: only running missions are selected.
RunningAndDue == row.status = "running" /\ row.due = "now"

Due == row.status \in Alive /\ row.due = "now"

BeatList ==
    /\ tx[Beat].pc = "none" /\ ~listed.held
    /\ Due
    /\ listed' = [held |-> TRUE, provider |-> provider]
    /\ UNCHANGED <<row, provider, runs, inFlight, pass, req, tx, ledger, late, asks,
                   crashes>>

\* The test of _in_flight and the entry are one step of the event loop.
Dispatch ==
    /\ listed.held
    /\ listed' = [held |-> FALSE, provider |-> 0]
    /\ \/ inFlight /\ UNCHANGED <<inFlight, pass>>
       \/ /\ ~inFlight
          /\ inFlight' = TRUE
          /\ \E p \in Passes :
                /\ At(p, "idle")
                /\ pass' = [pass EXCEPT ![p] = [NoPass EXCEPT !.pc = "budget",
                                                   !.stale = listed.provider]]
    /\ UNCHANGED <<row, provider, runs, req, tx, ledger, late, asks, crashes>>

\* Time passes until next_tick_at.
Elapse ==
    /\ row.due = "later"
    /\ row' = [row EXCEPT !.due = "now"]
    /\ UNCHANGED <<provider, runs, inFlight, listed, pass, req, tx, ledger, late,
                   asks, crashes>>

(***************************************************************************)
(* The manual tick, up to the moment it owns the entry of _in_flight.      *)
(***************************************************************************)

\* started_at as start_mission prepares it: a new one if the row has none.
Stamp == IF row.run = 0 THEN runs + 1 ELSE 0
CanStamp == row.run = 0 => runs < MaxRuns
Stamped == runs' = IF row.run = 0 THEN runs + 1 ELSE runs

OpenTick(p) ==
    /\ At(p, "idle") /\ "tick" \in Asks /\ asks < MaxAsks
    /\ row.status \notin Terminal
    /\ pass' = [pass EXCEPT ![p] = [NoPass EXCEPT !.pc = "open", !.by = "user",
                                                  !.draft = row.status = "draft"]]
    /\ asks' = asks + 1
    /\ UNCHANGED <<row, provider, runs, inFlight, listed, req, tx, ledger, late,
                   crashes>>

TickBudget(p) ==
    /\ At(p, "open")
    /\ \/ Goto(p, "idle") /\ Begin(p, "fail", 0) /\ UNCHANGED runs
       \/ Goto(p, "idle") /\ UNCHANGED <<runs, tx>>
       \/ /\ pass[p].draft /\ CanStamp
          /\ Goto(p, "take") /\ Begin(p, "start", Stamp) /\ Stamped
       \/ ~pass[p].draft /\ Goto(p, "take") /\ UNCHANGED <<runs, tx>>
    /\ UNCHANGED <<row, provider, inFlight, listed, req, ledger, late, asks, crashes>>

\* Mutant: the manual tick enters without looking at _in_flight.
TakeAnyway(p) ==
    /\ At(p, "take")
    /\ Goto(p, "enter")
    /\ inFlight' = TRUE
    /\ UNCHANGED <<row, provider, runs, listed, req, tx, ledger, late, asks, crashes>>

TakeTick(p) ==
    /\ At(p, "take")
    /\ Goto(p, IF inFlight THEN "idle" ELSE "enter")
    /\ inFlight' = TRUE
    /\ UNCHANGED <<row, provider, runs, listed, req, tx, ledger, late, asks, crashes>>

(***************************************************************************)
(* A passage, between two awaits at a time.                                *)
(***************************************************************************)

\* Out of budget: the mission fails.  Daily budget spent: it is put off.
Budget(p) ==
    /\ At(p, "budget")
    /\ \/ Goto(p, "release") /\ Begin(p, "fail", 0) /\ UNCHANGED row
       \/ Goto(p, "release") /\ row' = [row EXCEPT !.due = "later"] /\ UNCHANGED tx
       \/ Goto(p, "enter") /\ UNCHANGED <<row, tx>>
    /\ UNCHANGED <<provider, runs, inFlight, listed, req, ledger, late, asks, crashes>>

Enter(p) ==
    /\ At(p, "enter")
    /\ IF row.status \in Alive
       THEN /\ pass' = [pass EXCEPT ![p].pc = "loop", ![p].run = row.run]
            /\ Begin(p, "mark_running", 0)
       ELSE Goto(p, "close") /\ UNCHANGED tx
    /\ UNCHANGED <<row, provider, runs, inFlight, listed, req, ledger, late, asks,
                   crashes>>

\* Mutant: the tool node does not read the status again.
CallBlindly(p) ==
    /\ At(p, "loop") /\ pass[p].calls < MaxCalls
    /\ pass' = [pass EXCEPT ![p].pc = "preflight", ![p].calls = @ + 1]
    /\ UNCHANGED <<row, provider, runs, inFlight, listed, req, tx, ledger, late, asks,
                   crashes>>

\* Before each call of the model the node reads the status again.
ToolCall(p) ==
    /\ At(p, "loop") /\ pass[p].calls < MaxCalls
    /\ pass' = [pass EXCEPT ![p].pc = IF row.status \in Alive
                                      THEN "preflight" ELSE "interrupted",
                            ![p].calls = @ + 1]
    /\ UNCHANGED <<row, provider, runs, inFlight, listed, req, tx, ledger, late, asks,
                   crashes>>

Permission(p) ==
    /\ At(p, "preflight")
    /\ \/ \* the tool is denied to the agent: the mission waits for its user
          Goto(p, "loop") /\ Begin(p, "suspend_review", 0)
       \/ /\ row.status \notin Alive \union {"draft"}
          /\ Goto(p, "loop") /\ UNCHANGED tx
       \/ /\ row.status \in Alive \union {"draft"}
          /\ \/ \* desktop or browser not connected
                Goto(p, "loop") /\ Begin(p, "suspend_link", 0)
             \/ \* the tool ask_user
                Goto(p, "asked") /\ Begin(p, "poser", 0)
             \/ Goto(p, "reserve") /\ UNCHANGED tx
    /\ UNCHANGED <<row, provider, runs, inFlight, listed, req, ledger, late, asks,
                   crashes>>

Asked(p) ==
    /\ At(p, "asked")
    /\ Goto(p, IF row.status = "waiting_user" THEN "interrupted" ELSE "loop")
    /\ UNCHANGED <<row, provider, runs, inFlight, listed, req, tx, ledger, late, asks,
                   crashes>>

\* The task remembers the receipt it is about to write, and whether it found one.
Hold(p, k) == pass' = [pass EXCEPT ![p].pc = "claim", ![p].key = k,
                                   ![p].fresh = receipts[k].status = "absent"]

\* Mutant: an uncertain receipt counts as failed, hence free to be tried again.
ReserveUncertain(p) ==
    /\ At(p, "reserve")
    /\ \E a \in Actions :
          LET k == <<row.run, a>> IN
          /\ receipts[k].status \in {"absent", "retry_allowed", "uncertain"}
          /\ Hold(p, k)
    /\ UNCHANGED <<row, provider, runs, inFlight, listed, req, tx, ledger, late, asks,
                   crashes>>

\* The gates after the preflight, a human's validation among them, take as long
\* as they take.  Then reserve looks for a receipt of the same call in this run.
Reserve(p) ==
    /\ At(p, "reserve")
    /\ \/ Goto(p, "loop") /\ UNCHANGED tx     \* refused by a gate
       \/ \E a \in Actions :
             LET k == <<row.run, a>> IN
             \/ /\ receipts[k].status \in {"absent", "retry_allowed"}
                /\ Hold(p, k) /\ UNCHANGED tx
             \/ /\ receipts[k].status \in {"success", "human_confirmed"}
                /\ Goto(p, "loop") /\ UNCHANGED tx
             \/ /\ receipts[k].status \in Unresolved
                /\ Goto(p, "loop") /\ Begin(p, "suspend_review", 0)
    /\ UNCHANGED <<row, provider, runs, inFlight, listed, req, ledger, late, asks,
                   crashes>>

\* A new receipt is inserted, or loses to the unique constraint; an allowed retry
\* is written back as started without looking again.
Claim(p) ==
    /\ At(p, "claim")
    /\ LET k == pass[p].key
           lost == pass[p].fresh /\ receipts[k].status # "absent"
       IN IF lost
          THEN Goto(p, "loop") /\ Begin(p, "suspend_review", 0) /\ UNCHANGED receipts
          ELSE /\ Goto(p, "invoke") /\ UNCHANGED tx
               /\ receipts' = [receipts EXCEPT ![k] =
                     Receipt("started", IF pass[p].fresh THEN runs ELSE @.born)]
    /\ UNCHANGED <<row, provider, runs, inFlight, listed, req, sent, retried, late,
                   asks, crashes>>

Invoke(p) ==
    /\ At(p, "invoke")
    /\ sent' = [sent EXCEPT ![pass[p].key] = @ + 1]
    /\ late' = IF row.status \in Alive THEN 0 ELSE late + 1
    /\ \E ok \in BOOLEAN :
          pass' = [pass EXCEPT ![p].pc = "finish", ![p].ok = ok]
    /\ UNCHANGED <<row, provider, runs, inFlight, listed, req, tx, receipts, retried,
                   asks, crashes>>

\* finish overwrites whatever the receipt says by then.
Finish(p) ==
    /\ At(p, "finish")
    /\ receipts' = [receipts EXCEPT ![pass[p].key].status =
                       IF pass[p].ok THEN "success" ELSE "uncertain"]
    /\ pass' = [pass EXCEPT ![p].pc = "loop", ![p].key = NoKey, ![p].ok = TRUE,
                            ![p].fresh = TRUE]
    /\ IF pass[p].ok THEN UNCHANGED tx ELSE Begin(p, "suspend_review", 0)
    /\ UNCHANGED <<row, provider, runs, inFlight, listed, req, sent, retried, late,
                   asks, crashes>>

\* A stopped passage tells the heartbeat whether the mission waits for an answer.
Interrupted(p) ==
    /\ At(p, "interrupted")
    /\ pass' = [pass EXCEPT ![p].pc = "close",
                            ![p].outcome = IF row.status = "waiting_user"
                                           THEN "waiting" ELSE "more"]
    /\ UNCHANGED <<row, provider, runs, inFlight, listed, req, tx, ledger, late, asks,
                   crashes>>

\* The model stops calling tools: done, another passage asked for, out of budget,
\* or requirements that it cannot meet, which become a question.
Conclude(p) ==
    /\ At(p, "loop")
    /\ \E outcome \in Outcomes :
          /\ pass' = [pass EXCEPT ![p].pc = "close", ![p].outcome = outcome]
          /\ IF outcome = "waiting" THEN Begin(p, "poser", 0) ELSE UNCHANGED tx
    /\ UNCHANGED <<row, provider, runs, inFlight, listed, req, ledger, late, asks,
                   crashes>>

\* Mutant: outages are counted and never bounded.
OutageForEver(p) ==
    /\ At(p, "loop")
    /\ Goto(p, "release")
    /\ row' = [row EXCEPT !.due = "later"]
    /\ provider' = pass[p].stale + 1
    /\ UNCHANGED <<runs, inFlight, listed, req, tx, ledger, late, asks, crashes>>

\* The passage raised.  An outage of the provider puts the heartbeat's mission off
\* and counts, up to MAX_PROVIDER_RETRIES; a manual tick only reports it.
Outage(p) ==
    /\ At(p, "loop")
    /\ Goto(p, "release")
    /\ IF pass[p].by = "user" THEN UNCHANGED <<row, provider, tx>>
       ELSE IF pass[p].stale < MaxProviderRetries
            THEN /\ row' = [row EXCEPT !.due = "later"]
                 /\ provider' = pass[p].stale + 1
                 /\ UNCHANGED tx
            ELSE Begin(p, "fail", 0) /\ UNCHANGED <<row, provider>>
    /\ UNCHANGED <<runs, inFlight, listed, req, ledger, late, asks, crashes>>

Broken(p) ==
    /\ At(p, "loop")
    /\ Goto(p, "release") /\ Begin(p, "fail", 0)
    /\ UNCHANGED <<row, provider, runs, inFlight, listed, req, ledger, late, asks,
                   crashes>>

\* The heartbeat clears the count of outages and acts on all outcomes; the manual
\* tick acts on "done" only.
Close(p) ==
    /\ At(p, "close")
    /\ provider' = IF pass[p].by = "beat" THEN 0 ELSE provider
    /\ \/ pass[p].outcome = "done" /\ Goto(p, "verify") /\ UNCHANGED tx
       \/ pass[p].outcome = "waiting" /\ Goto(p, "release") /\ UNCHANGED tx
       \/ /\ pass[p].outcome \in {"failed", "more"} /\ pass[p].by = "user"
          /\ Goto(p, "release") /\ UNCHANGED tx
       \/ /\ pass[p].outcome = "failed" /\ pass[p].by = "beat"
          /\ Goto(p, "release") /\ Begin(p, "fail", 0)
       \/ /\ pass[p].outcome = "more" /\ pass[p].by = "beat"
          /\ Goto(p, "reschedule") /\ UNCHANGED tx
    /\ UNCHANGED <<row, runs, inFlight, listed, req, ledger, late, asks, crashes>>

Reschedule(p) ==
    /\ At(p, "reschedule")
    /\ Goto(p, "release")
    /\ \E due \in {"now", "later"} : row' = [row EXCEPT !.due = due]
    /\ UNCHANGED <<provider, runs, inFlight, listed, req, tx, ledger, late, asks,
                   crashes>>

\* The receipts verify counts are those written since the run started.
SinceStart(k) == row.run = 0 \/ receipts[k].born >= row.run
\* Mutant: a call the process died in is not looked at.
OnlyUncertain == {k \in Keys : receipts[k].status = "uncertain" /\ SinceStart(k)}

Doubtful == {k \in Keys : receipts[k].status \in Unresolved /\ SinceStart(k)}

\* The mandatory checks of the user pass or not.
Verify(p) ==
    /\ At(p, "verify")
    /\ Goto(p, "release")
    /\ IF Doubtful # {} THEN Begin(p, "guard_uncertain", 0)
       ELSE \E passed \in BOOLEAN :
               Begin(p, IF passed THEN "complete" ELSE "guard", 0)
    /\ UNCHANGED <<row, provider, runs, inFlight, listed, req, ledger, late, asks,
                   crashes>>

\* Mutant: the entry of _in_flight is given back by completed passages only.
ReleaseWhenDone(p) ==
    /\ At(p, "release")
    /\ inFlight' = (pass[p].outcome # "done")
    /\ pass' = [pass EXCEPT ![p] = NoPass]
    /\ UNCHANGED <<row, provider, runs, listed, req, tx, ledger, late, asks, crashes>>

Release(p) ==
    /\ At(p, "release")
    /\ inFlight' = FALSE
    /\ pass' = [pass EXCEPT ![p] = NoPass]
    /\ UNCHANGED <<row, provider, runs, listed, req, tx, ledger, late, asks, crashes>>

(***************************************************************************)
(* The user.                                                               *)
(***************************************************************************)

Free(r) == req[r].pc = "idle" /\ tx[r].pc = "none" /\ asks < MaxAsks

\* start, pause, abort and the answer to a question.
AskMove(r) ==
    /\ Free(r)
    /\ \E op \in Asks \intersect {"start", "pause", "abort", "repondre"} :
          /\ op = "repondre" => row.status = "waiting_user"
          /\ req' = [req EXCEPT ![r] = [pc |-> "after", op |-> op, key |-> NoKey]]
          /\ IF op = "start"
             THEN CanStamp /\ Begin(r, op, Stamp) /\ Stamped
             ELSE Begin(r, op, 0) /\ UNCHANGED runs
    /\ asks' = asks + 1
    /\ UNCHANGED <<row, provider, inFlight, listed, pass, ledger, late, crashes>>

\* What the router, or pause_mission, does in a second session.
After(r) ==
    /\ req[r].pc = "after" /\ tx[r].pc = "none"
    /\ row' = CASE req[r].op = "start" -> [row EXCEPT !.due = "now"]
                [] req[r].op = "pause" -> [row EXCEPT !.waiting = "none"]
                [] OTHER -> row
    /\ req' = [req EXCEPT ![r] = NoReq]
    /\ UNCHANGED <<provider, runs, inFlight, listed, pass, tx, ledger, late, asks,
                   crashes>>

\* restart refuses a mission with an unresolved receipt, then resets it.
AskRestart(r) ==
    /\ Free(r) /\ "restart" \in Asks
    /\ \A k \in Keys : receipts[k].status \notin Unresolved
    /\ req' = [req EXCEPT ![r] = [pc |-> "commit", op |-> "restart", key |-> NoKey]]
    /\ asks' = asks + 1
    /\ UNCHANGED <<row, provider, runs, inFlight, listed, pass, tx, ledger, late,
                   crashes>>

CommitRestart(r) ==
    /\ req[r].pc = "commit" /\ req[r].op = "restart"
    /\ row' = NewRow
    /\ req' = [req EXCEPT ![r] = NoReq]
    /\ UNCHANGED <<provider, runs, inFlight, listed, pass, tx, ledger, late, asks,
                   crashes>>

\* resolve_receipt, once its three checks have passed.
AskResolve(r) ==
    /\ Free(r)
    /\ row.status \in {"waiting_user", "paused"}
    /\ \E k \in Keys, op \in Asks \intersect {"done", "retry"} :
          /\ receipts[k].status \in Unresolved
          /\ req' = [req EXCEPT ![r] = [pc |-> "commit", op |-> op, key |-> k]]
    /\ asks' = asks + 1
    /\ UNCHANGED <<row, provider, runs, inFlight, listed, pass, tx, ledger, late,
                   crashes>>

CommitResolve(r) ==
    /\ req[r].pc = "commit" /\ req[r].op \in {"done", "retry"}
    /\ LET k == req[r].key IN
       /\ receipts' = [receipts EXCEPT ![k].status =
             IF req[r].op = "done" THEN "human_confirmed" ELSE "retry_allowed"]
       /\ retried' = IF req[r].op = "retry" THEN [retried EXCEPT ![k] = @ + 1]
                     ELSE retried
    /\ req' = [req EXCEPT ![r] = NoReq]
    /\ UNCHANGED <<row, provider, runs, inFlight, listed, pass, tx, sent, late, asks,
                   crashes>>

\* The process stops and starts: the tables stay, the tasks and _in_flight go.
Crash ==
    /\ crashes < MaxCrashes
    /\ crashes' = crashes + 1
    /\ inFlight' = FALSE
    /\ listed' = [held |-> FALSE, provider |-> 0]
    /\ pass' = [p \in Passes |-> NoPass]
    /\ req' = [r \in Requests |-> NoReq]
    /\ tx' = [a \in Actors |-> NoTx]
    /\ UNCHANGED <<row, provider, runs, ledger, late, asks>>

PassStep(p) ==
    \/ TickBudget(p) \/ TakeTick(p) \/ Budget(p) \/ Enter(p) \/ ToolCall(p)
    \/ Permission(p) \/ Asked(p) \/ Reserve(p) \/ Claim(p) \/ Invoke(p) \/ Finish(p)
    \/ Interrupted(p) \/ Conclude(p) \/ Outage(p) \/ Broken(p) \/ Close(p)
    \/ Reschedule(p) \/ Verify(p) \/ Release(p)

UserStep(r) ==
    \/ AskMove(r) \/ After(r) \/ AskRestart(r) \/ CommitRestart(r)
    \/ AskResolve(r) \/ CommitResolve(r)

BeatStep == BeatResume \/ BeatList \/ Dispatch

Next ==
    \/ BeatStep \/ Elapse \/ Crash
    \/ \E a \in Actors : ReadStatus(a) \/ WriteStatus(a)
    \/ \E p \in Passes : OpenTick(p) \/ PassStep(p)
    \/ \E r \in Requests : UserStep(r)

Spec == Init /\ [][Next]_vars

\* The event loop runs every task that can go on, the scheduler every beat.
Fairness ==
    /\ WF_vars(BeatStep) /\ WF_vars(Elapse)
    /\ \A a \in Actors : WF_vars(ReadStatus(a) \/ WriteStatus(a))
    /\ \A p \in Passes : WF_vars(PassStep(p))

FairSpec == Spec /\ Fairness

(***************************************************************************)
(* What must hold.                                                         *)
(***************************************************************************)

Holds(p) == pass[p].pc \in Holding

\* Never two passages of the same mission: the heartbeat and the manual tick share
\* one entry of _in_flight, present exactly as long as some task owns it.
OnePassage ==
    /\ \A p, q \in Passes : Holds(p) /\ Holds(q) => p = q
    /\ inFlight <=> \E p \in Passes : Holds(p)

\* A write call of a run reaches its tool once, and once more for each time the user
\* said "retry": across passages, restarts of the backend and decisions taken while
\* the call is still running (reserve, finish, resolve_receipt).
AtMostOnce == \A k \in Keys : sent[k] <= 1 + retried[k]

\* A mission is only completed when no write call made since its run started is left
\* started or uncertain (verify, guard_completion), as long as its user waits for the
\* answer of each request before making the next.  Two restarts asked for at once break
\* it: the second resets the row between the check of a passage and its commit.
CompletedIsSettled ==
    row.status = "completed" =>
        \A k \in Keys : receipts[k].status \in {"started", "uncertain"}
                           => receipts[k].born < row.run

\* After the mission stops being alive, at most the call already past its checks is
\* still handed to its tool (the status test of the tool node, preflight).
AtMostOneLateCall == late <= 1

\* A passage always ends and gives _in_flight back.
PassagesEnd == inFlight ~> ~inFlight

\* A mission that is due is served by a passage, unless somebody stops it first.
DueIsServed ==
    row.status \in Alive /\ row.due = "now"
        ~> inFlight \/ row.status \notin Alive \/ row.due # "now"

WaitsForLink == row.status = "paused" /\ row.waiting = "link"

\* A mission suspended for a missing integration does not stay so: it is resumed, or
\* handed to its user after 24 hours, or its user pauses it (resume_connected).
LinkWaitEnds == WaitsForLink ~> ~WaitsForLink

(***************************************************************************)
(* What comments of the code say, and the code does not do.                *)
(***************************************************************************)

\* No mission is "en cours" for ever and mute: an active mission without a passage
\* gets a date of its next one, or is stopped (the heartbeat's retry bound).
Mute == row.status \in Alive /\ row.due = "never" /\ ~inFlight
NeverMute == Mute ~> ~Mute
===============================================================================
