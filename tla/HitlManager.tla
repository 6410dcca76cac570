----------------------------- MODULE HitlManager -----------------------------
(***************************************************************************)
(* Human validation of a critical action: services/hitl_manager.py with    *)
(* the callers that answer it, routers/validation.py and the inline        *)
(* keyboard of channels/telegram_bot.py.                                   *)
(*                                                                         *)
(* One coroutine per request waits (request_validation); any number of     *)
(* callers may answer it at once (resolve).  They share the dictionary     *)
(* _pending, the _PendingAction object an entry points to, and the row of  *)
(* table hitl_requests.  Every await is a place where the event loop may   *)
(* run somebody else, so each action below is the code between two awaits. *)
(* A database call may fail (best-effort persistence), the process may     *)
(* stop and start again, and a waiting coroutine may be cancelled.         *)
(***************************************************************************)
EXTENDS Naturals, FiniteSets

CONSTANTS
    Actions,        \* requests, one action_id each
    NoAction,       \* what a caller that has not answered yet points to
    Users,
    Owner,          \* Owner[a]: the user the request is addressed to
    Sessions,       \* web/Android calls, authenticated by a JWT
    Links,          \* calls carrying the signed token of a push button
    Buttons,        \* presses on the Telegram inline keyboard
    SessionUser,    \* SessionUser[c]: the user of session c
    Choices,        \* the decisions the callers may send
    Cancellable,    \* requests awaited under an enclosing wait_for
    MaxFaults,      \* bound: database calls that fail
    MaxCrashes      \* bound: restarts of the backend

Approvals == {"allow", "allow_always", "allow_for_task"}
Decisions == Approvals \union {"deny", "ban"}
Callers   == Sessions \union Links \union Buttons

ASSUME NoActionAssumption == NoAction \notin Actions
ASSUME OwnerAssumption   == Owner \in [Actions -> Users]
ASSUME SessionAssumption == SessionUser \in [Sessions -> Users]
ASSUME ChannelAssumption == /\ Sessions \intersect Links = {}
                            /\ Sessions \intersect Buttons = {}
                            /\ Links \intersect Buttons = {}
ASSUME ChoiceAssumption  == Choices \subseteq Decisions
ASSUME CancelAssumption  == Cancellable \subseteq Actions
ASSUME BoundAssumption   == MaxFaults \in Nat /\ MaxCrashes \in Nat

VARIABLES
    pending,    \* keys of the dictionary _pending
    object,     \* object[a]: the _PendingAction, which outlives its entry
    row,        \* row[a]: the row of hitl_requests
    notified,   \* requests somebody was shown without reading the row
    waiter,     \* waiter[a]: where request_validation stands
    toRecord,   \* toRecord[a]: arguments of the final persist_decision
    outcome,    \* outcome[a]: what request_validation returned
    ran,        \* requests whose action the tool gateway went on to execute
    call,       \* call[c]: where the answer of caller c stands
    rules,      \* permanent bans written to the constraint memory
    faults, crashes

vars == <<pending, object, row, notified, waiter, toRecord, outcome, ran, call,
          rules, faults, crashes>>

Verdict(d, r) == [decision |-> d, reason |-> r]
NoVerdict     == Verdict("none", "none")
Absent        == Verdict("absent", "none")
Open          == Verdict("pending", "none")

Verdicts  == [decision : Decisions, reason : {"none", "timeout"}]
Rows      == Verdicts \union {Absent, Open}
Outcomes  == Verdicts \union {NoVerdict}
Objects   == [decision : Decisions, reason : {"none", "timeout"}, event : BOOLEAN]
WaiterPCs == {"new", "persisting", "notifying", "waiting", "recording",
              "unwinding", "announcing", "returned", "acted", "cancelled", "dead"}
CallPCs   == {"idle", "banOwner", "rule", "owner", "persist", "recheck",
              "apply", "accepted", "rejected", "lost"}
Calls     == [pc : CallPCs, action : Actions \union {NoAction},
              decision : Decisions, held : BOOLEAN]

Alive == {"persisting", "notifying", "waiting", "recording", "unwinding",
          "announcing", "returned"}
Ended == {"acted", "cancelled", "dead"}

NewObject == [decision |-> "deny", reason |-> "none", event |-> FALSE]
Idle      == [pc |-> "idle", action |-> NoAction, decision |-> "deny", held |-> FALSE]
Settled(a) == row[a].decision \in Decisions

TypeOK ==
    /\ pending \subseteq Actions
    /\ object \in [Actions -> Objects]
    /\ row \in [Actions -> Rows]
    /\ notified \subseteq Actions
    /\ waiter \in [Actions -> WaiterPCs]
    /\ toRecord \in [Actions -> Verdicts]
    /\ outcome \in [Actions -> Outcomes]
    /\ ran \subseteq Actions
    /\ call \in [Callers -> Calls]
    /\ \A c \in Callers : call[c].pc # "idle" => call[c].action \in Actions
    /\ rules \subseteq Actions
    /\ faults \in 0..MaxFaults
    /\ crashes \in 0..MaxCrashes

Init ==
    /\ pending = {}
    /\ object = [a \in Actions |-> NewObject]
    /\ row = [a \in Actions |-> Absent]
    /\ notified = {}
    /\ waiter = [a \in Actions |-> "new"]
    /\ toRecord = [a \in Actions |-> Verdict("deny", "none")]
    /\ outcome = [a \in Actions |-> NoVerdict]
    /\ ran = {}
    /\ call = [c \in Callers |-> Idle]
    /\ rules = {}
    /\ faults = 0
    /\ crashes = 0

Fault == faults < MaxFaults /\ faults' = faults + 1

-----------------------------------------------------------------------------
(* The row of hitl_requests. *)

\* The UPDATE without its status predicate: the last writer wins.
OverwriteRow(a, v) ==
    row' = IF row[a] = Absent THEN row ELSE [row EXCEPT ![a] = v]

\* UPDATE hitl_requests SET status = v WHERE action_id = a AND status = 'pending'.
UpdatePendingRow(a, v) ==
    row' = IF row[a] = Open THEN [row EXCEPT ![a] = v] ELSE row

-----------------------------------------------------------------------------
(* request_validation, the coroutine that waits. *)

Goto(a, pc) == waiter' = [waiter EXCEPT ![a] = pc]

\* Create the entry, then await persist_request.
Request(a) ==
    /\ waiter[a] = "new"
    /\ pending' = pending \union {a}
    /\ object' = [object EXCEPT ![a] = NewObject]
    /\ Goto(a, "persisting")
    /\ UNCHANGED <<row, notified, toRecord, outcome, ran, call, rules, faults, crashes>>

\* The row is written before anybody is notified; a failure is only logged.
PersistRequest(a) ==
    /\ waiter[a] = "persisting"
    /\ \/ row' = [row EXCEPT ![a] = Open] /\ UNCHANGED faults
       \/ Fault /\ UNCHANGED row
    /\ Goto(a, "notifying")
    /\ UNCHANGED <<pending, object, notified, toRecord, outcome, ran, call, rules, crashes>>

\* A notification leaves the process; the gather of all of them then ends,
\* whether or not the sends succeeded, and wait_for starts.
Notify(a) ==
    /\ waiter[a] = "notifying" /\ a \notin notified
    /\ notified' = notified \union {a}
    /\ UNCHANGED <<pending, object, row, waiter, toRecord, outcome, ran, call, rules,
                   faults, crashes>>

StartWait(a) ==
    /\ waiter[a] = "notifying"
    /\ Goto(a, "waiting")
    /\ UNCHANGED <<pending, object, row, notified, toRecord, outcome, ran, call, rules,
                   faults, crashes>>

\* list_pending falls back on memory when the database cannot be read.
ListFromMemory(a) ==
    /\ a \in pending /\ ~object[a].event /\ a \notin notified
    /\ Fault
    /\ notified' = notified \union {a}
    /\ UNCHANGED <<pending, object, row, waiter, toRecord, outcome, ran, call, rules, crashes>>

\* The clean-up of the finally block, up to its await: the entry leaves the
\* dictionary and persist_decision is called with the verdict of the object.
CleanUp(a, obj, pc) ==
    /\ pending' = pending \ {a}
    /\ object' = [object EXCEPT ![a] = obj]
    /\ toRecord' = [toRecord EXCEPT ![a] = Verdict(obj.decision, obj.reason)]
    /\ Goto(a, pc)
    /\ UNCHANGED <<row, notified, outcome, ran, call, rules, faults, crashes>>

Wake(a) ==
    /\ waiter[a] = "waiting"
    /\ object[a].event
    /\ CleanUp(a, object[a], "recording")

\* No timeout at all: the wait is unbounded.
TimeoutNever(a) == waiter[a] = "absent" /\ UNCHANGED vars

\* Mutant: the timeout notes its reason and leaves the decision it finds.
TimedOutAsItIs(o) == [o EXCEPT !.reason = "timeout"]

TimedOut(o) == [o EXCEPT !.decision = "deny", !.reason = "timeout"]

\* wait_for raises TimeoutError; it may do so although the event was set, as
\* long as the waiter has not been scheduled since.
Timeout(a) ==
    /\ waiter[a] = "waiting"
    /\ CleanUp(a, TimedOut(object[a]), "recording")

\* persist_decision of the finally block: it writes the timeout, and nothing
\* when a caller has settled the row already.
RecordVerdict(a) ==
    /\ waiter[a] \in {"recording", "unwinding"}
    /\ \/ UpdatePendingRow(a, toRecord[a]) /\ UNCHANGED faults
       \/ Fault /\ UNCHANGED row
    /\ Goto(a, IF waiter[a] = "recording" THEN "announcing" ELSE "cancelled")
    /\ UNCHANGED <<pending, object, notified, toRecord, outcome, ran, call, rules, crashes>>

\* The frontend is told, and the verdict the object holds by now is returned.
Return(a) ==
    /\ waiter[a] = "announcing"
    /\ outcome' = [outcome EXCEPT ![a] = Verdict(object[a].decision, object[a].reason)]
    /\ Goto(a, "returned")
    /\ UNCHANGED <<pending, object, row, notified, toRecord, ran, call, rules, faults, crashes>>

\* The tool gateway acts on the verdict it is handed: a ban is stored as a rule
\* (best-effort), an approval lets the tool run, anything else refuses it.
Act(a) ==
    /\ waiter[a] = "returned"
    /\ ran' = IF outcome[a].decision \in Approvals THEN ran \union {a} ELSE ran
    /\ \/ /\ rules' = IF outcome[a].decision = "ban" THEN rules \union {a} ELSE rules
          /\ UNCHANGED faults
       \/ outcome[a].decision = "ban" /\ Fault /\ UNCHANGED rules
    /\ Goto(a, "acted")
    /\ UNCHANGED <<pending, object, row, notified, toRecord, outcome, call, crashes>>

\* A clean-up that records the cancellation under a name of its own.
CancelKeepsNoVerdict(a) ==
    /\ a \in Cancellable /\ waiter[a] = "waiting"
    /\ CleanUp(a, [object[a] EXCEPT !.reason = "cancelled"], "unwinding")

\* CancelledError in the coroutine: only the wait itself is inside the try
\* block whose finally cleans up.
Cancel(a) ==
    /\ a \in Cancellable
    /\ \/ /\ waiter[a] = "waiting"
          /\ CleanUp(a, object[a], "unwinding")
       \/ /\ waiter[a] \in Alive \ {"waiting", "unwinding"}
          /\ Goto(a, "cancelled")
          /\ UNCHANGED <<pending, object, row, notified, toRecord, outcome, ran,
                         call, rules, faults, crashes>>

-----------------------------------------------------------------------------
(* The callers: the routes /validation/{id}/... and the Telegram keyboard. *)

\* Somebody can only answer a request he was shown, in the bell of the web
\* interface (the row) or by a notification.
Shown(a) == row[a] # Absent \/ a \in notified

Advance(c, pc) == call' = [call EXCEPT ![c].pc = pc]

Entitled(c, a) == c \in Sessions => SessionUser[c] = Owner[a]

\* Any authenticated session may answer.
AnyoneMayAnswer(c, a) == TRUE

\* The ownership check of the router; a signed token or a Telegram button is
\* bound to the request and is not checked again.
MayAnswer(c, a) == Entitled(c, a)

\* _resolve: the owner comes from memory without awaiting; otherwise the
\* database is read first.
ResolveFromRouter(c, a, d) ==
    call' = [call EXCEPT ![c] =
        [pc |-> IF a \notin pending THEN "owner"
                ELSE IF MayAnswer(c, a) THEN "persist" ELSE "rejected",
         action |-> a, decision |-> d, held |-> a \in pending]]

Click(c, a, d) ==
    /\ c \in Sessions \union Links
    /\ call[c].pc = "idle" /\ Shown(a) /\ d # "ban"
    /\ ResolveFromRouter(c, a, d)
    /\ UNCHANGED <<pending, object, row, notified, waiter, toRecord, outcome, ran,
                   rules, faults, crashes>>

\* handle_hitl_callback calls resolve directly.
Press(c, a, d) ==
    /\ c \in Buttons
    /\ call[c].pc = "idle" /\ a \in notified /\ d \in {"allow", "deny", "ban"}
    /\ call' = [call EXCEPT ![c] = [pc |-> "persist", action |-> a,
                                    decision |-> d, held |-> a \in pending]]
    /\ UNCHANGED <<pending, object, row, notified, waiter, toRecord, outcome, ran,
                   rules, faults, crashes>>

\* ban_action looks the owner up before it writes the rule.
ClickBan(c, a) ==
    /\ c \in Sessions \union Links
    /\ call[c].pc = "idle" /\ Shown(a)
    /\ call' = [call EXCEPT ![c] =
        [pc |-> IF a \notin pending THEN "banOwner"
                ELSE IF MayAnswer(c, a) THEN "rule" ELSE "rejected",
         action |-> a, decision |-> "ban", held |-> FALSE]]
    /\ UNCHANGED <<pending, object, row, notified, waiter, toRecord, outcome, ran,
                   rules, faults, crashes>>

\* An unknown owner (no pending row, or a failed read) does not stop the rule.
BanReadOwner(c) ==
    LET a == call[c].action IN
    /\ call[c].pc = "banOwner"
    /\ \/ /\ Advance(c, IF row[a] = Open /\ ~MayAnswer(c, a) THEN "rejected" ELSE "rule")
          /\ UNCHANGED faults
       \/ Fault /\ Advance(c, "rule")
    /\ UNCHANGED <<pending, object, row, notified, waiter, toRecord, outcome, ran,
                   rules, crashes>>

\* The rule is stored (best-effort) before the request is resolved as banned.
StoreRule(c) ==
    /\ call[c].pc = "rule"
    /\ \/ rules' = rules \union {call[c].action} /\ UNCHANGED faults
       \/ Fault /\ UNCHANGED rules
    /\ ResolveFromRouter(c, call[c].action, "ban")
    /\ UNCHANGED <<pending, object, row, notified, waiter, toRecord, outcome, ran,
                   crashes>>

\* get_pending_owner read from the database, then resolve looks the entry up.
ReadOwner(c) ==
    LET a == call[c].action IN
    /\ call[c].pc = "owner"
    /\ \/ /\ call' = [call EXCEPT ![c] =
                [pc |-> IF row[a] = Open /\ MayAnswer(c, a) THEN "persist" ELSE "rejected",
                 action |-> a, decision |-> call[c].decision, held |-> a \in pending]]
          /\ UNCHANGED faults
       \/ Fault /\ Advance(c, "rejected")
    /\ UNCHANGED <<pending, object, row, notified, waiter, toRecord, outcome, ran,
                   rules, crashes>>

\* persist_decision of resolve.  With nothing in memory its result is the answer.
Settle(c) ==
    LET a == call[c].action
        Lost == Advance(c, IF call[c].held THEN "recheck" ELSE "rejected")
    IN
    /\ call[c].pc = "persist"
    /\ \/ /\ row[a] = Open
          /\ UpdatePendingRow(a, Verdict(call[c].decision, "none"))
          /\ Advance(c, IF call[c].held THEN "apply" ELSE "accepted")
          /\ UNCHANGED faults
       \/ row[a] # Open /\ Lost /\ UNCHANGED <<row, faults>>
       \/ Fault /\ Lost /\ UNCHANGED row
    /\ UNCHANGED <<pending, object, notified, waiter, toRecord, outcome, ran, rules, crashes>>

\* The row is not looked at again: whoever holds the object may write it.
RecheckSkipped(c) ==
    /\ call[c].pc = "recheck"
    /\ Advance(c, "apply")
    /\ UNCHANGED <<pending, object, row, notified, waiter, toRecord, outcome, ran,
                   rules, faults, crashes>>

\* get_recorded_decision: a verdict on record refuses this one; no row, or a
\* failed read, lets it go on in memory.
Recheck(c) ==
    /\ call[c].pc = "recheck"
    /\ \/ Advance(c, IF Settled(call[c].action) THEN "rejected" ELSE "apply")
          /\ UNCHANGED faults
       \/ Fault /\ Advance(c, "apply")
    /\ UNCHANGED <<pending, object, row, notified, waiter, toRecord, outcome, ran,
                   rules, crashes>>

\* The object is written and the waiter's event set; the caller is told True.
Apply(c) ==
    /\ call[c].pc = "apply"
    /\ object' = [object EXCEPT ![call[c].action] =
                    [decision |-> call[c].decision, reason |-> "none", event |-> TRUE]]
    /\ Advance(c, "accepted")
    /\ UNCHANGED <<pending, row, notified, waiter, toRecord, outcome, ran, rules,
                   faults, crashes>>

-----------------------------------------------------------------------------
(* A restart: memory and every coroutine are lost, the row stays. *)
Crash ==
    /\ crashes < MaxCrashes
    /\ crashes' = crashes + 1
    /\ pending' = {}
    /\ waiter' = [a \in Actions |-> IF waiter[a] \in Alive THEN "dead" ELSE waiter[a]]
    /\ call' = [c \in Callers |->
                  IF call[c].pc \in {"idle", "accepted", "rejected"} THEN call[c]
                  ELSE [call[c] EXCEPT !.pc = "lost"]]
    /\ UNCHANGED <<object, row, notified, toRecord, outcome, ran, rules, faults>>

WaiterStep(a) ==
    \/ PersistRequest(a) \/ StartWait(a) \/ Wake(a) \/ Timeout(a)
    \/ RecordVerdict(a) \/ Return(a) \/ Act(a)

CallerStep(c) ==
    \/ BanReadOwner(c) \/ StoreRule(c) \/ ReadOwner(c) \/ Settle(c)
    \/ Recheck(c) \/ Apply(c)

Next ==
    \/ \E a \in Actions : Request(a) \/ Notify(a) \/ WaiterStep(a) \/ Cancel(a)
                        \/ ListFromMemory(a)
    \/ \E c \in Callers, a \in Actions :
          \/ \E d \in Choices : Click(c, a, d) \/ Press(c, a, d)
          \/ "ban" \in Choices /\ ClickBan(c, a)
    \/ \E c \in Callers : CallerStep(c)
    \/ Crash

\* The event loop runs every ready coroutine, and timers fire.
Fairness ==
    /\ \A a \in Actions : WF_vars(WaiterStep(a))
    /\ \A c \in Callers : WF_vars(CallerStep(c))

Spec == Init /\ [][Next]_vars /\ Fairness
-----------------------------------------------------------------------------
(* What the manager promises.  The database calls are best-effort, so what
   relates memory to the row is promised while none of them has failed. *)

Reliable == faults = 0
Accepted(c) == call[c].pc = "accepted"

\* A settled row is never settled again: neither by a second caller, nor by the
\* timeout that fires while a caller answers, nor after a restart
\* (persist_decision updates pending rows only).
VerdictIsFinal == [][\A a \in Actions : Settled(a) => row'[a] = row[a]]_vars

\* "Pas de double validation": two callers answering the same request at the
\* same time through different channels are not both told that it worked.
OneCallerWins == \A c, d \in Callers :
    Accepted(c) /\ Accepted(d) /\ call[c].action = call[d].action => c = d

\* The caller who was told that it worked finds exactly his decision on record,
\* never a timeout, whether the waiter was alive or had died in a restart.
AcceptedIsTheVerdict == \A c \in Callers :
    Accepted(c) => row[call[c].action] = Verdict(call[c].decision, "none")

\* The gateway executes nothing that the durable record does not show as
\* approved, although it is handed the object in memory and not the row.
RunsOnlyWhatIsRecorded == \A a \in ran : row[a].decision \in Approvals

\* A wait that ended by itself leaves no request pending on record, or the bell
\* would offer forever something nobody waits for.
EndedIsSettled == \A a \in Actions :
    waiter[a] \in {"announcing", "returned", "acted"} => Settled(a)

\* A ban accepted by the router is already in the constraint memory, even if
\* the process stops before the waiter learns of it (ban_action stores first).
RouterBanIsRemembered == \A c \in Sessions \union Links :
    Accepted(c) /\ call[c].decision = "ban" => call[c].action \in rules

\* What request_validation returns is the verdict on record, or the refusal of a
\* timeout: never an answer that lost, and no approval over a refusal.  The refusal may
\* come over a recorded approval: the timeout fires between the commit of an answer and
\* the event, and the waiter does not read its row again.
ReturnedIsRecorded == \A a \in Actions :
    outcome[a] # NoVerdict => outcome[a] \in {row[a], Verdict("deny", "timeout")}

\* Whatever the order in which callers, the timeout, a cancellation and a restart
\* meet, one caller at most is told that the record is his, and it is; the waiter
\* returns that record or a refusal by timeout, the gateway runs nothing else, and
\* nothing is left pending.
RecordIsTheTruth == Reliable =>
    /\ OneCallerWins /\ AcceptedIsTheVerdict /\ ReturnedIsRecorded
    /\ RunsOnlyWhatIsRecorded /\ EndedIsSettled /\ RouterBanIsRemembered

\* Even with failing database calls, an action only runs when a person entitled
\* to answer has approved it: silence, a timeout or a cancellation never do.
OnlyHumansApprove ==
    \A a \in ran : \E c \in Callers :
        /\ Accepted(c) /\ call[c].action = a /\ Entitled(c, a)
        /\ call[c].decision \in Approvals

\* No request waits forever: an answer, the timeout, a cancellation or a restart
\* ends it.
RequestsEnd ==
    \A a \in Actions : waiter[a] \in Alive ~> waiter[a] \in Ended

\* The refinement mapping: the row is the verdict, the gateway's runs are runs.
V == INSTANCE HitlVerdict WITH
        verdict  <- [a \in Actions |-> row[a].decision],
        Refusals <- Decisions \ Approvals

\* The manager implements the one-shot register until a database call fails: whatever
\* the callers, the timeout and restarts do, a request is settled at most once and its
\* action runs only after an approval was recorded.
Implements == V!Init /\ [][Reliable' => [V!Next]_V!vars]_vars
=============================================================================
