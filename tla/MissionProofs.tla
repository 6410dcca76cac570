----------------------------- MODULE MissionProofs -----------------------------
(***************************************************************************)
(* Theorems about MissionRun for any number of passages, requests, runs,   *)
(* calls and restarts.                                                     *)
(***************************************************************************)
EXTENDS MissionRun, TLAPS

-----------------------------------------------------------------------------
(* Lemmas about the records the model is built from. *)

LEMMA ConstantsOK ==
    /\ NewRow \in Rows /\ NewRow.status = "draft"
    /\ NoTx \in Transactions /\ NoTx.pc = "none"
    /\ NoPass \in PassRecords /\ NoPass.pc = "idle"
    /\ NoReq \in ReqRecords /\ NoReq.pc = "idle"
    /\ \A b \in Runs, s \in ReceiptStatuses :
          Receipt(s, b) \in ReceiptRows /\ Receipt(s, b).status = s
<1>1. 0 \in Runs /\ 0 \in 0..MaxCalls /\ 0 \in 0..MaxProviderRetries
  BY BoundsAssumption DEF Runs
<1> QED
  BY <1>1 DEF NewRow, Rows, Statuses, NoTx, Transactions, Moves, NoPass, PassRecords,
              PassPCs, Outcomes, NoReq, ReqRecords, Requestable, Receipt, ReceiptRows

\* The fields of the mission's row.
LEMMA RowFields ==
    ASSUME NEW m \in Rows
    PROVE  /\ m.status \in Statuses /\ m.run \in Runs
           /\ m.due \in {"never", "later", "now"}
           /\ m.waiting \in {"none", "link", "expired", "review"}
           /\ m.retries \in 0..2
BY DEF Rows

\* The assignments that a single statement makes to the mission's row.
LEMMA DueOK ==
    ASSUME NEW m \in Rows, NEW d \in {"never", "later", "now"}
    PROVE  /\ [m EXCEPT !.due = d] \in Rows
           /\ [m EXCEPT !.due = d].status = m.status
BY DEF Rows

LEMMA WaitingOK ==
    ASSUME NEW m \in Rows
    PROVE  /\ [m EXCEPT !.waiting = "none"] \in Rows
           /\ [m EXCEPT !.waiting = "none"].status = m.status
BY DEF Rows

LEMMA CorrectedOK ==
    ASSUME NEW m \in Rows, NEW u \in BOOLEAN
    PROVE  Corrected(m, u) \in Rows
<1>1. Tried(m) \in Rows
  <2>1. (IF m.retries = 2 THEN 2 ELSE m.retries + 1) \in 0..2
    BY RowFields
  <2>2. ASSUME NEW t \in 0..2 PROVE [m EXCEPT !.retries = t] \in Rows
    BY DEF Rows
  <2> QED
    BY <2>1, <2>2 DEF Tried
<1>2. ASSUME NEW n \in Rows PROVE SentBack(n) \in Rows /\ ToReview(n) \in Rows
  BY DEF SentBack, ToReview, Rows, Statuses
<1> QED
  BY <1>1, <1>2 DEF Corrected

LEMMA AssignedOK ==
    ASSUME NEW m \in Rows, NEW op \in Moves, NEW stamp \in Runs
    PROVE  Assigned(op, m, stamp) \in Rows
<1>1. Corrected(m, TRUE) \in Rows /\ Corrected(m, FALSE) \in Rows
  BY CorrectedOK
<1>2. CASE op \in {"start", "resume", "repondre"}
  BY <1>2 DEF Assigned, Rows, Statuses
<1>3. CASE op \in {"mark_running", "complete", "fail", "abort"}
  BY <1>3 DEF Assigned, Rows, Statuses
<1>4. CASE op \in {"pause", "poser", "expire"}
  BY <1>4 DEF Assigned, Rows, Statuses
<1>5. CASE op \in {"suspend_link", "suspend_review"}
  BY <1>5 DEF Assigned, ToReview, Rows, Statuses
<1>6. CASE op \in {"guard", "guard_uncertain"}
  BY <1>1, <1>6 DEF Assigned
<1> QED
  BY <1>2, <1>3, <1>4, <1>5, <1>6 DEF Moves

LEMMA FlushedOK ==
    ASSUME NEW now \in Rows, NEW seen \in Rows, NEW new \in Rows, NEW op \in Moves
    PROVE  Flushed(op, now, seen, new) \in Rows
BY DEF Flushed, Rows

\* A task that goes on changes its place and nothing else.
LEMMA GotoOK ==
    ASSUME pass \in [Passes -> PassRecords], NEW p \in Passes, NEW pc \in PassPCs, Goto(p, pc)
    PROVE  /\ pass' \in [Passes -> PassRecords]
           /\ pass'[p].pc = pc /\ pass'[p].key = pass[p].key
           /\ pass'[p].fresh = pass[p].fresh
           /\ \A q \in Passes \ {p} : pass'[q] = pass[q]
<1>1. \A k \in PassRecords :
          LET new == [k EXCEPT !.pc = pc] IN
          new \in PassRecords /\ new.pc = pc /\ new.key = k.key /\ new.fresh = k.fresh
  BY DEF PassRecords
<1>2. pass' = [pass EXCEPT ![p] = [pass[p] EXCEPT !.pc = pc]]
  BY DEF Goto
<1> QED
  BY <1>1, <1>2

LEMMA BeginOK ==
    ASSUME tx \in [Actors -> Transactions], row \in Rows, NEW a \in Actors, NEW op \in Moves,
           NEW stamp \in Runs, Begin(a, op, stamp)
    PROVE  tx' \in [Actors -> Transactions]
<1>1. [pc |-> "read", op |-> op, stamp |-> stamp, seen |-> row] \in Transactions
  BY DEF Transactions
<1> QED
  BY <1>1 DEF Begin

LEMMA StampOK ==
    ASSUME runs \in Runs, row \in Rows, CanStamp
    PROVE  Stamp \in Runs /\ (Stamped => runs' \in Runs)
BY RowFields, BoundsAssumption DEF Stamp, CanStamp, Stamped, Runs

\* A request's record, and one place of the functions that hold records.
LEMMA SetPass ==
    ASSUME pass \in [Passes -> PassRecords], NEW p \in Passes, NEW k \in PassRecords,
           pass' = [pass EXCEPT ![p] = k]
    PROVE  /\ pass' \in [Passes -> PassRecords] /\ pass'[p] = k
           /\ \A q \in Passes \ {p} : pass'[q] = pass[q]
OBVIOUS

LEMMA SetReq ==
    ASSUME req \in [Requests -> ReqRecords], NEW r \in Requests, NEW k \in ReqRecords,
           req' = [req EXCEPT ![r] = k]
    PROVE  /\ req' \in [Requests -> ReqRecords] /\ req'[r] = k
           /\ \A q \in Requests \ {r} : req'[q] = req[q]
OBVIOUS

LEMMA NewReqOK ==
    ASSUME NEW pc \in {"asked", "commit", "after"}, NEW op \in Requestable,
           NEW key \in Keys \union {NoKey}
    PROVE  LET k == [pc |-> pc, op |-> op, key |-> key] IN
           k \in ReqRecords /\ k.pc = pc /\ k.op = op /\ k.key = key
BY DEF ReqRecords

LEMMA ActorsOK ==
    /\ \A p \in Passes : p \in Actors
    /\ \A r \in Requests : r \in Actors
    /\ Beat \in Actors
BY DEF Actors

-----------------------------------------------------------------------------
(* Type correctness. *)

LEMMA TypeInit == Init => TypeOK
<1> SUFFICES ASSUME Init PROVE TypeOK
  OBVIOUS
<1>1. 0 \in Runs /\ 0 \in 0..MaxProviderRetries /\ 0 \in 0..MaxAsks /\ 0 \in 0..MaxCrashes
  BY BoundsAssumption DEF Runs
<1>2. "absent" \in ReceiptStatuses
  BY DEF ReceiptStatuses
<1> QED
  BY <1>1, <1>2, ConstantsOK DEF Init, TypeOK, Lists

\* The changes of status, whoever makes them.
LEMMA TypeChange ==
    ASSUME TypeOK, NEW a \in Actors, ReadStatus(a) \/ WriteStatus(a)
    PROVE  TypeOK'
<1>1. CASE ReadStatus(a)
  <2>1. \A x \in Transactions : [x EXCEPT !.pc = "write", !.seen = row] \in Transactions
    BY DEF TypeOK, Transactions
  <2>2. tx' \in [Actors -> Transactions]
    BY <1>1, <2>1, ConstantsOK DEF ReadStatus, TypeOK
  <2>3. /\ req' \in [Requests -> ReqRecords]
        /\ \A r \in Requests : req'[r] = req[r] \/ req'[r] = NoReq
    BY <1>1, ConstantsOK DEF ReadStatus, TypeOK
  <2> QED
    BY <1>1, <2>2, <2>3, ConstantsOK DEF ReadStatus, TypeOK
<1>2. CASE WriteStatus(a)
  <2>1. PICK x \in Transactions : x = tx[a]
    BY DEF TypeOK
  <2>2. x.seen \in Rows /\ x.op \in Moves /\ x.stamp \in Runs
    BY DEF Transactions
  <2>3. row' \in Rows
    BY <1>2, <2>1, <2>2, AssignedOK, FlushedOK DEF WriteStatus, TypeOK
  <2> QED
    BY <1>2, <2>3, ConstantsOK DEF WriteStatus, TypeOK
<1> QED
  BY <1>1, <1>2

LEMMA TypeBeat ==
    ASSUME TypeOK, BeatStep \/ Elapse
    PROVE  TypeOK'
<1>1. CASE BeatResume
  <2>1. \A op \in {"resume", "expire"} :
          [pc |-> "write", op |-> op, stamp |-> 0, seen |-> row] \in Transactions
    BY BoundsAssumption DEF TypeOK, Transactions, Moves, Runs
  <2> QED
    BY <1>1, <2>1 DEF BeatResume, TypeOK, ledger
<1>2. CASE BeatList
  BY <1>2 DEF BeatList, TypeOK, Lists, ledger
<1>3. CASE Dispatch
  <2>1. listed' \in Lists
    BY <1>3, BoundsAssumption DEF Dispatch, Lists
  <2>2. CASE UNCHANGED pass
    BY <1>3, <2>1, <2>2 DEF Dispatch, TypeOK, ledger
  <2>3. ASSUME NEW p \in Passes,
               pass' = [pass EXCEPT ![p] = [NoPass EXCEPT !.pc = "budget",
                                                          !.stale = listed.provider]]
        PROVE  TypeOK'
    <3>1. [NoPass EXCEPT !.pc = "budget", !.stale = listed.provider] \in PassRecords
      BY ConstantsOK DEF TypeOK, Lists, PassRecords, PassPCs
    <3>2. [NoPass EXCEPT !.pc = "budget", !.stale = listed.provider].pc = "budget"
      BY DEF NoPass
    <3> QED
      BY <1>3, <2>1, <2>3, <3>1, <3>2, SetPass DEF Dispatch, TypeOK, ledger
  <2> QED
    BY <1>3, <2>2, <2>3 DEF Dispatch
<1>4. CASE Elapse
  BY <1>4, DueOK DEF Elapse, TypeOK, ledger
<1> QED
  BY <1>1, <1>2, <1>3, <1>4 DEF BeatStep

\* A task goes to a place where it holds no receipt, and may begin a change.
LEMMA TypeGoto ==
    ASSUME TypeOK, NEW p \in Passes, NEW pc \in PassPCs \ {"claim", "invoke", "finish"},
           Goto(p, pc), row' \in Rows, UNCHANGED <<listed, req, ledger, asks, crashes>>,
           inFlight' \in BOOLEAN, provider' \in 0..MaxProviderRetries, runs' \in Runs,
           late' \in Nat,
           \/ UNCHANGED tx
           \/ \E op \in Moves, stamp \in Runs : Begin(p, op, stamp)
    PROVE  TypeOK'
<1>1. tx' \in [Actors -> Transactions]
  BY BeginOK, ActorsOK DEF TypeOK
<1>2. /\ pass' \in [Passes -> PassRecords] /\ pass'[p].pc = pc
      /\ \A q \in Passes \ {p} : pass'[q] = pass[q]
  BY GotoOK DEF TypeOK
<1> QED
  BY <1>1, <1>2 DEF TypeOK, ledger

LEMMA PCsAndMoves ==
    /\ Moves = {"start", "mark_running", "pause", "complete", "fail", "abort",
                "poser", "repondre", "suspend_link", "suspend_review", "guard",
                "guard_uncertain", "resume", "expire"}
    /\ {"idle", "open", "take", "budget", "enter", "loop", "asked", "preflight",
        "reserve", "interrupted", "close", "reschedule", "verify", "release"}
         = PassPCs \ {"claim", "invoke", "finish"}
    /\ 0 \in Runs
BY BoundsAssumption DEF Moves, PassPCs, Runs

LEMMA TypeTick ==
    ASSUME TypeOK, NEW p \in Passes, OpenTick(p) \/ TickBudget(p) \/ TakeTick(p)
    PROVE  TypeOK'
<1>1. CASE OpenTick(p)
  <2>1. PICK new : new = [NoPass EXCEPT !.pc = "open", !.by = "user",
                                        !.draft = row.status = "draft"]
    OBVIOUS
  <2>2. (row.status = "draft") \in BOOLEAN
    OBVIOUS
  <2>3. new \in PassRecords /\ new.pc = "open"
    BY <2>1, <2>2, ConstantsOK DEF PassRecords, PassPCs, NoPass
  <2>4. asks' \in 0..MaxAsks
    BY <1>1, BoundsAssumption DEF OpenTick, TypeOK
  <2> QED
    BY <1>1, <2>1, <2>3, <2>4, SetPass DEF OpenTick, TypeOK, ledger
<1>2. CASE TickBudget(p)
  <2>1. runs' \in Runs
    BY <1>2, StampOK DEF TickBudget, TypeOK
  <2>2. \/ UNCHANGED tx
        \/ \E op \in Moves, stamp \in Runs : Begin(p, op, stamp)
    BY <1>2, StampOK, PCsAndMoves DEF TickBudget, TypeOK
  <2>3. \E pc \in PassPCs \ {"claim", "invoke", "finish"} : Goto(p, pc)
    BY <1>2, PCsAndMoves DEF TickBudget
  <2> QED
    BY <1>2, <2>1, <2>2, <2>3, TypeGoto DEF TickBudget, TypeOK
<1>3. CASE TakeTick(p)
  <2>1. \E pc \in PassPCs \ {"claim", "invoke", "finish"} : Goto(p, pc)
    BY <1>3, PCsAndMoves DEF TakeTick
  <2> QED
    BY <1>3, <2>1, TypeGoto DEF TakeTick, TypeOK
<1> QED
  BY <1>1, <1>2, <1>3

LEMMA TypePass1 ==
    ASSUME TypeOK, NEW p \in Passes,
           \/ Budget(p) \/ Permission(p) \/ Asked(p) \/ Outage(p) \/ Broken(p)
           \/ Close(p) \/ Reschedule(p) \/ Verify(p)
    PROVE  TypeOK'
<1> USE TypeGoto, PCsAndMoves
<1>1. CASE Budget(p)
  <2>1. row' \in Rows
    BY <1>1, DueOK DEF Budget, TypeOK
  <2> QED
    BY <1>1, <2>1 DEF Budget, TypeOK
<1>2. CASE Permission(p)
  BY <1>2 DEF Permission, TypeOK
<1>3. CASE Asked(p)
  BY <1>3 DEF Asked, TypeOK
<1>4. CASE Outage(p)
  <2>1. row' \in Rows
    BY <1>4, DueOK DEF Outage, TypeOK
  <2>2. pass[p].stale \in 0..MaxProviderRetries
    BY DEF TypeOK, PassRecords
  <2>3. provider' \in 0..MaxProviderRetries
    BY <1>4, <2>2, BoundsAssumption DEF Outage, TypeOK
  <2> QED
    BY <1>4, <2>1, <2>3 DEF Outage, TypeOK
<1>5. CASE Broken(p)
  BY <1>5 DEF Broken, TypeOK
<1>6. CASE Close(p)
  <2>1. provider' \in 0..MaxProviderRetries
    BY <1>6, BoundsAssumption DEF Close, TypeOK
  <2> QED
    BY <1>6, <2>1 DEF Close, TypeOK
<1>7. CASE Reschedule(p)
  <2>1. row' \in Rows
    BY <1>7, DueOK DEF Reschedule, TypeOK
  <2> QED
    BY <1>7, <2>1 DEF Reschedule, TypeOK
<1>8. CASE Verify(p)
  BY <1>8 DEF Verify, TypeOK
<1> QED
  BY <1>1, <1>2, <1>3, <1>4, <1>5, <1>6, <1>7, <1>8

LEMMA TypePass2 ==
    ASSUME TypeOK, NEW p \in Passes,
           Enter(p) \/ ToolCall(p) \/ Interrupted(p) \/ Conclude(p) \/ Release(p)
    PROVE  TypeOK'
<1>0. pass[p] \in PassRecords
  BY DEF TypeOK
<1>1. CASE Enter(p)
  <2>1. CASE row.status \in Alive
    <3>1. PICK new : new = [pass[p] EXCEPT !.pc = "loop", !.run = row.run]
      OBVIOUS
    <3>2. new \in PassRecords /\ new.pc = "loop"
      BY <1>0, <3>1, RowFields DEF PassRecords, PassPCs, TypeOK
    <3>3. tx' \in [Actors -> Transactions]
      BY <1>1, <2>1, BeginOK, ActorsOK, PCsAndMoves DEF Enter, TypeOK
    <3> QED
      BY <1>1, <2>1, <3>1, <3>2, <3>3, SetPass DEF Enter, TypeOK, ledger
  <2>2. CASE row.status \notin Alive
    BY <1>1, <2>2, TypeGoto, PCsAndMoves DEF Enter, TypeOK
  <2> QED
    BY <2>1, <2>2
<1>2. CASE ToolCall(p)
  <2>1. PICK pc \in {"preflight", "interrupted"} :
          pass' = [pass EXCEPT ![p].pc = pc, ![p].calls = @ + 1]
    BY <1>2 DEF ToolCall
  <2>2. PICK new : new = [pass[p] EXCEPT !.pc = pc, !.calls = pass[p].calls + 1]
    OBVIOUS
  <2>3. pass[p].calls + 1 \in 0..MaxCalls
    BY <1>0, <1>2, BoundsAssumption DEF ToolCall, PassRecords
  <2>4. new \in PassRecords /\ new.pc = pc
    BY <1>0, <2>2, <2>3, PCsAndMoves DEF PassRecords
  <2>5. pass' = [pass EXCEPT ![p] = new]
    BY <2>1, <2>2
  <2>6. UNCHANGED <<row, provider, runs, inFlight, listed, req, tx, ledger, late, asks,
                    crashes>>
    BY <1>2 DEF ToolCall
  <2> QED
    BY <2>4, <2>5, <2>6, SetPass DEF TypeOK, ledger
<1>3. CASE Interrupted(p)
  <2>1. PICK out \in {"waiting", "more"} :
          pass' = [pass EXCEPT ![p].pc = "close", ![p].outcome = out]
    BY <1>3 DEF Interrupted
  <2>2. PICK new : new = [pass[p] EXCEPT !.pc = "close", !.outcome = out]
    OBVIOUS
  <2>3. new \in PassRecords /\ new.pc = "close"
    BY <1>0, <2>2 DEF PassRecords, PassPCs, Outcomes
  <2>4. pass' = [pass EXCEPT ![p] = new]
    BY <2>1, <2>2
  <2>5. UNCHANGED <<row, provider, runs, inFlight, listed, req, tx, ledger, late, asks,
                    crashes>>
    BY <1>3 DEF Interrupted
  <2> QED
    BY <2>3, <2>4, <2>5, SetPass DEF TypeOK, ledger
<1>4. CASE Conclude(p)
  <2>1. PICK out \in Outcomes :
          pass' = [pass EXCEPT ![p].pc = "close", ![p].outcome = out]
    BY <1>4 DEF Conclude
  <2>2. PICK new : new = [pass[p] EXCEPT !.pc = "close", !.outcome = out]
    OBVIOUS
  <2>3. new \in PassRecords /\ new.pc = "close"
    BY <1>0, <2>2 DEF PassRecords, PassPCs
  <2>4. tx' \in [Actors -> Transactions]
    BY <1>4, BeginOK, ActorsOK, PCsAndMoves DEF Conclude, TypeOK
  <2> QED
    BY <1>4, <2>1, <2>2, <2>3, <2>4, SetPass DEF Conclude, TypeOK, ledger
<1>5. CASE Release(p)
  BY <1>5, SetPass, ConstantsOK DEF Release, TypeOK, ledger
<1> QED
  BY <1>1, <1>2, <1>3, <1>4, <1>5

LEMMA ReceiptOK ==
    ASSUME NEW old \in ReceiptRows, NEW s \in ReceiptStatuses
    PROVE  [old EXCEPT !.status = s] \in ReceiptRows /\ [old EXCEPT !.status = s].status = s
BY DEF ReceiptRows

\* A task takes hold of a receipt.
LEMMA HoldOK ==
    ASSUME pass \in [Passes -> PassRecords], NEW p \in Passes, NEW k \in Keys, Hold(p, k)
    PROVE  /\ pass' \in [Passes -> PassRecords]
           /\ pass'[p].pc = "claim" /\ pass'[p].key = k
           /\ pass'[p].fresh = (receipts[k].status = "absent")
           /\ \A q \in Passes \ {p} : pass'[q] = pass[q]
<1>1. PICK b : b = (receipts[k].status = "absent")
  OBVIOUS
<1>2. b \in BOOLEAN
  BY <1>1
<1>3. PICK old \in PassRecords : old = pass[p]
  OBVIOUS
<1>4. PICK held : held = [old EXCEPT !.pc = "claim", !.key = k, !.fresh = b]
  OBVIOUS
<1>5. held \in PassRecords /\ held.pc = "claim" /\ held.key = k /\ held.fresh = b
  BY <1>2, <1>4 DEF PassRecords, PassPCs
<1>6. pass' = [pass EXCEPT ![p] = held]
  BY <1>1, <1>3, <1>4 DEF Hold
<1> QED
  BY <1>1, <1>5, <1>6, SetPass

LEMMA TypeCalls ==
    ASSUME TypeOK, NEW p \in Passes, Reserve(p) \/ Claim(p) \/ Invoke(p) \/ Finish(p)
    PROVE  TypeOK'
<1>0. PICK old \in PassRecords : old = pass[p]
  BY DEF TypeOK
<1>1. CASE Reserve(p)
  <2>1. CASE \E pc \in PassPCs \ {"claim", "invoke", "finish"} : Goto(p, pc)
    BY <1>1, <2>1, TypeGoto, PCsAndMoves DEF Reserve, TypeOK
  <2>2. ASSUME NEW k \in Keys, Hold(p, k), UNCHANGED tx PROVE TypeOK'
    <3>1. UNCHANGED <<row, provider, runs, inFlight, listed, req, ledger, late, asks, crashes>>
      BY <1>1 DEF Reserve
    <3> QED
      BY <2>2, <3>1, HoldOK DEF TypeOK, ledger
  <2>3. \A a \in Actions : <<row.run, a>> \in Keys
    BY RowFields DEF Keys, TypeOK
  <2>4. \/ \E pc \in PassPCs \ {"claim", "invoke", "finish"} : Goto(p, pc)
        \/ \E k \in Keys : Hold(p, k) /\ UNCHANGED tx
    BY <1>1, <2>3, PCsAndMoves DEF Reserve
  <2> QED
    BY <2>1, <2>2, <2>4
<1>2. CASE Claim(p)
  <2>1. pass[p].key \in Keys
    BY <1>2 DEF Claim, At, TypeOK
  <2>2. CASE Goto(p, "loop") /\ Begin(p, "suspend_review", 0) /\ UNCHANGED receipts
    BY <1>2, <2>2, TypeGoto, PCsAndMoves DEF Claim, TypeOK, ledger
  <2>3. ASSUME Goto(p, "invoke"), UNCHANGED tx, NEW b,
               receipts' = [receipts EXCEPT ![pass[p].key] = Receipt("started", b)],
               b = runs \/ b = receipts[pass[p].key].born
        PROVE  TypeOK'
    <3>1. b \in Runs
      BY <2>1, <2>3 DEF TypeOK, ReceiptRows
    <3>2. Receipt("started", b) \in ReceiptRows
      BY <3>1, ConstantsOK DEF ReceiptStatuses
    <3>3. receipts' \in [Keys -> ReceiptRows]
      BY <2>3, <3>2 DEF TypeOK
    <3>4. /\ pass' \in [Passes -> PassRecords]
          /\ pass'[p].pc = "invoke" /\ pass'[p].key = pass[p].key
          /\ \A q \in Passes \ {p} : pass'[q] = pass[q]
      BY <2>3, GotoOK DEF TypeOK, PassPCs
    <3>5. UNCHANGED <<row, provider, runs, inFlight, listed, req, sent, retried, late, asks,
                      crashes>>
      BY <1>2 DEF Claim
    <3> QED
      BY <2>1, <2>3, <3>3, <3>4, <3>5 DEF TypeOK
  <2> QED
    BY <1>2, <2>2, <2>3 DEF Claim
<1>3. CASE Invoke(p)
  <2>1. pass[p].key \in Keys
    BY <1>3 DEF Invoke, At, TypeOK
  <2>2. PICK b \in BOOLEAN : pass' = [pass EXCEPT ![p].pc = "finish", ![p].ok = b]
    BY <1>3 DEF Invoke
  <2>3. PICK done : done = [old EXCEPT !.pc = "finish", !.ok = b]
    OBVIOUS
  <2>4. done \in PassRecords /\ done.key = pass[p].key
    BY <1>0, <2>3 DEF PassRecords, PassPCs
  <2>5. pass' = [pass EXCEPT ![p] = done]
    BY <1>0, <2>2, <2>3
  <2>6. sent' \in [Keys -> Nat] /\ late' \in Nat
    <3>1. PICK k \in Keys : k = pass[p].key
      BY <2>1
    <3>2. sent' = [sent EXCEPT ![k] = sent[k] + 1] /\ sent[k] \in Nat
      BY <1>3, <3>1 DEF Invoke, TypeOK
    <3>3. sent' \in [Keys -> Nat]
      BY <3>2 DEF TypeOK
    <3>4. late' = 0 \/ late' = late + 1
      BY <1>3 DEF Invoke
    <3> QED
      BY <3>3, <3>4 DEF TypeOK
  <2>7. UNCHANGED <<row, provider, runs, inFlight, listed, req, tx, receipts, retried, asks,
                    crashes>>
    BY <1>3 DEF Invoke
  <2> QED
    BY <2>1, <2>4, <2>5, <2>6, <2>7, SetPass DEF TypeOK
<1>4. CASE Finish(p)
  <2>1. pass[p].key \in Keys
    BY <1>4 DEF Finish, At, TypeOK
  <2>2. PICK free : free = [old EXCEPT !.pc = "loop", !.key = NoKey, !.ok = TRUE, !.fresh = TRUE]
    OBVIOUS
  <2>3. free \in PassRecords /\ free.pc = "loop"
    BY <2>2 DEF PassRecords, PassPCs
  <2>4. pass' = [pass EXCEPT ![p] = free]
    BY <1>0, <1>4, <2>2 DEF Finish
  <2>5. PICK s \in {"success", "uncertain"} :
          receipts' = [receipts EXCEPT ![pass[p].key].status = s]
    BY <1>4 DEF Finish
  <2>6. receipts' \in [Keys -> ReceiptRows]
    BY <2>1, <2>5, ReceiptOK DEF TypeOK, ReceiptStatuses
  <2>7. tx' \in [Actors -> Transactions]
    BY <1>4, BeginOK, ActorsOK, PCsAndMoves DEF Finish, TypeOK
  <2>8. UNCHANGED <<row, provider, runs, inFlight, listed, req, sent, retried, late, asks,
                    crashes>>
    BY <1>4 DEF Finish
  <2> QED
    BY <2>3, <2>4, <2>6, <2>7, <2>8, SetPass DEF TypeOK
<1> QED
  BY <1>1, <1>2, <1>3, <1>4

LEMMA TypeUser ==
    ASSUME TypeOK, NEW r \in Requests, UserStep(r)
    PROVE  TypeOK'
<1>0. asks' \in 0..MaxAsks
  BY BoundsAssumption DEF UserStep, AskMove, After, AskRestart, CommitRestart, AskResolve,
                          CommitResolve, Free, TypeOK
<1>1. CASE AskMove(r)
  <2>1. PICK op \in Asks \intersect {"start", "pause", "abort", "repondre"} :
          /\ req' = [req EXCEPT ![r] = [pc |-> "after", op |-> op, key |-> NoKey]]
          /\ IF op = "start" THEN CanStamp /\ Begin(r, op, Stamp) /\ Stamped
             ELSE Begin(r, op, 0) /\ UNCHANGED runs
    BY <1>1 DEF AskMove
  <2>2. tx' \in [Actors -> Transactions] /\ runs' \in Runs
    BY <2>1, BeginOK, StampOK, ActorsOK, PCsAndMoves DEF TypeOK
  <2>3. PICK new : new = [pc |-> "after", op |-> op, key |-> NoKey]
    OBVIOUS
  <2>4. new \in ReqRecords /\ new.pc = "after"
    BY <2>3, AsksAssumption DEF ReqRecords, Requestable
  <2> QED
    BY <1>0, <1>1, <2>1, <2>2, <2>3, <2>4, SetReq DEF AskMove, TypeOK, ledger
<1>2. CASE After(r)
  <2>1. row' \in Rows
    BY <1>2, DueOK, WaitingOK DEF After, TypeOK
  <2> QED
    BY <1>0, <1>2, <2>1, SetReq, ConstantsOK DEF After, TypeOK, ledger
<1>3. CASE AskRestart(r)
  <2>1. PICK new : new = [pc |-> "commit", op |-> "restart", key |-> NoKey]
    OBVIOUS
  <2>2. new \in ReqRecords /\ new.op = "restart"
    BY <2>1 DEF ReqRecords, Requestable
  <2> QED
    BY <1>0, <1>3, <2>1, <2>2, SetReq DEF AskRestart, TypeOK, ledger
<1>4. CASE CommitRestart(r)
  BY <1>0, <1>4, SetReq, ConstantsOK DEF CommitRestart, TypeOK, ledger
<1>5. CASE AskResolve(r)
  <2>1. PICK k \in Keys, op \in Asks \intersect {"done", "retry"} :
          req' = [req EXCEPT ![r] = [pc |-> "commit", op |-> op, key |-> k]]
    BY <1>5 DEF AskResolve
  <2>2. PICK new : new = [pc |-> "commit", op |-> op, key |-> k]
    OBVIOUS
  <2>3. new \in ReqRecords /\ new.key \in Keys
    BY <2>2, AsksAssumption DEF ReqRecords, Requestable
  <2> QED
    BY <1>0, <1>5, <2>1, <2>2, <2>3, SetReq DEF AskResolve, TypeOK, ledger
<1>6. CASE CommitResolve(r)
  <2>1. PICK k \in Keys : k = req[r].key
    BY <1>6 DEF CommitResolve, TypeOK
  <2>2. PICK s \in {"human_confirmed", "retry_allowed"} :
          receipts' = [receipts EXCEPT ![k].status = s]
    BY <1>6, <2>1 DEF CommitResolve
  <2>3. receipts' \in [Keys -> ReceiptRows]
    BY <2>1, <2>2, ReceiptOK DEF TypeOK, ReceiptStatuses
  <2>4. retried' = [retried EXCEPT ![k] = retried[k] + 1] \/ retried' = retried
    BY <1>6, <2>1 DEF CommitResolve
  <2>5. retried[k] \in Nat
    BY <2>1 DEF TypeOK
  <2>6. retried' \in [Keys -> Nat]
    BY <2>4, <2>5 DEF TypeOK
  <2>7. req' = [req EXCEPT ![r] = NoReq]
        /\ UNCHANGED <<row, provider, runs, inFlight, listed, pass, tx, sent, late, crashes>>
    BY <1>6 DEF CommitResolve
  <2> QED
    BY <1>0, <2>3, <2>6, <2>7, SetReq, ConstantsOK DEF TypeOK
<1> QED
  BY <1>1, <1>2, <1>3, <1>4, <1>5, <1>6 DEF UserStep

LEMMA TypeStep ==
    ASSUME TypeOK, [Next]_vars
    PROVE  TypeOK'
<1>1. CASE UNCHANGED vars
  BY <1>1 DEF vars, TypeOK
<1>2. ASSUME NEW p \in Passes, OpenTick(p) \/ PassStep(p) PROVE TypeOK'
  BY <1>2, TypeTick, TypePass1, TypePass2, TypeCalls DEF PassStep
<1>3. CASE Crash
  <2>1. /\ listed' \in Lists /\ crashes' \in 0..MaxCrashes
        /\ pass' \in [Passes -> PassRecords] /\ req' \in [Requests -> ReqRecords]
        /\ tx' \in [Actors -> Transactions]
    BY <1>3, ConstantsOK, BoundsAssumption DEF Crash, Lists, TypeOK
  <2>2. /\ \A p \in Passes : pass'[p].pc = "idle"
        /\ \A r \in Requests : req'[r].pc = "idle"
    BY <1>3, ConstantsOK DEF Crash
  <2> QED
    BY <1>3, <2>1, <2>2 DEF Crash, TypeOK, ledger
<1> QED
  BY <1>1, <1>2, <1>3, TypeBeat, TypeChange, TypeUser DEF Next

\* The variables keep their types, and whoever is about to write a receipt knows which
\* one (TypeOK), for any number of passages, requests, runs, calls and restarts.
THEOREM TypeCorrect == Spec => []TypeOK
  BY TypeInit, TypeStep, PTL DEF Spec

-----------------------------------------------------------------------------
(* One passage at a time. *)

\* The steps of a passage that neither take nor give back the entry of _in_flight,
\* and touch no receipt.
Works(p) ==
    \/ Budget(p) \/ Enter(p) \/ ToolCall(p) \/ Permission(p) \/ Asked(p)
    \/ Interrupted(p) \/ Conclude(p) \/ Outage(p) \/ Broken(p) \/ Close(p)
    \/ Reschedule(p) \/ Verify(p)

\* The places between the status test of the tool node and the call of the tool.
Committed == {"preflight", "reserve", "claim", "invoke"}

LEMMA SetPlaces ==
    ASSUME pass \in [Passes -> PassRecords], NEW p \in Passes, NEW new,
           pass' = [pass EXCEPT ![p] = new]
    PROVE  pass'[p] = new /\ \A q \in Passes \ {p} : pass'[q] = pass[q]
OBVIOUS

LEMMA WorkPlaces ==
    ASSUME TypeOK, NEW p \in Passes, Works(p)
    PROVE  /\ pass[p].pc \in Holding \ {"claim", "invoke", "finish"}
           /\ pass'[p].pc \in Holding \ {"claim", "invoke", "finish"}
           /\ \A q \in Passes \ {p} : pass'[q] = pass[q]
           /\ UNCHANGED <<inFlight, ledger, late>>
           /\ pass'[p].pc \in Committed =>
                 pass[p].pc \in Committed \/ (row.status \in Alive /\ row' = row)
<1>0. pass \in [Passes -> PassRecords] /\ pass[p] \in PassRecords
  BY DEF TypeOK
<1>1. CASE Enter(p) /\ row.status \in Alive
  <2>1. pass' = [pass EXCEPT ![p] = [pass[p] EXCEPT !.pc = "loop", !.run = row.run]]
    BY <1>1 DEF Enter
  <2>2. [pass[p] EXCEPT !.pc = "loop", !.run = row.run].pc = "loop"
    BY <1>0 DEF PassRecords
  <2> QED
    BY <1>0, <1>1, <2>1, <2>2, SetPlaces DEF Enter, At, Holding, PassPCs, Committed, ledger
<1>2. CASE ToolCall(p)
  <2>1. PICK pc \in {"preflight", "interrupted"} :
          /\ pass' = [pass EXCEPT ![p] = [pass[p] EXCEPT !.pc = pc,
                                                        !.calls = pass[p].calls + 1]]
          /\ pc = "preflight" => row.status \in Alive
    BY <1>2 DEF ToolCall
  <2>2. [pass[p] EXCEPT !.pc = pc, !.calls = pass[p].calls + 1].pc = pc
    BY <1>0 DEF PassRecords
  <2> QED
    BY <1>0, <1>2, <2>1, <2>2, SetPlaces DEF ToolCall, At, Holding, PassPCs, Committed, ledger
<1>3. CASE Interrupted(p) \/ Conclude(p)
  <2>1. PICK out : pass' = [pass EXCEPT ![p] = [pass[p] EXCEPT !.pc = "close", !.outcome = out]]
    BY <1>3 DEF Interrupted, Conclude
  <2>2. [pass[p] EXCEPT !.pc = "close", !.outcome = out].pc = "close"
    BY <1>0 DEF PassRecords
  <2> QED
    BY <1>0, <1>3, <2>1, <2>2, SetPlaces
       DEF Interrupted, Conclude, At, Holding, PassPCs, Committed, ledger
<1>4. CASE (Enter(p) /\ row.status \notin Alive) \/ Budget(p) \/ Outage(p) \/ Broken(p)
           \/ Close(p) \/ Reschedule(p) \/ Verify(p) \/ Permission(p) \/ Asked(p)
  <2>1. PICK pc \in {"release", "close", "enter", "loop", "asked", "reserve", "interrupted",
                      "reschedule", "verify"} :
          /\ Goto(p, pc)
          /\ pc \in Committed => pass[p].pc = "preflight"
    BY <1>4 DEF Enter, Budget, Outage, Broken, Close, Reschedule, Verify, Permission, Asked,
                At, Committed
  <2>2. pass'[p].pc = pc /\ \A q \in Passes \ {p} : pass'[q] = pass[q]
    BY <1>0, <2>1, GotoOK, PCsAndMoves DEF PassPCs
  <2>3. pass[p].pc \in {"enter", "budget", "loop", "close", "reschedule", "verify",
                         "preflight", "asked"}
    BY <1>4 DEF Enter, Budget, Outage, Broken, Close, Reschedule, Verify, Permission, Asked, At
  <2>4. UNCHANGED <<inFlight, ledger, late>>
    BY <1>4 DEF Enter, Budget, Outage, Broken, Close, Reschedule, Verify, Permission, Asked,
                ledger
  <2> QED
    BY <2>1, <2>2, <2>3, <2>4 DEF Holding, PassPCs, Committed
<1> QED
  BY <1>1, <1>2, <1>3, <1>4 DEF Works

\* The steps of a passage that touch receipts.
LEMMA CallPlaces ==
    ASSUME TypeOK, NEW p \in Passes, Reserve(p) \/ Claim(p) \/ Invoke(p) \/ Finish(p)
    PROVE  /\ pass[p].pc \in Holding /\ pass'[p].pc \in Holding
           /\ \A q \in Passes \ {p} : pass'[q] = pass[q]
           /\ UNCHANGED <<inFlight, retried>>
           /\ pass'[p].pc \in Committed => pass[p].pc \in Committed /\ late' = late
<1>0. pass \in [Passes -> PassRecords] /\ pass[p] \in PassRecords
  BY DEF TypeOK
<1>1. CASE Reserve(p)
  <2>1. \A a \in Actions : <<row.run, a>> \in Keys
    BY RowFields DEF Keys, TypeOK
  <2>2. Goto(p, "loop") \/ \E k \in Keys : Hold(p, k)
    BY <1>1, <2>1 DEF Reserve
  <2>3. /\ pass'[p].pc \in {"loop", "claim"}
        /\ \A q \in Passes \ {p} : pass'[q] = pass[q]
    BY <1>0, <2>2, HoldOK, GotoOK DEF PassPCs
  <2> QED
    BY <1>1, <2>3 DEF Reserve, At, Holding, PassPCs, Committed, ledger
<1>2. CASE Claim(p)
  <2>1. PICK pc \in {"loop", "invoke"} : Goto(p, pc)
    BY <1>2 DEF Claim
  <2>2. pass'[p].pc = pc /\ \A q \in Passes \ {p} : pass'[q] = pass[q]
    BY <1>0, <2>1, GotoOK DEF PassPCs
  <2> QED
    BY <1>2, <2>2 DEF Claim, At, Holding, PassPCs, Committed
<1>3. CASE Invoke(p)
  <2>1. PICK ok \in BOOLEAN :
          pass' = [pass EXCEPT ![p] = [pass[p] EXCEPT !.pc = "finish", !.ok = ok]]
    BY <1>3 DEF Invoke
  <2>2. [pass[p] EXCEPT !.pc = "finish", !.ok = ok].pc = "finish"
    BY <1>0 DEF PassRecords
  <2> QED
    BY <1>0, <1>3, <2>1, <2>2, SetPlaces DEF Invoke, At, Holding, PassPCs, Committed
<1>4. CASE Finish(p)
  <2>1. PICK new : /\ pass' = [pass EXCEPT ![p] = new]
                   /\ new = [pass[p] EXCEPT !.pc = "loop", !.key = NoKey, !.ok = TRUE,
                                            !.fresh = TRUE]
    BY <1>4 DEF Finish
  <2>2. new.pc = "loop"
    BY <1>0, <2>1 DEF PassRecords
  <2> QED
    BY <1>0, <1>4, <2>1, <2>2, SetPlaces DEF Finish, At, Holding, PassPCs, Committed
<1> QED
  BY <1>1, <1>2, <1>3, <1>4

\* The steps before a manual tick owns the entry, and the release.
LEMMA DoorPlaces ==
    ASSUME TypeOK, NEW p \in Passes,
           OpenTick(p) \/ TickBudget(p) \/ TakeTick(p) \/ Release(p)
    PROVE  /\ pass'[p].pc \in {"idle", "open", "take", "enter"}
           /\ \A q \in Passes \ {p} : pass'[q] = pass[q]
           /\ UNCHANGED <<ledger, late>>
           /\ ~Release(p) => pass[p].pc \notin Holding
           /\ pass'[p].pc = "enter" => ~inFlight
           /\ inFlight' = IF Release(p) THEN FALSE
                          ELSE inFlight \/ pass'[p].pc = "enter"
<1>0. pass \in [Passes -> PassRecords]
  BY DEF TypeOK
<1>1. CASE OpenTick(p)
  <2>1. PICK new : new = [NoPass EXCEPT !.pc = "open", !.by = "user",
                                        !.draft = row.status = "draft"]
    OBVIOUS
  <2>2. new.pc = "open"
    BY <2>1 DEF NoPass
  <2>3. ~Release(p) /\ pass[p].pc = "idle" /\ pass' = [pass EXCEPT ![p] = new]
    BY <1>1, <2>1 DEF OpenTick, Release, At
  <2> QED
    BY <1>0, <1>1, <2>2, <2>3, SetPlaces DEF OpenTick, Holding, ledger, TypeOK
<1>2. CASE TickBudget(p)
  <2>1. PICK pc \in {"idle", "take"} : Goto(p, pc)
    BY <1>2 DEF TickBudget
  <2>2. pass'[p].pc = pc /\ \A q \in Passes \ {p} : pass'[q] = pass[q]
    BY <1>0, <2>1, GotoOK DEF PassPCs
  <2>3. ~Release(p) /\ pass[p].pc = "open"
    BY <1>2 DEF TickBudget, Release, At
  <2> QED
    BY <1>2, <2>2, <2>3 DEF TickBudget, Holding, ledger, TypeOK
<1>3. CASE TakeTick(p)
  <2>1. PICK pc \in {"idle", "enter"} : Goto(p, pc) /\ (pc = "enter" <=> ~inFlight)
    BY <1>3 DEF TakeTick
  <2>2. pass'[p].pc = pc /\ \A q \in Passes \ {p} : pass'[q] = pass[q]
    BY <1>0, <2>1, GotoOK DEF PassPCs
  <2>3. ~Release(p) /\ pass[p].pc = "take"
    BY <1>3 DEF TakeTick, Release, At
  <2> QED
    BY <1>3, <2>1, <2>2, <2>3 DEF TakeTick, Holding, ledger, TypeOK
<1>4. CASE Release(p)
  BY <1>0, <1>4, SetPlaces, ConstantsOK DEF Release, ledger
<1> QED
  BY <1>1, <1>2, <1>3, <1>4

LEMMA DispatchPlaces ==
    ASSUME TypeOK, Dispatch
    PROVE  /\ UNCHANGED <<ledger, late>>
           /\ \/ UNCHANGED <<inFlight, pass>>
              \/ /\ ~inFlight /\ inFlight'
                 /\ \E p \in Passes : /\ pass[p].pc = "idle" /\ pass'[p].pc = "budget"
                                      /\ \A q \in Passes \ {p} : pass'[q] = pass[q]
<1>1. PICK new : new = [NoPass EXCEPT !.pc = "budget", !.stale = listed.provider]
  OBVIOUS
<1>2. new.pc = "budget"
  BY <1>1 DEF NoPass
<1>3. ASSUME NEW p \in Passes, pass' = [pass EXCEPT ![p] = new]
      PROVE  pass'[p].pc = "budget" /\ \A q \in Passes \ {p} : pass'[q] = pass[q]
  BY <1>2, <1>3, SetPlaces DEF TypeOK
<1>4. \/ UNCHANGED <<inFlight, pass>>
      \/ /\ ~inFlight /\ inFlight'
         /\ \E p \in Passes : pass[p].pc = "idle" /\ pass' = [pass EXCEPT ![p] = new]
  BY <1>1 DEF Dispatch, At
<1> QED
  BY <1>3, <1>4 DEF Dispatch, ledger

\* The steps of everybody else leave the passages where they are.
LEMMA OtherPlaces ==
    ASSUME TypeOK,
           \/ BeatResume \/ BeatList \/ Elapse \/ UNCHANGED vars
           \/ \E a \in Actors : ReadStatus(a) \/ WriteStatus(a)
           \/ \E r \in Requests : UserStep(r)
    PROVE  UNCHANGED <<inFlight, pass, sent>>
BY DEF BeatResume, BeatList, Elapse, vars, ReadStatus, WriteStatus, UserStep, AskMove, After,
       AskRestart, CommitRestart, AskResolve, CommitResolve, ledger

LEMMA CrashPlaces ==
    ASSUME Crash
    PROVE  /\ ~inFlight' /\ UNCHANGED <<ledger, late>>
           /\ \A p \in Passes : pass'[p].pc = "idle"
BY ConstantsOK DEF Crash, ledger

LEMMA NextCases ==
    ASSUME [Next]_vars
    PROVE  \/ \E p \in Passes : Works(p)
           \/ \E p \in Passes : Reserve(p) \/ Claim(p) \/ Invoke(p) \/ Finish(p)
           \/ \E p \in Passes : OpenTick(p) \/ TickBudget(p) \/ TakeTick(p) \/ Release(p)
           \/ Dispatch
           \/ \/ BeatResume \/ BeatList \/ Elapse \/ UNCHANGED vars
              \/ \E a \in Actors : ReadStatus(a) \/ WriteStatus(a)
              \/ \E r \in Requests : UserStep(r)
           \/ Crash
BY DEF Next, BeatStep, PassStep, Works

LEMMA OnePassageStep ==
    ASSUME TypeOK, OnePassage, [Next]_vars
    PROVE  OnePassage'
<1>0. inFlight \in BOOLEAN
  BY DEF TypeOK
<1>1. ASSUME NEW p \in Passes, Works(p) PROVE OnePassage'
  BY <1>1, WorkPlaces DEF OnePassage, Holds
<1>2. ASSUME NEW p \in Passes, Reserve(p) \/ Claim(p) \/ Invoke(p) \/ Finish(p)
      PROVE  OnePassage'
  BY <1>2, CallPlaces DEF OnePassage, Holds
<1>3. ASSUME NEW p \in Passes, OpenTick(p) \/ TickBudget(p) \/ TakeTick(p) \/ Release(p)
      PROVE  OnePassage'
  <2>1. CASE Release(p)
    <3>1. Holds(p)
      BY <2>1 DEF Release, At, Holds, Holding, PassPCs
    <3>2. \A q \in Passes : ~Holds(q)'
      <4>1. pass'[p].pc = "idle"
        BY <2>1, ConstantsOK DEF Release, TypeOK
      <4>2. \A q \in Passes \ {p} : pass'[q] = pass[q] /\ ~Holds(q)
        BY <1>3, <3>1, DoorPlaces DEF OnePassage
      <4> QED
        BY <4>1, <4>2 DEF Holds, Holding
    <3> QED
      BY <1>3, <2>1, <3>2, DoorPlaces DEF OnePassage
  <2>2. CASE ~Release(p) /\ pass'[p].pc = "enter"
    <3>1. ~inFlight /\ inFlight' = TRUE /\ \A q \in Passes \ {p} : pass'[q] = pass[q]
      BY <1>3, <2>2, DoorPlaces
    <3>2. \A q \in Passes : Holds(q)' <=> q = p
      BY <1>0, <2>2, <3>1 DEF OnePassage, Holds, Holding, PassPCs
    <3> QED
      BY <3>1, <3>2 DEF OnePassage
  <2>3. CASE ~Release(p) /\ pass'[p].pc # "enter"
    <3>1. \A q \in Passes : Holds(q)' <=> Holds(q)
      BY <1>3, <2>3, DoorPlaces DEF Holds, Holding
    <3>2. inFlight' <=> inFlight
      BY <1>3, <2>3, DoorPlaces
    <3> QED
      BY <3>1, <3>2 DEF OnePassage
  <2> QED
    BY <2>1, <2>2, <2>3
<1>4. CASE Dispatch
  <2>1. CASE UNCHANGED <<inFlight, pass>>
    BY <2>1 DEF OnePassage, Holds
  <2>2. ASSUME NEW p \in Passes, ~inFlight, inFlight', pass'[p].pc = "budget",
               \A q \in Passes \ {p} : pass'[q] = pass[q]
        PROVE  OnePassage'
    <3>1. \A q \in Passes : Holds(q)' <=> q = p
      BY <2>2 DEF OnePassage, Holds, Holding, PassPCs
    <3> QED
      BY <2>2, <3>1 DEF OnePassage
  <2> QED
    BY <1>4, <2>1, <2>2, DispatchPlaces
<1>5. CASE UNCHANGED <<inFlight, pass>>
  BY <1>5 DEF OnePassage, Holds
<1>6. CASE Crash
  BY <1>6, CrashPlaces DEF OnePassage, Holds, Holding
<1> QED
  BY <1>1, <1>2, <1>3, <1>4, <1>5, <1>6, NextCases, OtherPlaces

\* The heartbeat and the manual tick never work on the mission at the same time, and
\* _in_flight has its entry exactly as long as one of them does (OnePassage).
THEOREM PassageIsAlone == Spec => []OnePassage
<1>1. Init => OnePassage
  BY ConstantsOK DEF Init, OnePassage, Holds, Holding
<1>2. TypeOK /\ OnePassage /\ [Next]_vars => OnePassage'
  BY OnePassageStep
<1> QED
  BY <1>1, <1>2, TypeCorrect, PTL DEF Spec

-----------------------------------------------------------------------------
(* Calls that outlive the mission. *)

\* A passage that got past the status test was let in by a mission alive since its
\* last late call, and there is only one passage.
LateInv ==
    /\ row.status \in Alive => late = 0
    /\ \A p \in Passes : pass[p].pc \in Committed => late = 0
    /\ late <= 1

\* Only a change of status makes the mission alive.
LEMMA AliveStep ==
    ASSUME TypeOK, [Next]_vars, row'.status \in Alive
    PROVE  late' = 0 \/ (row.status \in Alive /\ late' = late)
<1> USE DEF Alive
<1>1. ASSUME NEW a \in Actors, ReadStatus(a) \/ WriteStatus(a)
      PROVE  late' = 0 \/ (row.status \in Alive /\ late' = late)
  BY <1>1 DEF ReadStatus, WriteStatus
<1>2. ASSUME NEW r \in Requests, UserStep(r)
      PROVE  row.status \in Alive /\ late' = late
  BY <1>2, DueOK, WaitingOK, ConstantsOK
     DEF UserStep, AskMove, After, AskRestart, CommitRestart, AskResolve, CommitResolve, TypeOK
<1>3. ASSUME NEW p \in Passes, Works(p)
      PROVE  row.status \in Alive /\ late' = late
  <2>1. row' = row \/ \E d \in {"never", "later", "now"} : row' = [row EXCEPT !.due = d]
    BY <1>3 DEF Works, Budget, Enter, ToolCall, Permission, Asked, Interrupted, Conclude,
                Outage, Broken, Close, Reschedule, Verify
  <2>2. row'.status = row.status
    BY <2>1, DueOK DEF TypeOK
  <2>3. late' = late
    BY <1>3, WorkPlaces
  <2> QED
    BY <2>2, <2>3
<1>4. ASSUME NEW p \in Passes, Reserve(p) \/ Claim(p) \/ Invoke(p) \/ Finish(p)
      PROVE  late' = 0 \/ (row.status \in Alive /\ late' = late)
  BY <1>4 DEF Reserve, Claim, Invoke, Finish
<1>5. ASSUME NEW p \in Passes, OpenTick(p) \/ TickBudget(p) \/ TakeTick(p) \/ Release(p)
      PROVE  row.status \in Alive /\ late' = late
  BY <1>5 DEF OpenTick, TickBudget, TakeTick, Release
<1>6. CASE Dispatch \/ BeatResume \/ BeatList \/ Crash \/ UNCHANGED vars
  BY <1>6 DEF Dispatch, BeatResume, BeatList, Crash, vars
<1>7. CASE Elapse
  BY <1>7, DueOK DEF Elapse, TypeOK
<1> QED
  BY <1>1, <1>2, <1>3, <1>4, <1>5, <1>6, <1>7, NextCases

LEMMA LateStep ==
    ASSUME TypeOK, OnePassage, LateInv, [Next]_vars
    PROVE  LateInv'
<1>1. row'.status \in Alive => late' = 0
  BY AliveStep DEF LateInv
<1>2. ASSUME NEW p \in Passes, Works(p)
      PROVE  (\A q \in Passes : pass'[q].pc \in Committed => late' = 0) /\ late' <= 1
  BY <1>2, WorkPlaces DEF LateInv
<1>3. ASSUME NEW p \in Passes, Reserve(p) \/ Claim(p) \/ Invoke(p) \/ Finish(p)
      PROVE  (\A q \in Passes : pass'[q].pc \in Committed => late' = 0) /\ late' <= 1
  <2>1. \A q \in Passes \ {p} : pass'[q].pc \notin Committed
    BY <1>3, CallPlaces DEF OnePassage, Holds, Committed, Holding, PassPCs
  <2>2. late' = late \/ late' = 0 \/ (late' = late + 1 /\ pass[p].pc \in Committed)
    BY <1>3 DEF Reserve, Claim, Invoke, Finish, At, Committed
  <2> QED
    BY <1>3, <2>1, <2>2, CallPlaces DEF LateInv, TypeOK
<1>4. ASSUME NEW p \in Passes, OpenTick(p) \/ TickBudget(p) \/ TakeTick(p) \/ Release(p)
      PROVE  (\A q \in Passes : pass'[q].pc \in Committed => late' = 0) /\ late' <= 1
  BY <1>4, DoorPlaces DEF LateInv, Committed
<1>5. CASE Dispatch
  <2>1. late' = late
    BY <1>5, DispatchPlaces
  <2>2. \A q \in Passes : pass'[q] = pass[q] \/ pass'[q].pc = "budget"
    BY <1>5, DispatchPlaces
  <2> QED
    BY <1>1, <2>1, <2>2 DEF LateInv, Committed
<1>6. CASE \/ BeatResume \/ BeatList \/ Elapse \/ UNCHANGED vars
           \/ \E a \in Actors : ReadStatus(a) \/ WriteStatus(a)
           \/ \E r \in Requests : UserStep(r)
  <2>1. late' = late \/ late' = 0
    BY <1>6 DEF BeatResume, BeatList, Elapse, vars, ReadStatus, WriteStatus, UserStep, AskMove,
                After, AskRestart, CommitRestart, AskResolve, CommitResolve
  <2>2. pass' = pass
    BY <1>6, OtherPlaces
  <2> QED
    BY <1>1, <2>1, <2>2 DEF LateInv
<1>7. CASE Crash
  <2>1. late' = late /\ \A p \in Passes : pass'[p].pc = "idle"
    BY <1>7, CrashPlaces
  <2> QED
    BY <1>1, <2>1 DEF LateInv, Committed
<1> QED
  BY <1>1, <1>2, <1>3, <1>4, <1>5, <1>6, <1>7, NextCases DEF LateInv

\* At most one call is handed to its tool after the mission was stopped, whatever
\* stops it and however many passages, calls and restarts there are.
THEOREM OneLateCall == Spec => []AtMostOneLateCall
<1>1. Init => LateInv
  BY ConstantsOK DEF Init, LateInv, Alive, Committed
<1>2. TypeOK /\ OnePassage /\ LateInv /\ [Next]_vars => LateInv'
  BY LateStep
<1>3. LateInv => AtMostOneLateCall
  BY DEF LateInv, AtMostOneLateCall
<1> QED
  BY <1>1, <1>2, <1>3, TypeCorrect, PassageIsAlone, PTL DEF Spec

-----------------------------------------------------------------------------
(* Write calls and their receipts. *)

\* What the receipt of a call says about the times it was sent ...
LedgerOK(k) ==
    /\ receipts[k].status = "absent" => sent[k] = 0
    /\ receipts[k].status = "retry_allowed" => sent[k] <= retried[k]
    /\ sent[k] <= 1 + retried[k]

\* ... and what a passage that is about to send it may rely on.
CallerOK(p) ==
    /\ pass[p].pc = "claim" /\ ~pass[p].fresh => sent[pass[p].key] <= retried[pass[p].key]
    /\ pass[p].pc = "invoke" =>
          /\ receipts[pass[p].key].status # "absent"
          /\ sent[pass[p].key] <= retried[pass[p].key]
          /\ receipts[pass[p].key].status = "retry_allowed" =>
                sent[pass[p].key] + 1 <= retried[pass[p].key]

LedgerInv == (\A k \in Keys : LedgerOK(k)) /\ (\A p \in Passes : CallerOK(p))

\* A task away from these two places relies on nothing.
LEMMA AwayOK ==
    ASSUME NEW p \in Passes, pass'[p].pc \notin {"claim", "invoke"}
    PROVE  CallerOK(p)'
BY DEF CallerOK

LEMMA UntouchedOK ==
    ASSUME LedgerInv, UNCHANGED ledger,
           \A p \in Passes : pass'[p] = pass[p] \/ pass'[p].pc \notin {"claim", "invoke"}
    PROVE  LedgerInv'
BY DEF LedgerInv, LedgerOK, CallerOK, ledger

\* A receipt whose status is written.
LEMMA WriteOK ==
    ASSUME receipts \in [Keys -> ReceiptRows], NEW k \in Keys, NEW s \in ReceiptStatuses,
           receipts' = [receipts EXCEPT ![k].status = s]
    PROVE  receipts'[k].status = s /\ \A j \in Keys \ {k} : receipts'[j] = receipts[j]
<1>1. receipts' = [receipts EXCEPT ![k] = [receipts[k] EXCEPT !.status = s]]
  OBVIOUS
<1>2. [receipts[k] EXCEPT !.status = s].status = s
  BY DEF ReceiptRows
<1> QED
  BY <1>1, <1>2

LEMMA CallStep ==
    ASSUME TypeOK, OnePassage, LedgerInv, NEW p \in Passes,
           Reserve(p) \/ Claim(p) \/ Invoke(p) \/ Finish(p)
    PROVE  LedgerInv'
<1>0. /\ pass \in [Passes -> PassRecords] /\ sent \in [Keys -> Nat]
      /\ retried \in [Keys -> Nat] /\ receipts \in [Keys -> ReceiptRows]
  BY DEF TypeOK
<1>1. \A q \in Passes \ {p} : CallerOK(q)'
  <2>1. \A q \in Passes \ {p} : pass'[q] = pass[q] /\ pass[q].pc \notin Holding
    BY CallPlaces DEF OnePassage, Holds
  <2> QED
    BY <2>1, AwayOK DEF Holding, PassPCs
<1>2. CASE Reserve(p)
  <2>1. \A a \in Actions : <<row.run, a>> \in Keys
    BY RowFields DEF Keys, TypeOK
  <2>2. UNCHANGED <<receipts, sent, retried>>
    BY <1>2 DEF Reserve, ledger
  <2>3. CallerOK(p)'
    <3>1. CASE Goto(p, "loop")
      BY <1>0, <3>1, GotoOK, AwayOK DEF PassPCs
    <3>2. ASSUME NEW k \in Keys, Hold(p, k),
                 receipts[k].status \in {"absent", "retry_allowed"}
          PROVE  CallerOK(p)'
      <4>1. /\ pass'[p].pc = "claim" /\ pass'[p].key = k
            /\ pass'[p].fresh = (receipts[k].status = "absent")
        BY <1>0, <3>2, HoldOK
      <4>2. ~pass'[p].fresh => sent[k] <= retried[k]
        BY <3>2, <4>1 DEF LedgerInv, LedgerOK
      <4> QED
        BY <2>2, <4>1, <4>2 DEF CallerOK
    <3> QED
      BY <1>2, <2>1, <3>1, <3>2 DEF Reserve
  <2> QED
    BY <1>1, <2>2, <2>3 DEF LedgerInv, LedgerOK
<1>3. CASE Claim(p)
  <2>1. PICK k \in Keys : k = pass[p].key
    BY <1>3 DEF Claim, At, TypeOK
  <2>2. UNCHANGED <<sent, retried>>
    BY <1>3 DEF Claim
  <2>3. CASE Goto(p, "loop") /\ UNCHANGED receipts
    BY <1>0, <1>1, <2>2, <2>3, GotoOK, AwayOK DEF PassPCs, LedgerInv, LedgerOK
  <2>4. ASSUME Goto(p, "invoke"), pass[p].fresh => receipts[k].status = "absent", NEW b,
               receipts' = [receipts EXCEPT ![k] = Receipt("started", b)]
        PROVE  LedgerInv'
    <3>1. pass'[p].pc = "invoke" /\ pass'[p].key = k
      BY <1>0, <2>1, <2>4, GotoOK DEF PassPCs
    <3>2. /\ receipts'[k].status = "started"
          /\ \A j \in Keys \ {k} : receipts'[j] = receipts[j]
      BY <1>0, <2>4 DEF Receipt
    <3>3. sent[k] <= retried[k]
      <4>1. CASE pass[p].fresh
        BY <1>0, <2>4, <4>1 DEF LedgerInv, LedgerOK
      <4>2. CASE ~pass[p].fresh
        BY <1>3, <2>1, <4>2 DEF LedgerInv, CallerOK, Claim, At
      <4> QED
        BY <4>1, <4>2
    <3>4. \A j \in Keys : LedgerOK(j)'
      BY <2>2, <3>2 DEF LedgerInv, LedgerOK
    <3>5. CallerOK(p)'
      BY <2>2, <3>1, <3>2, <3>3 DEF CallerOK
    <3> QED
      BY <1>1, <3>4, <3>5 DEF LedgerInv
  <2> QED
    BY <1>3, <2>1, <2>3, <2>4 DEF Claim
<1>4. CASE Invoke(p)
  <2>1. PICK k \in Keys : k = pass[p].key
    BY <1>4 DEF Invoke, At, TypeOK
  <2>2. /\ sent'[k] = sent[k] + 1
        /\ \A j \in Keys \ {k} : sent'[j] = sent[j]
        /\ UNCHANGED <<receipts, retried>>
    BY <1>0, <1>4, <2>1 DEF Invoke
  <2>3. /\ receipts[k].status # "absent" /\ sent[k] <= retried[k]
        /\ receipts[k].status = "retry_allowed" => sent[k] + 1 <= retried[k]
    BY <1>4, <2>1 DEF LedgerInv, CallerOK, Invoke, At
  <2>4. sent[k] \in Nat /\ retried[k] \in Nat
    BY <1>0
  <2>5. LedgerOK(k)'
    BY <2>2, <2>3, <2>4 DEF LedgerOK
  <2>6. \A j \in Keys \ {k} : LedgerOK(j)'
    BY <2>2 DEF LedgerInv, LedgerOK
  <2>7. CallerOK(p)'
    <3>1. PICK ok : pass' = [pass EXCEPT ![p] = [pass[p] EXCEPT !.pc = "finish", !.ok = ok]]
      BY <1>4 DEF Invoke
    <3>2. [pass[p] EXCEPT !.pc = "finish", !.ok = ok].pc = "finish"
      BY <1>0 DEF PassRecords
    <3> QED
      BY <1>0, <3>1, <3>2, SetPlaces, AwayOK
  <2> QED
    BY <1>1, <2>5, <2>6, <2>7 DEF LedgerInv
<1>5. CASE Finish(p)
  <2>1. PICK k \in Keys, s \in {"success", "uncertain"} :
          receipts' = [receipts EXCEPT ![k].status = s]
    BY <1>5 DEF Finish, At, TypeOK
  <2>2. /\ receipts'[k].status = s
        /\ \A j \in Keys \ {k} : receipts'[j] = receipts[j]
        /\ UNCHANGED <<sent, retried>>
    BY <1>0, <1>5, <2>1, WriteOK DEF Finish, ReceiptStatuses
  <2>3. \A j \in Keys : LedgerOK(j)'
    BY <2>2 DEF LedgerInv, LedgerOK
  <2>4. CallerOK(p)'
    <3>1. PICK new : /\ pass' = [pass EXCEPT ![p] = new]
                     /\ new = [pass[p] EXCEPT !.pc = "loop", !.key = NoKey, !.ok = TRUE,
                                              !.fresh = TRUE]
      BY <1>5 DEF Finish
    <3>2. new.pc = "loop"
      BY <1>0, <3>1 DEF PassRecords
    <3> QED
      BY <1>0, <3>1, <3>2, SetPlaces, AwayOK
  <2> QED
    BY <1>1, <2>3, <2>4 DEF LedgerInv
<1> QED
  BY <1>2, <1>3, <1>4, <1>5

LEMMA ResolveStep ==
    ASSUME TypeOK, LedgerInv, NEW r \in Requests, CommitResolve(r)
    PROVE  LedgerInv'
<1>1. PICK k \in Keys : k = req[r].key
  BY DEF CommitResolve, TypeOK
<1>2. /\ pass' = pass /\ sent' = sent
      /\ \A j \in Keys \ {k} : receipts'[j] = receipts[j] /\ retried'[j] = retried[j]
  BY <1>1 DEF CommitResolve, TypeOK
<1>3. \/ receipts'[k].status = "human_confirmed" /\ retried'[k] = retried[k]
      \/ receipts'[k].status = "retry_allowed" /\ retried'[k] = retried[k] + 1
  <2>1. \/ /\ receipts' = [receipts EXCEPT ![k].status = "human_confirmed"]
           /\ retried' = retried
        \/ /\ receipts' = [receipts EXCEPT ![k].status = "retry_allowed"]
           /\ retried' = [retried EXCEPT ![k] = retried[k] + 1]
    BY <1>1 DEF CommitResolve
  <2> QED
    BY <2>1, WriteOK DEF TypeOK, ReceiptStatuses
<1>4. sent[k] \in Nat /\ retried[k] \in Nat
  BY DEF TypeOK
<1>5. \A j \in Keys : LedgerOK(j)'
  BY <1>2, <1>3, <1>4 DEF LedgerInv, LedgerOK
<1>6. ASSUME NEW p \in Passes PROVE CallerOK(p)'
  <2>1. CASE pass[p].pc \notin {"claim", "invoke"}
    BY <1>2, <2>1, AwayOK
  <2>2. CASE pass[p].pc \in {"claim", "invoke"} /\ pass[p].key = k
    BY <1>2, <1>3, <1>4, <2>2 DEF LedgerInv, CallerOK
  <2>3. CASE pass[p].pc \in {"claim", "invoke"} /\ pass[p].key # k
    <3>1. pass[p].key \in Keys \ {k}
      BY <2>3 DEF TypeOK
    <3> QED
      BY <1>2, <3>1 DEF LedgerInv, CallerOK
  <2> QED
    BY <2>1, <2>2, <2>3
<1> QED
  BY <1>5, <1>6 DEF LedgerInv

LEMMA LedgerStep ==
    ASSUME TypeOK, OnePassage, LedgerInv, [Next]_vars
    PROVE  LedgerInv'
<1>1. ASSUME NEW p \in Passes, Works(p) PROVE LedgerInv'
  BY <1>1, WorkPlaces, UntouchedOK
<1>2. ASSUME NEW p \in Passes, Reserve(p) \/ Claim(p) \/ Invoke(p) \/ Finish(p)
      PROVE  LedgerInv'
  BY <1>2, CallStep
<1>3. ASSUME NEW p \in Passes, OpenTick(p) \/ TickBudget(p) \/ TakeTick(p) \/ Release(p)
      PROVE  LedgerInv'
  BY <1>3, DoorPlaces, UntouchedOK
<1>4. CASE Dispatch
  <2>1. \A p \in Passes : pass'[p] = pass[p] \/ pass'[p].pc = "budget"
    BY <1>4, DispatchPlaces
  <2> QED
    BY <1>4, <2>1, DispatchPlaces, UntouchedOK
<1>5. CASE \/ BeatResume \/ BeatList \/ Elapse \/ UNCHANGED vars
           \/ \E a \in Actors : ReadStatus(a) \/ WriteStatus(a)
           \/ \E r \in Requests : UserStep(r) /\ ~CommitResolve(r)
  <2>1. UNCHANGED ledger /\ UNCHANGED pass
    BY <1>5 DEF BeatResume, BeatList, Elapse, vars, ReadStatus, WriteStatus, UserStep, AskMove,
                After, AskRestart, CommitRestart, AskResolve, ledger
  <2> QED
    BY <2>1, UntouchedOK
<1>6. ASSUME NEW r \in Requests, CommitResolve(r) PROVE LedgerInv'
  BY <1>6, ResolveStep
<1>7. CASE Crash
  BY <1>7, CrashPlaces, UntouchedOK
<1> QED
  BY <1>1, <1>2, <1>3, <1>4, <1>5, <1>6, <1>7, NextCases

\* A write call of a run reaches its tool once, plus once for each retry its user
\* allowed: whatever is stopped, restarted, answered or resolved, and whenever.
THEOREM CallsAtMostOnce == Spec => []AtMostOnce
<1>1. Init => LedgerInv
  <2> SUFFICES ASSUME Init PROVE LedgerInv
    OBVIOUS
  <2>1. ASSUME NEW k \in Keys PROVE LedgerOK(k)
    BY DEF Init, LedgerOK, Receipt
  <2>2. ASSUME NEW p \in Passes PROVE CallerOK(p)
    BY ConstantsOK DEF Init, CallerOK
  <2> QED
    BY <2>1, <2>2 DEF LedgerInv
<1>2. TypeOK /\ OnePassage /\ LedgerInv /\ [Next]_vars => LedgerInv'
  BY LedgerStep
<1>3. LedgerInv => AtMostOnce
  BY DEF LedgerInv, LedgerOK, AtMostOnce
<1> QED
  BY <1>1, <1>2, <1>3, TypeCorrect, PassageIsAlone, PTL DEF Spec

-----------------------------------------------------------------------------
(* A completed mission has no effect in doubt.                               *)

\* The places of a passage at work on the mission.
Working == {"loop", "asked", "preflight", "reserve", "claim", "invoke", "finish"}
\* The statuses that only a started mission has.
Begun == {"planning", "running", "paused", "waiting_user", "completed"}

Settled == \A k \in Keys : receipts[k].status \notin Unresolved
Kept(k) == receipts[k].status # "absent"

RowKnown ==
    /\ row.status \in Begun => row.run # 0
    /\ row.run <= runs
    /\ row.status = "completed" => Settled

\* What the change of status an actor is in the middle of relies on ...
ChangeKnown(a) ==
    /\ tx[a].pc # "none" /\ tx[a].op = "start" => tx[a].stamp # 0 \/ row.run # 0
    /\ tx[a].pc = "write" /\ tx[a].op \notin {"start", "fail", "abort"} => row.run # 0
    /\ tx[a].seen.run # 0 => row.run # 0
    /\ tx[a].stamp <= runs
    /\ tx[a].pc # "none" /\ tx[a].op = "complete" =>
          a \in Passes /\ pass[a].pc = "release" /\ Settled

\* ... a receipt: no run starts after it was written ...
BornNow(k) == Kept(k) => row.run # 0 /\ receipts[k].born = runs

\* ... a passage: it works on a mission that has started and is not completed, and
\* knows the receipt it holds ...
AtWork(p) == pass[p].pc \in Working => row.run # 0 /\ row.status # "completed"
KeyKnown(p) ==
    (pass[p].pc = "claim" /\ ~pass[p].fresh) \/ pass[p].pc \in {"invoke", "finish"}
        => Kept(pass[p].key)

\* ... and a request of the user, who does not restart the mission.
AskKnown(r) ==
    /\ req[r].op # "restart"
    /\ req[r].pc = "commit" => Kept(req[r].key)

SettledInv ==
    /\ RowKnown
    /\ \A a \in Actors : ChangeKnown(a)
    /\ \A k \in Keys : BornNow(k)
    /\ \A p \in Passes : AtWork(p) /\ KeyKnown(p)
    /\ \A r \in Requests : AskKnown(r)

\* Only "complete" completes, nothing but "start" begins a run, and a failure or an
\* abort is all that can be done to a mission that never started.
LEMMA AssignedMeans ==
    ASSUME NEW m \in Rows, NEW op \in Moves, NEW stamp \in Runs
    PROVE  LET new == Assigned(op, m, stamp) IN
           /\ new.status = "completed" => op = "complete"
           /\ new.status \in Begun => op \notin {"fail", "abort"}
           /\ new.run = IF op = "start" /\ stamp # 0 THEN stamp ELSE m.run
<1>1. CASE op \in {"start", "resume", "repondre"}
  BY <1>1 DEF Assigned, Rows
<1>2. CASE op \in {"mark_running", "complete", "fail", "abort"}
  BY <1>2 DEF Assigned, Rows, Begun
<1>3. CASE op \in {"pause", "poser", "expire"}
  BY <1>3 DEF Assigned, Rows
<1>4. CASE op \in {"suspend_link", "suspend_review"}
  BY <1>4 DEF Assigned, ToReview, Rows
<1>5. CASE op \in {"guard", "guard_uncertain"}
  <2>1. ASSUME NEW u \in BOOLEAN
        PROVE  /\ Corrected(m, u).status \in {"running", "waiting_user"}
               /\ Corrected(m, u).run = m.run
    <3>1. Tried(m).run = m.run /\ DOMAIN Tried(m) = DOMAIN m
      BY DEF Tried, Rows
    <3>2. \A n : DOMAIN n = DOMAIN m =>
             /\ SentBack(n).status = "running" /\ SentBack(n).run = n.run
             /\ ToReview(n).status = "waiting_user" /\ ToReview(n).run = n.run
      BY DEF SentBack, ToReview, Rows
    <3> QED
      BY <3>1, <3>2 DEF Corrected
  <2> QED
    BY <1>5, <2>1 DEF Assigned
<1> QED
  BY <1>1, <1>2, <1>3, <1>4, <1>5 DEF Moves

\* The commit leaves the status and the run alone, or writes the assigned ones.
LEMMA FlushedMeans ==
    ASSUME NEW op, NEW now, NEW seen, NEW new
    PROVE  /\ Flushed(op, now, seen, new).status \in {now.status, new.status}
           /\ Flushed(op, now, seen, new).run =
                 IF new.run = seen.run THEN now.run ELSE new.run
BY DEF Flushed

LEMMA WriteMeans ==
    ASSUME TypeOK, NEW a \in Actors, WriteStatus(a)
    PROVE  /\ tx[a].pc = "write"
           /\ \/ row'.run = row.run
              \/ tx[a].op = "start" /\ tx[a].stamp # 0 /\ row'.run = tx[a].stamp
           /\ tx[a].op = "start" /\ tx[a].stamp # 0 =>
                 row'.run = tx[a].stamp \/ (tx[a].seen.run # 0 /\ row'.run = row.run)
           /\ \/ row'.status = row.status
              \/ /\ row'.status = "completed" => tx[a].op = "complete"
                 /\ row'.status \in Begun => tx[a].op \notin {"fail", "abort"}
           /\ UNCHANGED <<runs, pass, req, receipts>>
           /\ tx'[a].pc = "none" /\ \A b \in Actors \ {a} : tx'[b] = tx[b]
<1>1. PICK x \in Transactions : x = tx[a]
  BY DEF TypeOK
<1>2. x.seen \in Rows /\ x.op \in Moves /\ x.stamp \in Runs
  BY DEF Transactions
<1>3. PICK new : new = Assigned(x.op, x.seen, x.stamp)
  OBVIOUS
<1>4. row' = Flushed(x.op, row, x.seen, new)
  BY <1>1, <1>3 DEF WriteStatus
<1>5. /\ row'.status \in {row.status, new.status}
      /\ row'.run = IF new.run = x.seen.run THEN row.run ELSE new.run
  BY <1>4, FlushedMeans
<1>6. /\ new.status = "completed" => x.op = "complete"
      /\ new.status \in Begun => x.op \notin {"fail", "abort"}
      /\ new.run = IF x.op = "start" /\ x.stamp # 0 THEN x.stamp ELSE x.seen.run
  BY <1>2, <1>3, AssignedMeans
<1>7. /\ tx[a].pc = "write" /\ UNCHANGED <<runs, pass, req, receipts>>
      /\ tx'[a].pc = "none" /\ \A b \in Actors \ {a} : tx'[b] = tx[b]
  BY ConstantsOK DEF WriteStatus, TypeOK
<1> QED
  BY <1>1, <1>5, <1>6, <1>7

\* Nothing but a change of status touches the status or the run, as long as nobody
\* restarts the mission.
LEMMA RowMoves ==
    ASSUME TypeOK, \A r \in Requests : req[r].op # "restart", [Next]_vars
    PROVE  \/ row'.status = row.status /\ row'.run = row.run
           \/ \E a \in Actors : WriteStatus(a)
<1>0. \A d \in {"never", "later", "now"} :
         /\ [row EXCEPT !.due = d].status = row.status
         /\ [row EXCEPT !.due = d].run = row.run
  BY DEF TypeOK, Rows
<1>1. /\ [row EXCEPT !.waiting = "none"].status = row.status
      /\ [row EXCEPT !.waiting = "none"].run = row.run
  BY DEF TypeOK, Rows
<1>2. ASSUME NEW p \in Passes, OpenTick(p) \/ PassStep(p)
      PROVE  row' = row \/ \E d \in {"never", "later", "now"} : row' = [row EXCEPT !.due = d]
  BY <1>2 DEF PassStep, OpenTick, TickBudget, TakeTick, Budget, Enter, ToolCall, Permission,
              Asked, Reserve, Claim, Invoke, Finish, Interrupted, Conclude, Outage, Broken,
              Close, Reschedule, Verify, Release
<1>3. ASSUME NEW r \in Requests, UserStep(r)
      PROVE  \/ row' = row \/ row' = [row EXCEPT !.due = "now"]
             \/ row' = [row EXCEPT !.waiting = "none"]
  BY <1>3 DEF UserStep, AskMove, After, AskRestart, CommitRestart, AskResolve, CommitResolve
<1>4. CASE BeatStep \/ Elapse \/ Crash \/ UNCHANGED vars
  BY <1>0, <1>4 DEF BeatStep, BeatResume, BeatList, Dispatch, Elapse, Crash, vars
<1>5. ASSUME NEW a \in Actors, ReadStatus(a) PROVE row' = row
  BY <1>5 DEF ReadStatus
<1> QED
  BY <1>0, <1>1, <1>2, <1>3, <1>4, <1>5 DEF Next

\* A run is handed out only to a mission that is in none.
LEMMA RunsMoves ==
    ASSUME TypeOK, [Next]_vars
    PROVE  runs' = runs \/ (row.run = 0 /\ runs' = runs + 1 /\ row' = row)
<1>1. ASSUME NEW p \in Passes, OpenTick(p) \/ PassStep(p)
      PROVE  runs' = runs \/ (row.run = 0 /\ runs' = runs + 1 /\ row' = row)
  <2>1. CASE TickBudget(p)
    BY <2>1 DEF TickBudget, Stamped
  <2>2. CASE ~TickBudget(p)
    BY <1>1, <2>2 DEF PassStep, OpenTick, TakeTick, Budget, Enter, ToolCall, Permission,
              Asked, Reserve, Claim, Invoke, Finish, Interrupted, Conclude, Outage, Broken,
              Close, Reschedule, Verify, Release
  <2> QED
    BY <2>1, <2>2
<1>2. ASSUME NEW r \in Requests, UserStep(r)
      PROVE  runs' = runs \/ (row.run = 0 /\ runs' = runs + 1 /\ row' = row)
  BY <1>2 DEF UserStep, AskMove, After, AskRestart, CommitRestart, AskResolve, CommitResolve,
              Stamped
<1>3. CASE BeatStep \/ Elapse \/ Crash \/ UNCHANGED vars
  BY <1>3 DEF BeatStep, BeatResume, BeatList, Dispatch, Elapse, Crash, vars
<1>4. ASSUME NEW a \in Actors, ReadStatus(a) \/ WriteStatus(a) PROVE runs' = runs
  BY <1>4 DEF ReadStatus, WriteStatus
<1> QED
  BY <1>1, <1>2, <1>3, <1>4 DEF Next

\* A mission in a run stays in one.
LEMMA RunStays ==
    ASSUME TypeOK, SettledInv, [Next]_vars, row.run # 0
    PROVE  row'.run # 0 /\ runs' = runs
<1>1. runs' = runs
  BY RunsMoves
<1>2. ASSUME NEW a \in Actors, WriteStatus(a) PROVE row'.run # 0
  BY <1>2, WriteMeans
<1>3. \A r \in Requests : req[r].op # "restart"
  BY DEF SettledInv, AskKnown
<1> QED
  BY <1>1, <1>2, <1>3, RowMoves

\* What a step does to the change of status of one actor.
Starts(a) ==
    \E op \in Moves, stamp \in Runs :
        /\ tx'[a] = [pc |-> "read", op |-> op, stamp |-> stamp, seen |-> row]
        /\ \/ op \notin {"start", "complete"} /\ stamp = 0
           \/ op = "start" /\ stamp = Stamp /\ Stamped /\ row' = row
           \/ op = "complete" /\ stamp = 0 /\ a \in Passes /\ Verify(a) /\ Doubtful = {}

Resumes(a) ==
    \E op \in {"resume", "expire"} :
        /\ tx'[a] = [pc |-> "write", op |-> op, stamp |-> 0, seen |-> row]
        /\ row.status = "paused" /\ row' = row

Reads(a) ==
    /\ tx[a].pc = "read" /\ row.status \in Sources(tx[a].op)
    /\ tx'[a] = [tx[a] EXCEPT !.pc = "write", !.seen = row]
    /\ row' = row

ChangeMoves(a) ==
    \/ tx'[a] = tx[a] \/ tx'[a] = NoTx \/ Reads(a) \/ Resumes(a) \/ Starts(a)

LEMMA BeginMeans ==
    ASSUME tx \in [Actors -> Transactions], NEW a \in Actors, NEW op, NEW stamp,
           Begin(a, op, stamp)
    PROVE  /\ tx'[a] = [pc |-> "read", op |-> op, stamp |-> stamp, seen |-> row]
           /\ \A b \in Actors \ {a} : tx'[b] = tx[b]
BY DEF Begin

LEMMA TxMoves ==
    ASSUME TypeOK, [Next]_vars, NEW a \in Actors
    PROVE  ChangeMoves(a)
<1>0. tx \in [Actors -> Transactions]
  BY DEF TypeOK
<1>1. ASSUME NEW b \in Actors, ReadStatus(b) \/ WriteStatus(b) PROVE ChangeMoves(a)
  <2>1. CASE a # b
    BY <1>0, <1>1, <2>1 DEF ReadStatus, WriteStatus, ChangeMoves
  <2>2. CASE a = b
    BY <1>0, <1>1, <2>2 DEF ReadStatus, WriteStatus, ChangeMoves, Reads
  <2> QED
    BY <2>1, <2>2
<1>2. ASSUME NEW b \in Actors, NEW op \in Moves \ {"start", "complete"}, Begin(b, op, 0)
      PROVE  ChangeMoves(a)
  BY <1>0, <1>2, BeginMeans, PCsAndMoves DEF ChangeMoves, Starts
<1>3. ASSUME NEW p \in Passes, PassStep(p) \/ OpenTick(p) PROVE ChangeMoves(a)
  <2>1. CASE TickBudget(p)
    <3>1. ASSUME CanStamp, Stamped, Begin(p, "start", Stamp) PROVE ChangeMoves(a)
      <4>1. Stamp \in Runs /\ row' = row
        BY <2>1, <3>1, StampOK DEF TypeOK, TickBudget
      <4> QED
        BY <1>0, <3>1, <4>1, BeginMeans, ActorsOK, PCsAndMoves DEF ChangeMoves, Starts
    <3> QED
      BY <1>2, <2>1, <3>1, ActorsOK, PCsAndMoves DEF TickBudget, ChangeMoves
  <2>2. CASE Verify(p)
    <3>1. ASSUME Doubtful = {}, Begin(p, "complete", 0) PROVE ChangeMoves(a)
      BY <1>0, <2>2, <3>1, BeginMeans, ActorsOK, PCsAndMoves DEF ChangeMoves, Starts
    <3>2. \/ Doubtful = {} /\ Begin(p, "complete", 0)
          \/ Begin(p, "guard", 0) \/ Begin(p, "guard_uncertain", 0)
      BY <2>2 DEF Verify
    <3> QED
      BY <1>2, <3>1, <3>2, ActorsOK, PCsAndMoves
  <2>3. CASE ~TickBudget(p) /\ ~Verify(p)
    <3>1. \/ UNCHANGED tx
          \/ \E op \in {"fail", "mark_running", "suspend_review", "suspend_link", "poser"} :
                Begin(p, op, 0)
      BY <1>3, <2>3 DEF PassStep, OpenTick, TakeTick, Budget, Enter, ToolCall, Permission,
              Asked, Reserve, Claim, Invoke, Finish, Interrupted, Conclude, Outage, Broken,
              Close, Reschedule, Release
    <3> QED
      BY <1>2, <3>1, ActorsOK, PCsAndMoves DEF ChangeMoves
  <2> QED
    BY <2>1, <2>2, <2>3
<1>4. ASSUME NEW r \in Requests, UserStep(r) PROVE ChangeMoves(a)
  <2>1. CASE AskMove(r)
    <3>1. ASSUME CanStamp, Stamped, Begin(r, "start", Stamp) PROVE ChangeMoves(a)
      <4>1. Stamp \in Runs /\ row' = row
        BY <2>1, <3>1, StampOK DEF TypeOK, AskMove
      <4> QED
        BY <1>0, <3>1, <4>1, BeginMeans, ActorsOK, PCsAndMoves DEF ChangeMoves, Starts
    <3>2. \/ CanStamp /\ Stamped /\ Begin(r, "start", Stamp)
          \/ \E op \in {"pause", "abort", "repondre"} : Begin(r, op, 0)
      BY <2>1 DEF AskMove
    <3> QED
      BY <1>2, <3>1, <3>2, ActorsOK, PCsAndMoves
  <2>2. CASE ~AskMove(r)
    BY <1>4, <2>2 DEF UserStep, After, AskRestart, CommitRestart, AskResolve, CommitResolve,
                      ChangeMoves
  <2> QED
    BY <2>1, <2>2
<1>5. CASE BeatResume
  <2>1. CASE a = Beat
    <3>1. PICK op \in {"resume", "expire"} :
            tx' = [tx EXCEPT ![Beat] = [pc |-> "write", op |-> op, stamp |-> 0, seen |-> row]]
      BY <1>5 DEF BeatResume
    <3> QED
      BY <1>0, <1>5, <2>1, <3>1 DEF BeatResume, ChangeMoves, Resumes
  <2>2. CASE a # Beat
    BY <1>0, <1>5, <2>2 DEF BeatResume, ChangeMoves
  <2> QED
    BY <2>1, <2>2
<1>6. CASE BeatList \/ Dispatch \/ Elapse \/ Crash \/ UNCHANGED vars
  BY <1>6 DEF BeatList, Dispatch, Elapse, Crash, vars, ChangeMoves
<1> QED
  BY <1>1, <1>3, <1>4, <1>5, <1>6 DEF Next, BeatStep

\* A task in the middle of a change of status stays where it is.
LEMMA TaskWaits ==
    ASSUME TypeOK, [Next]_vars, NEW p \in Passes, tx[p].pc # "none"
    PROVE  pass'[p] = pass[p] \/ Crash
<1>1. ASSUME NEW q \in Passes, Works(q) PROVE pass'[p] = pass[p]
  <2>1. tx[q].pc = "none"
    BY <1>1 DEF Works, Budget, Enter, ToolCall, Permission, Asked, Interrupted, Conclude,
                Outage, Broken, Close, Reschedule, Verify, At
  <2> QED
    BY <1>1, <2>1, WorkPlaces
<1>2. ASSUME NEW q \in Passes, Reserve(q) \/ Claim(q) \/ Invoke(q) \/ Finish(q)
      PROVE  pass'[p] = pass[p]
  <2>1. tx[q].pc = "none"
    BY <1>2 DEF Reserve, Claim, Invoke, Finish, At
  <2> QED
    BY <1>2, <2>1, CallPlaces
<1>3. ASSUME NEW q \in Passes, OpenTick(q) \/ TickBudget(q) \/ TakeTick(q) \/ Release(q)
      PROVE  pass'[p] = pass[p]
  <2>1. tx[q].pc = "none"
    BY <1>3 DEF OpenTick, TickBudget, TakeTick, Release, At
  <2> QED
    BY <1>3, <2>1, DoorPlaces
<1>4. CASE Dispatch
  <2>1. \/ pass' = pass
        \/ \E q \in Passes : tx[q].pc = "none" /\ \E new : pass' = [pass EXCEPT ![q] = new]
    BY <1>4 DEF Dispatch, At
  <2> QED
    BY <2>1 DEF TypeOK
<1> QED
  BY <1>1, <1>2, <1>3, <1>4, NextCases, OtherPlaces

\* A passage gets to work on a mission that is alive.
LEMMA WorkMoves ==
    ASSUME TypeOK, [Next]_vars, NEW p \in Passes, pass'[p].pc \in Working
    PROVE  pass[p].pc \in Working \/ (row.status \in Alive /\ row' = row)
<1>1. ASSUME NEW q \in Passes, Works(q), q = p
      PROVE  pass[p].pc \in Working \/ (row.status \in Alive /\ row' = row)
  <2>1. CASE pass[p].pc \in Working
    BY <2>1
  <2>2. CASE Enter(p) /\ row.status \in Alive
    BY <2>2 DEF Enter
  <2>3. CASE \/ Enter(p) /\ row.status \notin Alive
             \/ Budget(p) \/ Close(p) \/ Reschedule(p) \/ Verify(p)
    <3>1. PICK pc \in {"release", "close", "enter", "reschedule", "verify"} : Goto(p, pc)
      BY <2>3 DEF Enter, Budget, Close, Reschedule, Verify
    <3>2. pass'[p].pc = pc
      BY <3>1, GotoOK, PCsAndMoves DEF TypeOK
    <3> QED
      BY <3>1, <3>2 DEF Working
  <2>4. CASE Interrupted(p)
    <3>1. PICK out : pass' = [pass EXCEPT ![p] = [pass[p] EXCEPT !.pc = "close", !.outcome = out]]
      BY <2>4 DEF Interrupted
    <3>2. [pass[p] EXCEPT !.pc = "close", !.outcome = out].pc = "close"
      BY DEF TypeOK, PassRecords
    <3>3. pass'[p].pc = "close"
      BY <3>1, <3>2, SetPlaces DEF TypeOK
    <3> QED
      BY <3>3 DEF Working
  <2>5. \/ pass[p].pc \in Working \/ Enter(p) \/ Budget(p) \/ Close(p) \/ Reschedule(p)
        \/ Verify(p) \/ Interrupted(p)
    BY <1>1 DEF Works, ToolCall, Permission, Asked, Conclude, Outage, Broken, At, Working
  <2> QED
    BY <2>1, <2>2, <2>3, <2>4, <2>5
<1>2. ASSUME NEW q \in Passes, Works(q), q # p PROVE pass[p].pc \in Working
  BY <1>2, WorkPlaces
<1>3. ASSUME NEW q \in Passes, Reserve(q) \/ Claim(q) \/ Invoke(q) \/ Finish(q)
      PROVE  pass[p].pc \in Working
  <2>1. CASE q = p
    BY <1>3, <2>1 DEF Reserve, Claim, Invoke, Finish, At, Working
  <2>2. CASE q # p
    BY <1>3, <2>2, CallPlaces
  <2> QED
    BY <2>1, <2>2
<1>4. ASSUME NEW q \in Passes, OpenTick(q) \/ TickBudget(q) \/ TakeTick(q) \/ Release(q)
      PROVE  pass[p].pc \in Working
  BY <1>4, DoorPlaces DEF Working
<1>5. CASE Dispatch
  BY <1>5, DispatchPlaces DEF Working
<1>6. CASE Crash
  BY <1>6, CrashPlaces DEF Working
<1> QED
  BY <1>1, <1>2, <1>3, <1>4, <1>5, <1>6, NextCases, OtherPlaces

\* The three steps that write a receipt.
LEMMA ClaimMeans ==
    ASSUME TypeOK, NEW p \in Passes, NEW k, k = pass[p].key, Claim(p)
    PROVE  /\ pass[p].pc = "claim" /\ k \in Keys /\ UNCHANGED <<row, runs>>
           /\ \/ receipts' = receipts /\ pass'[p].pc = "loop"
              \/ /\ pass'[p].pc = "invoke" /\ pass'[p].key = k
                 /\ receipts'[k].status = "started"
                 /\ receipts'[k].born = IF pass[p].fresh THEN runs ELSE receipts[k].born
                 /\ \A j \in Keys \ {k} : receipts'[j] = receipts[j]
<1>1. pass[p].pc = "claim" /\ k \in Keys /\ UNCHANGED <<row, runs>>
  BY DEF Claim, At, TypeOK
<1>2. CASE Goto(p, "loop") /\ UNCHANGED receipts
  BY <1>1, <1>2, GotoOK, PCsAndMoves DEF TypeOK
<1>3. ASSUME Goto(p, "invoke"), NEW b, b = IF pass[p].fresh THEN runs ELSE receipts[k].born,
             receipts' = [receipts EXCEPT ![k] = Receipt("started", b)]
      PROVE  /\ pass'[p].pc = "invoke" /\ pass'[p].key = k
             /\ receipts'[k].status = "started" /\ receipts'[k].born = b
             /\ \A j \in Keys \ {k} : receipts'[j] = receipts[j]
  <2>1. pass'[p].pc = "invoke" /\ pass'[p].key = k
    BY <1>3, GotoOK DEF TypeOK, PassPCs
  <2> QED
    BY <1>1, <1>3, <2>1 DEF Receipt, TypeOK
<1> QED
  BY <1>1, <1>2, <1>3 DEF Claim

LEMMA StatusMeans ==
    ASSUME receipts \in [Keys -> ReceiptRows], NEW k \in Keys, NEW s \in ReceiptStatuses,
           receipts' = [receipts EXCEPT ![k].status = s]
    PROVE  /\ receipts'[k].status = s /\ receipts'[k].born = receipts[k].born
           /\ \A j \in Keys \ {k} : receipts'[j] = receipts[j]
<1>1. receipts' = [receipts EXCEPT ![k] = [receipts[k] EXCEPT !.status = s]]
  OBVIOUS
<1>2. /\ [receipts[k] EXCEPT !.status = s].status = s
      /\ [receipts[k] EXCEPT !.status = s].born = receipts[k].born
  BY DEF ReceiptRows
<1> QED
  BY <1>1, <1>2

\* A step writes no receipt, or one of a mission in a run: a passage at work does, or
\* the user, who settles it.
ReceiptWritten(k) ==
    /\ \A j \in Keys \ {k} : receipts'[j] = receipts[j]
    /\ Kept(k)'
    /\ receipts'[k].born = runs \/ (Kept(k) /\ receipts'[k].born = receipts[k].born)
    /\ \/ receipts'[k].status \notin Unresolved
       \/ \E p \in Passes : pass[p].pc \in {"claim", "finish"}

LEMMA ReceiptMoves ==
    ASSUME TypeOK, SettledInv, [Next]_vars
    PROVE  \/ receipts' = receipts
           \/ row.run # 0 /\ UNCHANGED <<row, runs>> /\ \E k \in Keys : ReceiptWritten(k)
<1>1. ASSUME NEW p \in Passes, Claim(p), receipts' # receipts
      PROVE  row.run # 0 /\ UNCHANGED <<row, runs>> /\ \E k \in Keys : ReceiptWritten(k)
  <2>1. PICK k : k = pass[p].key
    OBVIOUS
  <2>2. row.run # 0
    BY <1>1, ClaimMeans DEF SettledInv, AtWork, Working
  <2>3. pass[p].fresh \/ Kept(k)
    BY <1>1, <2>1, ClaimMeans DEF SettledInv, KeyKnown
  <2>4. k \in Keys /\ ReceiptWritten(k)
    BY <1>1, <2>1, <2>3, ClaimMeans DEF ReceiptWritten, Kept
  <2> QED
    BY <1>1, <2>2, <2>4, ClaimMeans
<1>2. ASSUME NEW p \in Passes, Finish(p)
      PROVE  row.run # 0 /\ UNCHANGED <<row, runs>> /\ \E k \in Keys : ReceiptWritten(k)
  <2>1. pass[p].pc = "finish" /\ pass[p].key \in Keys /\ UNCHANGED <<row, runs>>
    BY <1>2 DEF Finish, At, TypeOK
  <2>2. PICK s \in {"success", "uncertain"} :
          receipts' = [receipts EXCEPT ![pass[p].key].status = s]
    BY <1>2 DEF Finish
  <2>3. row.run # 0 /\ Kept(pass[p].key)
    BY <2>1 DEF SettledInv, AtWork, KeyKnown, Working
  <2>4. PICK k \in Keys : k = pass[p].key
    BY <2>1
  <2>5. s \in ReceiptStatuses /\ receipts \in [Keys -> ReceiptRows]
    BY DEF ReceiptStatuses, TypeOK
  <2>6. /\ receipts'[k].status = s /\ receipts'[k].born = receipts[k].born
        /\ \A j \in Keys \ {k} : receipts'[j] = receipts[j]
    BY <2>2, <2>4, <2>5, StatusMeans
  <2>7. ReceiptWritten(k)
    BY <2>1, <2>3, <2>4, <2>6 DEF ReceiptWritten, Kept
  <2> QED
    BY <2>1, <2>3, <2>7
<1>3. ASSUME NEW r \in Requests, CommitResolve(r)
      PROVE  row.run # 0 /\ UNCHANGED <<row, runs>> /\ \E k \in Keys : ReceiptWritten(k)
  <2>1. req[r].pc = "commit" /\ req[r].key \in Keys /\ UNCHANGED <<row, runs>>
    BY <1>3 DEF CommitResolve, TypeOK
  <2>2. PICK s \in {"human_confirmed", "retry_allowed"} :
          receipts' = [receipts EXCEPT ![req[r].key].status = s]
    BY <1>3 DEF CommitResolve
  <2>3. Kept(req[r].key)
    BY <2>1 DEF SettledInv, AskKnown
  <2>4. row.run # 0
    BY <2>1, <2>3 DEF SettledInv, BornNow
  <2>5. PICK k \in Keys : k = req[r].key
    BY <2>1
  <2>6. s \in ReceiptStatuses /\ receipts \in [Keys -> ReceiptRows]
    BY DEF ReceiptStatuses, TypeOK
  <2>7. /\ receipts'[k].status = s /\ receipts'[k].born = receipts[k].born
        /\ \A j \in Keys \ {k} : receipts'[j] = receipts[j]
    BY <2>2, <2>5, <2>6, StatusMeans
  <2>8. ReceiptWritten(k)
    BY <2>3, <2>5, <2>7 DEF ReceiptWritten, Kept, Unresolved
  <2> QED
    BY <2>1, <2>4, <2>8
<1>4. ASSUME NEW p \in Passes, PassStep(p) \/ OpenTick(p), ~Claim(p), ~Finish(p)
      PROVE  receipts' = receipts
  BY <1>4 DEF PassStep, OpenTick, TickBudget, TakeTick, Budget, Enter, ToolCall, Permission,
              Asked, Reserve, Invoke, Interrupted, Conclude, Outage, Broken, Close,
              Reschedule, Verify, Release, ledger
<1>5. ASSUME NEW r \in Requests, UserStep(r), ~CommitResolve(r) PROVE receipts' = receipts
  BY <1>5 DEF UserStep, AskMove, After, AskRestart, CommitRestart, AskResolve, ledger
<1>6. CASE BeatStep \/ Elapse \/ Crash \/ UNCHANGED vars
  BY <1>6 DEF BeatStep, BeatResume, BeatList, Dispatch, Elapse, Crash, vars, ledger
<1>7. ASSUME NEW a \in Actors, ReadStatus(a) \/ WriteStatus(a) PROVE receipts' = receipts
  BY <1>7 DEF ReadStatus, WriteStatus
<1> QED
  BY <1>1, <1>2, <1>3, <1>4, <1>5, <1>6, <1>7 DEF Next

LEMMA KeptStays ==
    ASSUME TypeOK, SettledInv, [Next]_vars, NEW k \in Keys, Kept(k)
    PROVE  Kept(k)'
BY ReceiptMoves DEF ReceiptWritten, Kept

LEMMA BornStep ==
    ASSUME TypeOK, SettledInv, [Next]_vars, NEW k \in Keys
    PROVE  BornNow(k)'
<1>1. CASE receipts' = receipts
  BY <1>1, RunStays DEF SettledInv, BornNow, Kept
<1>2. ASSUME row.run # 0, UNCHANGED <<row, runs>>, NEW j \in Keys, ReceiptWritten(j)
      PROVE  BornNow(k)'
  <2>1. CASE k = j
    BY <1>2, <2>1 DEF SettledInv, BornNow, ReceiptWritten
  <2>2. CASE k # j
    BY <1>2, <2>2 DEF SettledInv, BornNow, ReceiptWritten, Kept
  <2> QED
    BY <2>1, <2>2
<1> QED
  BY <1>1, <1>2, ReceiptMoves

\* While no passage is at a receipt, none comes to be in doubt.
LEMMA SettledStays ==
    ASSUME TypeOK, SettledInv, [Next]_vars, Settled,
           \A p \in Passes : pass[p].pc \notin {"claim", "finish"}
    PROVE  Settled'
<1>1. CASE receipts' = receipts
  BY <1>1 DEF Settled
<1>2. ASSUME NEW k \in Keys, ReceiptWritten(k) PROVE Settled'
  BY <1>2 DEF Settled, ReceiptWritten
<1> QED
  BY <1>1, <1>2, ReceiptMoves

LEMMA RowStep ==
    ASSUME TypeOK, SettledInv, [Next]_vars
    PROVE  RowKnown'
<1>0. \A r \in Requests : req[r].op # "restart"
  BY DEF SettledInv, AskKnown
<1>1. ASSUME NEW a \in Actors, WriteStatus(a) PROVE RowKnown'
  <2>1. row.run # 0 => row'.run # 0
    BY RunStays
  <2>2. row'.status \in Begun => row'.run # 0
    <3>1. CASE row'.status = row.status
      BY <2>1, <3>1 DEF SettledInv, RowKnown
    <3>2. ASSUME row'.status \in Begun, tx[a].op \notin {"fail", "abort"} PROVE row'.run # 0
      <4>1. CASE tx[a].op # "start"
        BY <1>1, <2>1, <3>2, <4>1, WriteMeans DEF SettledInv, ChangeKnown
      <4>2. CASE tx[a].op = "start" /\ tx[a].stamp = 0
        BY <1>1, <2>1, <4>2, WriteMeans DEF SettledInv, ChangeKnown
      <4>3. CASE tx[a].op = "start" /\ tx[a].stamp # 0
        BY <1>1, <2>1, <4>3, WriteMeans DEF SettledInv, ChangeKnown
      <4> QED
        BY <4>1, <4>2, <4>3
    <3> QED
      BY <1>1, <3>1, <3>2, WriteMeans
  <2>3. row'.run <= runs'
    BY <1>1, WriteMeans DEF SettledInv, RowKnown, ChangeKnown
  <2>4. ASSUME row'.status = "completed" PROVE Settled'
    <3>1. Settled
      BY <1>1, <2>4, WriteMeans DEF SettledInv, RowKnown, ChangeKnown
    <3>2. receipts' = receipts
      BY <1>1, WriteMeans
    <3> QED
      BY <3>1, <3>2 DEF Settled
  <2> QED
    BY <2>2, <2>3, <2>4 DEF RowKnown
<1>2. CASE row'.status = row.status /\ row'.run = row.run
  <2>1. row'.run <= runs'
    <3>1. row.run <= runs /\ row.run \in Nat /\ runs \in Nat
      BY RowFields, BoundsAssumption DEF SettledInv, RowKnown, TypeOK, Runs
    <3> QED
      BY <1>2, <3>1, RunsMoves
  <2>2. ASSUME row'.status = "completed" PROVE Settled'
    <3>1. Settled /\ \A p \in Passes : pass[p].pc \notin {"claim", "finish"}
      BY <1>2, <2>2 DEF SettledInv, RowKnown, AtWork, Working
    <3> QED
      BY <3>1, SettledStays
  <2> QED
    BY <1>2, <2>1, <2>2 DEF SettledInv, RowKnown
<1> QED
  BY <1>0, <1>1, <1>2, RowMoves

\* All changes but a start, a failure and an abort are accepted in a run only.
LEMMA SourcesBegun ==
    ASSUME NEW op \in Moves \ {"start", "fail", "abort"}
    PROVE  Sources(op) \subseteq Begun
BY DEF Sources, Moves, Begun, Alive

\* A change to "completed" in progress: the passage it ends waits for it, and nobody else
\* writes receipts.
LEMMA CompletionStep ==
    ASSUME TypeOK, OnePassage, SettledInv, [Next]_vars, NEW a \in Actors,
           tx[a].pc # "none", tx[a].op = "complete", tx'[a].pc # "none"
    PROVE  a \in Passes /\ pass'[a].pc = "release" /\ Settled'
<1>1. a \in Passes /\ pass[a].pc = "release" /\ Settled
  BY DEF SettledInv, ChangeKnown
<1>2. ~Crash
  BY ConstantsOK DEF Crash
<1>3. pass'[a] = pass[a]
  BY <1>1, <1>2, TaskWaits
<1>4. \A p \in Passes : pass[p].pc \notin {"claim", "finish"}
  BY <1>1 DEF OnePassage, Holds, Holding, PassPCs
<1> QED
  BY <1>1, <1>3, <1>4, SettledStays

LEMMA VerifyMeans ==
    ASSUME TypeOK, SettledInv, NEW p \in Passes, Verify(p), Doubtful = {}
    PROVE  pass'[p].pc = "release" /\ Settled'
<1>1. pass'[p].pc = "release"
  BY GotoOK, PCsAndMoves DEF Verify, TypeOK
<1>2. ASSUME NEW k \in Keys, receipts[k].status \in Unresolved PROVE FALSE
  <2>1. row.run <= receipts[k].born
    BY <1>2 DEF SettledInv, BornNow, Kept, RowKnown, Unresolved
  <2>2. row.run \in Nat /\ receipts[k].born \in Nat
    BY RowFields DEF TypeOK, ReceiptRows, Runs
  <2>3. SinceStart(k)
    BY <2>1, <2>2 DEF SinceStart
  <2> QED
    BY <1>2, <2>3 DEF Doubtful
<1>3. receipts' = receipts
  BY DEF Verify, ledger
<1> QED
  BY <1>1, <1>2, <1>3 DEF Settled

LEMMA ChangeStep ==
    ASSUME TypeOK, OnePassage, SettledInv, [Next]_vars, NEW a \in Actors
    PROVE  ChangeKnown(a)'
<1>0. PICK x \in Transactions : x = tx[a]
  BY DEF TypeOK
<1>10. PICK y : y = tx'[a]
  OBVIOUS
<1>1. x.op \in Moves /\ x.stamp \in Nat /\ runs \in Nat /\ row.run \in Nat
  BY RowFields DEF Transactions, TypeOK, Runs
<1>2. runs <= runs' /\ runs' \in Nat /\ (row.run # 0 => row'.run # 0)
  BY <1>1, RunsMoves, RunStays
<1>3. /\ x.pc # "none" /\ x.op = "start" => x.stamp # 0 \/ row.run # 0
      /\ x.pc = "write" /\ x.op \notin {"start", "fail", "abort"} => row.run # 0
      /\ x.seen.run # 0 => row.run # 0
      /\ x.stamp <= runs
  BY <1>0 DEF SettledInv, ChangeKnown
<1>5. CASE y = x
  <2>1. x.stamp <= runs'
    BY <1>1, <1>2, <1>3
  <2> QED
    BY <1>0, <1>10, <1>2, <1>3, <1>5, <2>1, CompletionStep DEF ChangeKnown
<1>6. CASE y = NoTx
  <2>1. NoTx.pc = "none" /\ NoTx.seen.run = 0 /\ NoTx.stamp = 0
    BY DEF NoTx, NewRow
  <2>2. 0 <= runs'
    BY <1>1, <1>2, RunsMoves
  <2> QED
    BY <1>0, <1>10, <1>6, <2>1, <2>2 DEF ChangeKnown
<1>7. CASE Reads(a)
  <2>1. /\ y.pc = "write" /\ y.op = x.op /\ y.stamp = x.stamp /\ y.seen = row
        /\ x.pc = "read" /\ row.status \in Sources(x.op)
    BY <1>0, <1>10, <1>7 DEF Reads, Transactions
  <2>2. x.op \notin {"start", "fail", "abort"} => row.run # 0
    BY <1>1, <2>1, SourcesBegun DEF SettledInv, RowKnown
  <2>3. x.stamp <= runs'
    BY <1>1, <1>2, <1>3
  <2>4. x.op = "complete" => a \in Passes /\ pass'[a].pc = "release" /\ Settled'
    BY <1>0, <1>10, <2>1, CompletionStep
  <2> QED
    BY <1>0, <1>10, <1>2, <1>3, <2>1, <2>2, <2>3, <2>4 DEF ChangeKnown
<1>8. CASE Resumes(a)
  <2>1. PICK op \in {"resume", "expire"} :
          /\ y = [pc |-> "write", op |-> op, stamp |-> 0, seen |-> row]
          /\ row.status = "paused"
    BY <1>0, <1>10, <1>8 DEF Resumes
  <2>2. row.run # 0
    BY <2>1 DEF SettledInv, RowKnown, Begun
  <2>3. 0 <= runs'
    BY <1>1, <1>2, RunsMoves
  <2> QED
    BY <1>0, <1>10, <1>2, <2>1, <2>2, <2>3 DEF ChangeKnown
<1>9. CASE Starts(a)
  <2>1. PICK op \in Moves, stamp \in Runs :
          /\ y = [pc |-> "read", op |-> op, stamp |-> stamp, seen |-> row]
          /\ \/ op \notin {"start", "complete"} /\ stamp = 0
             \/ op = "start" /\ stamp = Stamp /\ Stamped /\ row' = row
             \/ op = "complete" /\ stamp = 0 /\ a \in Passes /\ Verify(a) /\ Doubtful = {}
    BY <1>0, <1>10, <1>9 DEF Starts
  <2>2. y.pc = "read" /\ y.op = op /\ y.stamp = stamp /\ y.seen = row
    BY <2>1
  <2>3. op = "start" => stamp # 0 \/ row'.run # 0
    BY <1>1, <2>1 DEF Stamp
  <2>4. stamp <= runs'
    BY <1>1, <1>2, <2>1, RunsMoves DEF Stamp, Stamped
  <2>5. op = "complete" => a \in Passes /\ pass'[a].pc = "release" /\ Settled'
    BY <2>1, VerifyMeans
  <2> QED
    BY <1>0, <1>10, <1>2, <2>2, <2>3, <2>4, <2>5 DEF ChangeKnown
<1> QED
  BY <1>0, <1>10, <1>5, <1>6, <1>7, <1>8, <1>9, TxMoves DEF ChangeMoves

LEMMA AtWorkStep ==
    ASSUME TypeOK, OnePassage, SettledInv, [Next]_vars, NEW p \in Passes
    PROVE  AtWork(p)'
<1> SUFFICES ASSUME pass'[p].pc \in Working
             PROVE  row'.run # 0 /\ row'.status # "completed"
  BY DEF AtWork
<1>1. row.run # 0 /\ row.status # "completed"
  <2>1. CASE pass[p].pc \in Working
    BY <2>1 DEF SettledInv, AtWork
  <2>2. CASE row.status \in Alive
    BY <2>2 DEF SettledInv, RowKnown, Alive, Begun
  <2> QED
    BY <2>1, <2>2, WorkMoves
<1>2. row'.run # 0
  BY <1>1, RunStays
<1>3. ASSUME NEW a \in Actors, WriteStatus(a) PROVE row'.status # "completed"
  <2>1. pass'[p] = pass[p]
    BY <1>3, WriteMeans
  <2>2. Holds(p) /\ pass[p].pc # "release"
    BY <2>1 DEF Holds, Holding, PassPCs, Working
  <2>3. ASSUME tx[a].op = "complete" PROVE FALSE
    <3>1. a \in Passes /\ pass[a].pc = "release"
      BY <1>3, <2>3, WriteMeans DEF SettledInv, ChangeKnown
    <3>2. Holds(a)
      BY <3>1 DEF Holds, Holding, PassPCs
    <3> QED
      BY <2>2, <3>1, <3>2 DEF OnePassage
  <2> QED
    BY <1>1, <1>3, <2>3, WriteMeans
<1>4. \A r \in Requests : req[r].op # "restart"
  BY DEF SettledInv, AskKnown
<1> QED
  BY <1>1, <1>2, <1>3, <1>4, RowMoves

LEMMA KeyStep ==
    ASSUME TypeOK, SettledInv, [Next]_vars, NEW p \in Passes
    PROVE  KeyKnown(p)'
<1>0. pass \in [Passes -> PassRecords] /\ pass[p] \in PassRecords
  BY DEF TypeOK
<1>1. CASE pass'[p] = pass[p]
  <2>1. pass[p].pc \in {"claim", "invoke", "finish"} => pass[p].key \in Keys
    BY DEF TypeOK
  <2>2. (pass[p].pc = "claim" /\ ~pass[p].fresh) \/ pass[p].pc \in {"invoke", "finish"}
          => Kept(pass[p].key) /\ pass[p].key \in Keys
    BY <2>1 DEF SettledInv, KeyKnown
  <2>3. \A k \in Keys : Kept(k) => Kept(k)'
    BY KeptStays
  <2> QED
    BY <1>1, <2>2, <2>3 DEF KeyKnown, Kept
<1>2. CASE pass'[p].pc \notin {"claim", "invoke", "finish"}
  BY <1>2 DEF KeyKnown
<1>3. CASE Reserve(p)
  <2>1. receipts' = receipts /\ \A a \in Actions : <<row.run, a>> \in Keys
    BY <1>3, RowFields DEF Reserve, ledger, Keys, TypeOK
  <2>2. CASE Goto(p, "loop")
    BY <1>0, <1>2, <2>2, GotoOK, PCsAndMoves DEF PassPCs
  <2>3. ASSUME NEW k \in Keys, Hold(p, k) PROVE KeyKnown(p)'
    <3>1. /\ pass'[p].pc = "claim" /\ pass'[p].key = k
          /\ pass'[p].fresh = (receipts[k].status = "absent")
      BY <1>0, <2>3, HoldOK
    <3> QED
      BY <2>1, <3>1 DEF KeyKnown, Kept
  <2> QED
    BY <1>3, <2>1, <2>2, <2>3 DEF Reserve
<1>4. CASE Claim(p)
  <2>1. PICK k : k = pass[p].key
    OBVIOUS
  <2>2. \/ pass'[p].pc = "loop"
        \/ pass'[p].pc = "invoke" /\ pass'[p].key = k /\ receipts'[k].status = "started"
    BY <1>4, <2>1, ClaimMeans
  <2> QED
    BY <2>2 DEF KeyKnown, Kept
<1>5. CASE Invoke(p)
  <2>1. PICK ok : pass' = [pass EXCEPT ![p] = [pass[p] EXCEPT !.pc = "finish", !.ok = ok]]
    BY <1>5 DEF Invoke
  <2>2. [pass[p] EXCEPT !.pc = "finish", !.ok = ok].key = pass[p].key
    BY <1>0 DEF PassRecords
  <2>3. pass'[p].key = pass[p].key /\ pass[p].key \in Keys /\ Kept(pass[p].key)
    BY <1>0, <1>5, <2>1, <2>2, SetPlaces DEF Invoke, At, TypeOK, SettledInv, KeyKnown
  <2>4. receipts' = receipts
    BY <1>5 DEF Invoke
  <2> QED
    BY <2>3, <2>4 DEF KeyKnown, Kept
<1>6. CASE Finish(p)
  <2>1. PICK new : /\ pass' = [pass EXCEPT ![p] = new]
                   /\ new = [pass[p] EXCEPT !.pc = "loop", !.key = NoKey, !.ok = TRUE,
                                            !.fresh = TRUE]
    BY <1>6 DEF Finish
  <2>2. new.pc = "loop"
    BY <1>0, <2>1 DEF PassRecords
  <2>3. pass'[p].pc = "loop"
    BY <1>0, <2>1, <2>2, SetPlaces
  <2> QED
    BY <1>2, <2>3
<1>7. ASSUME NEW q \in Passes, Works(q) PROVE KeyKnown(p)'
  BY <1>1, <1>2, <1>7, WorkPlaces
<1>8. ASSUME NEW q \in Passes, q # p, Reserve(q) \/ Claim(q) \/ Invoke(q) \/ Finish(q)
      PROVE  KeyKnown(p)'
  BY <1>1, <1>8, CallPlaces
<1>9. ASSUME NEW q \in Passes, OpenTick(q) \/ TickBudget(q) \/ TakeTick(q) \/ Release(q)
      PROVE  KeyKnown(p)'
  BY <1>1, <1>2, <1>9, DoorPlaces
<1>10. CASE Dispatch
  BY <1>1, <1>2, <1>10, DispatchPlaces
<1>11. CASE Crash
  BY <1>2, <1>11, CrashPlaces
<1> QED
  BY <1>1, <1>3, <1>4, <1>5, <1>6, <1>7, <1>8, <1>9, <1>10, <1>11, NextCases, OtherPlaces

\* The requests of the user change by his own steps, are refused, or go with the process.
LEMMA AskMoves ==
    ASSUME TypeOK, [Next]_vars, NEW r \in Requests
    PROVE  req'[r] = req[r] \/ req'[r] = NoReq \/ UserStep(r)
<1>1. ASSUME NEW p \in Passes, PassStep(p) \/ OpenTick(p) PROVE req' = req
  BY <1>1 DEF PassStep, OpenTick, TickBudget, TakeTick, Budget, Enter, ToolCall, Permission,
              Asked, Reserve, Claim, Invoke, Finish, Interrupted, Conclude, Outage, Broken,
              Close, Reschedule, Verify, Release
<1>2. ASSUME NEW q \in Requests, UserStep(q), q # r PROVE req'[r] = req[r]
  BY <1>2 DEF UserStep, AskMove, After, AskRestart, CommitRestart, AskResolve, CommitResolve,
              TypeOK
<1>3. CASE BeatStep \/ Elapse \/ Crash \/ UNCHANGED vars
  BY <1>3 DEF BeatStep, BeatResume, BeatList, Dispatch, Elapse, Crash, vars
<1>4. ASSUME NEW a \in Actors, ReadStatus(a) \/ WriteStatus(a)
      PROVE  req'[r] = req[r] \/ req'[r] = NoReq
  BY <1>4 DEF ReadStatus, WriteStatus, TypeOK
<1> QED
  BY <1>1, <1>2, <1>3, <1>4 DEF Next

LEMMA AskStep ==
    ASSUME TypeOK, SettledInv, [Next]_vars, "restart" \notin Asks, NEW r \in Requests
    PROVE  AskKnown(r)'
<1>1. CASE req'[r] = req[r]
  <2>1. req[r].pc = "commit" => req[r].key \in Keys
    BY DEF TypeOK, SettledInv, AskKnown
  <2>2. \A k \in Keys : Kept(k) => Kept(k)'
    BY KeptStays
  <2> QED
    BY <1>1, <2>1, <2>2 DEF SettledInv, AskKnown, Kept
<1>2. CASE req'[r] = NoReq
  BY <1>2 DEF AskKnown, NoReq
<1>3. CASE AskMove(r)
  <2>1. PICK op \in Asks \intersect {"start", "pause", "abort", "repondre"} :
          req' = [req EXCEPT ![r] = [pc |-> "after", op |-> op, key |-> NoKey]]
    BY <1>3 DEF AskMove
  <2>2. req'[r].pc = "after" /\ req'[r].op = op
    BY <2>1 DEF TypeOK
  <2> QED
    BY <2>2 DEF AskKnown
<1>4. CASE AskResolve(r)
  <2>1. PICK k \in Keys, op \in Asks \intersect {"done", "retry"} :
          /\ receipts[k].status \in Unresolved
          /\ req' = [req EXCEPT ![r] = [pc |-> "commit", op |-> op, key |-> k]]
    BY <1>4 DEF AskResolve
  <2>2. req'[r].op = op /\ req'[r].key = k
    BY <2>1 DEF TypeOK
  <2>3. receipts' = receipts
    BY <1>4 DEF AskResolve, ledger
  <2> QED
    BY <2>1, <2>2, <2>3 DEF AskKnown, Kept, Unresolved
<1>5. CASE After(r) \/ CommitRestart(r) \/ CommitResolve(r)
  BY <1>2, <1>5 DEF After, CommitRestart, CommitResolve, TypeOK
<1>6. CASE AskRestart(r)
  BY <1>6 DEF AskRestart
<1> QED
  BY <1>1, <1>2, <1>3, <1>4, <1>5, <1>6, AskMoves DEF UserStep

LEMMA SettledInit == Init => SettledInv
<1> SUFFICES ASSUME Init PROVE SettledInv
  OBVIOUS
<1>1. RowKnown
  BY DEF Init, RowKnown, NewRow, Begun
<1>2. ASSUME NEW a \in Actors PROVE ChangeKnown(a)
  BY <1>2 DEF Init, ChangeKnown, NoTx, NewRow
<1>3. ASSUME NEW k \in Keys PROVE BornNow(k)
  BY <1>3 DEF Init, BornNow, Kept, Receipt
<1>4. ASSUME NEW p \in Passes PROVE AtWork(p) /\ KeyKnown(p)
  BY <1>4, ConstantsOK DEF Init, AtWork, KeyKnown, Working
<1>5. ASSUME NEW r \in Requests PROVE AskKnown(r)
  BY <1>5 DEF Init, AskKnown, NoReq
<1> QED
  BY <1>1, <1>2, <1>3, <1>4, <1>5 DEF SettledInv

\* A mission is completed only when no write call of its is left started or uncertain,
\* whatever passages, requests and restarts of the backend meet (CompletedIsSettled); as
\* long as its user does not restart the mission: two restarts let one be completed over
\* a call in doubt.
THEOREM CompletionIsClean ==
    ASSUME "restart" \notin Asks
    PROVE  Spec => []CompletedIsSettled
<1>1. TypeOK /\ OnePassage /\ SettledInv /\ [Next]_vars => SettledInv'
  BY RowStep, ChangeStep, BornStep, AtWorkStep, KeyStep, AskStep DEF SettledInv
<1>2. SettledInv => CompletedIsSettled
  BY DEF SettledInv, RowKnown, Settled, Unresolved, CompletedIsSettled
<1> QED
  BY <1>1, <1>2, SettledInit, TypeCorrect, PassageIsAlone, PTL DEF Spec
===============================================================================
