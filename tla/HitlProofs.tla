------------------------------ MODULE HitlProofs ------------------------------
(***************************************************************************)
(* Theorems about HitlManager for any number of requests, callers, faults  *)
(* and restarts.                                                           *)
(***************************************************************************)
EXTENDS HitlManager, TLAPS

-----------------------------------------------------------------------------
(* Lemmas about the records the model is built from. *)

LEMMA ObjectOK ==
    /\ NewObject \in Objects
    /\ \A o \in Objects :
          /\ Verdict(o.decision, o.reason) \in Verdicts
          /\ TimedOut(o) \in Objects
    /\ \A d \in Decisions : [decision |-> d, reason |-> "none", event |-> TRUE] \in Objects
BY DEF NewObject, TimedOut, Objects, Verdicts, Verdict, Decisions, Approvals

LEMMA VerdictOK ==
    /\ Verdicts \subseteq Rows /\ Verdicts \subseteq Outcomes
    /\ Absent \in Rows /\ Open \in Rows /\ NoVerdict \in Outcomes
    /\ \A d \in Decisions : Verdict(d, "none") \in Verdicts
    /\ Verdict("deny", "none") \in Verdicts
BY DEF Rows, Outcomes, Verdicts, Verdict, Decisions

LEMMA IdleOK == Idle \in Calls /\ Idle.pc = "idle"
BY DEF Idle, Calls, CallPCs, Decisions

LEMMA NewCallOK ==
    ASSUME NEW a \in Actions, NEW d \in Decisions, NEW p \in CallPCs, NEW h \in BOOLEAN
    PROVE  [pc |-> p, action |-> a, decision |-> d, held |-> h] \in Calls
BY DEF Calls

\* Moving a caller to another place of its code changes nothing else of it.
LEMMA MoveOK ==
    ASSUME NEW k \in Calls, NEW p \in CallPCs
    PROVE  LET new == [k EXCEPT !.pc = p] IN
           /\ new \in Calls /\ new.pc = p
           /\ new.action = k.action /\ new.decision = k.decision /\ new.held = k.held
BY DEF Calls

LEMMA NextPCs ==
    {"idle", "banOwner", "rule", "owner", "persist", "recheck", "apply", "accepted",
     "rejected", "lost"} \subseteq CallPCs
BY DEF CallPCs

LEMMA AdvanceOK ==
    ASSUME call \in [Callers -> Calls], NEW c \in Callers, NEW p \in CallPCs, Advance(c, p)
    PROVE  /\ call' \in [Callers -> Calls]
           /\ call'[c].pc = p /\ call'[c].action = call[c].action
           /\ call'[c].decision = call[c].decision /\ call'[c].held = call[c].held
           /\ \A x \in Callers \ {c} : call'[x] = call[x]
<1>1. call' = [call EXCEPT ![c] = [call[c] EXCEPT !.pc = p]]
  BY DEF Advance
<1>2. LET new == [call[c] EXCEPT !.pc = p] IN
      /\ new \in Calls /\ new.pc = p
      /\ new.action = call[c].action /\ new.decision = call[c].decision
      /\ new.held = call[c].held
  BY MoveOK
<1> QED
  BY <1>1, <1>2

\* ReadOwner as a move that also notes whether the entry is in memory.
LEMMA ReadOwnerOK ==
    ASSUME TypeOK, NEW c \in Callers, ReadOwner(c)
    PROVE  /\ call' \in [Callers -> Calls]
           /\ call'[c].pc \in {"persist", "rejected"}
           /\ call'[c].pc = "persist" => MayAnswer(c, call[c].action)
           /\ call'[c].action = call[c].action /\ call'[c].decision = call[c].decision
           /\ \A x \in Callers \ {c} : call'[x] = call[x]
<1> DEFINE a == call[c].action
           d == call[c].decision
           p == IF row[a] = Open /\ MayAnswer(c, a) THEN "persist" ELSE "rejected"
           new == [pc |-> p, action |-> a, decision |-> d, held |-> a \in pending]
<1>1. p \in CallPCs /\ "rejected" \in CallPCs /\ (a \in pending) \in BOOLEAN
  BY NextPCs
<1>2. new \in Calls
  <2>1. a \in Actions /\ d \in Decisions
    BY DEF TypeOK, ReadOwner, Calls
  <2> HIDE DEF a, d, p
  <2> QED
    BY <1>1, <2>1, NewCallOK
<1>3. CASE call' = [call EXCEPT ![c] = new]
  <2>1. call'[c] = new /\ call' \in [Callers -> Calls]
        /\ \A x \in Callers \ {c} : call'[x] = call[x]
    <3> HIDE DEF new
    <3> QED
      BY <1>2, <1>3 DEF TypeOK
  <2> QED
    BY <2>1
<1>4. CASE Advance(c, "rejected")
  BY <1>1, <1>4, AdvanceOK DEF TypeOK
<1>5. call' = [call EXCEPT ![c] = new] \/ Advance(c, "rejected")
  BY DEF ReadOwner
<1> QED
  BY <1>3, <1>4, <1>5

\* ResolveFromRouter enters the code of resolve, or turns the caller away.
LEMMA ResolveOK ==
    ASSUME TypeOK, NEW c \in Callers, NEW a \in Actions, NEW d \in Decisions,
           ResolveFromRouter(c, a, d)
    PROVE  /\ call' \in [Callers -> Calls]
           /\ call'[c].pc \in {"owner", "persist", "rejected"}
           /\ call'[c].pc = "persist" => MayAnswer(c, a)
           /\ call'[c].action = a /\ call'[c].decision = d
           /\ \A x \in Callers \ {c} : call'[x] = call[x]
<1> DEFINE p == IF a \notin pending THEN "owner"
                ELSE IF MayAnswer(c, a) THEN "persist" ELSE "rejected"
           new == [pc |-> p, action |-> a, decision |-> d, held |-> a \in pending]
<1>1. p \in CallPCs /\ (a \in pending) \in BOOLEAN
  BY NextPCs
<1>2. new \in Calls
  <2> HIDE DEF p
  <2> QED
    BY <1>1, NewCallOK
<1>3. call' = [call EXCEPT ![c] = new]
  BY DEF ResolveFromRouter
<1>4. call'[c] = new /\ call' \in [Callers -> Calls]
      /\ \A x \in Callers \ {c} : call'[x] = call[x]
  BY <1>2, <1>3 DEF TypeOK
<1> QED
  BY <1>4

LEMMA CrashOK ==
    ASSUME TypeOK, Crash
    PROVE  /\ call' \in [Callers -> Calls]
           /\ \A c \in Callers :
                /\ call'[c].action = call[c].action /\ call'[c].decision = call[c].decision
                /\ call'[c].pc = call[c].pc \/ (call'[c].pc = "lost" /\ call[c].pc # "idle")
                /\ call'[c].pc \in {"idle", "accepted", "rejected", "lost"}
<1>1. ASSUME NEW c \in Callers
      PROVE  /\ call'[c] \in Calls
             /\ call'[c].action = call[c].action /\ call'[c].decision = call[c].decision
             /\ call'[c].pc = call[c].pc \/ (call'[c].pc = "lost" /\ call[c].pc # "idle")
             /\ call'[c].pc \in {"idle", "accepted", "rejected", "lost"}
  <2>1. CASE call[c].pc \in {"idle", "accepted", "rejected"}
    BY <2>1 DEF Crash, TypeOK
  <2>2. CASE call[c].pc \notin {"idle", "accepted", "rejected"}
    <3>1. call'[c] = [call[c] EXCEPT !.pc = "lost"]
      BY <2>2 DEF Crash
    <3> QED
      BY <2>2, <3>1, MoveOK, NextPCs DEF TypeOK
  <2> QED
    BY <2>1, <2>2
<1>2. call' = [c \in Callers |-> call'[c]]
  BY DEF Crash
<1> QED
  BY <1>1, <1>2

\* The clean-up of a finished wait keeps the type of what it writes.
LEMMA CleanUpOK ==
    ASSUME TypeOK, NEW a \in Actions, NEW obj \in Objects, NEW p \in WaiterPCs,
           CleanUp(a, obj, p)
    PROVE  TypeOK'
BY ObjectOK DEF TypeOK, CleanUp, Goto

-----------------------------------------------------------------------------
\* The type invariant holds in every reachable state: in particular a caller
\* that has started always points to a request, and every verdict that is
\* recorded or returned is one of the five decisions.
THEOREM TypeCorrect == Spec => []TypeOK
<1>1. Init => TypeOK
  BY BoundAssumption, ObjectOK, VerdictOK, IdleOK DEF Init, TypeOK, WaiterPCs
<1>2. TypeOK /\ [Next]_vars => TypeOK'
  <2> SUFFICES ASSUME TypeOK, [Next]_vars PROVE TypeOK'
    OBVIOUS
  <2> USE BoundAssumption DEF TypeOK
  <2>1. ASSUME NEW a \in Actions, Request(a) PROVE TypeOK'
    BY <2>1, ObjectOK DEF Request, Goto, WaiterPCs
  <2>2. ASSUME NEW a \in Actions, Notify(a) PROVE TypeOK'
    BY <2>2 DEF Notify
  <2>3. ASSUME NEW a \in Actions, PersistRequest(a) PROVE TypeOK'
    BY <2>3, VerdictOK DEF PersistRequest, Goto, Fault, WaiterPCs
  <2>4. ASSUME NEW a \in Actions, StartWait(a) PROVE TypeOK'
    BY <2>4 DEF StartWait, Goto, WaiterPCs
  <2>5. ASSUME NEW a \in Actions, Wake(a) PROVE TypeOK'
    BY <2>5, CleanUpOK DEF Wake, WaiterPCs
  <2>6. ASSUME NEW a \in Actions, Timeout(a) PROVE TypeOK'
    BY <2>6, CleanUpOK, ObjectOK DEF Timeout, WaiterPCs
  <2>7. ASSUME NEW a \in Actions, RecordVerdict(a) PROVE TypeOK'
    BY <2>7, VerdictOK DEF RecordVerdict, UpdatePendingRow, Goto, Fault, WaiterPCs
  <2>8. ASSUME NEW a \in Actions, Return(a) PROVE TypeOK'
    BY <2>8, ObjectOK, VerdictOK DEF Return, Goto, WaiterPCs
  <2>9. ASSUME NEW a \in Actions, Act(a) PROVE TypeOK'
    BY <2>9 DEF Act, Goto, Fault, WaiterPCs
  <2>10. ASSUME NEW a \in Actions, Cancel(a) PROVE TypeOK'
    <3>1. CASE CleanUp(a, object[a], "unwinding")
      BY <3>1, CleanUpOK DEF WaiterPCs
    <3>2. CASE ~CleanUp(a, object[a], "unwinding")
      BY <2>10, <3>2 DEF Cancel, Goto, WaiterPCs
    <3> QED
      BY <3>1, <3>2
  <2>11. ASSUME NEW a \in Actions, ListFromMemory(a) PROVE TypeOK'
    BY <2>11 DEF ListFromMemory, Fault
  <2>12. ASSUME NEW c \in Callers, NEW a \in Actions, NEW d \in Choices, Click(c, a, d)
         PROVE TypeOK'
    BY <2>12, ChoiceAssumption, ResolveOK DEF Click
  <2>13. ASSUME NEW c \in Callers, NEW a \in Actions, NEW d \in Choices, Press(c, a, d)
         PROVE TypeOK'
    <3>1. (a \in pending) \in BOOLEAN
      OBVIOUS
    <3>2. [pc |-> "persist", action |-> a, decision |-> d, held |-> a \in pending] \in Calls
      BY <3>1, ChoiceAssumption, NewCallOK, NextPCs
    <3> QED
      BY <2>13, <3>2 DEF Press
  <2>14. ASSUME NEW c \in Callers, NEW a \in Actions, ClickBan(c, a) PROVE TypeOK'
    <3> DEFINE p == IF a \notin pending THEN "banOwner"
                    ELSE IF MayAnswer(c, a) THEN "rule" ELSE "rejected"
    <3>1. [pc |-> p, action |-> a, decision |-> "ban", held |-> FALSE] \in Calls
      BY NewCallOK, NextPCs DEF Decisions
    <3> QED
      BY <2>14, <3>1 DEF ClickBan
  <2>15. ASSUME NEW c \in Callers, BanReadOwner(c) PROVE TypeOK'
    BY <2>15, AdvanceOK, NextPCs DEF BanReadOwner, Fault
  <2>16. ASSUME NEW c \in Callers, StoreRule(c) PROVE TypeOK'
    BY <2>16, ResolveOK DEF StoreRule, Fault, Decisions
  <2>17. ASSUME NEW c \in Callers, ReadOwner(c) PROVE TypeOK'
    BY <2>17, ReadOwnerOK DEF ReadOwner, Fault
  <2>18. ASSUME NEW c \in Callers, Settle(c) PROVE TypeOK'
    <3>1. PICK p \in {"apply", "accepted", "recheck", "rejected"} : Advance(c, p)
      BY <2>18 DEF Settle
    <3>2. call[c].decision \in Decisions
      BY DEF Calls
    <3>3. row' \in [Actions -> Rows]
      BY <2>18, <3>2, VerdictOK DEF Settle, UpdatePendingRow
    <3> QED
      BY <2>18, <3>1, <3>3, AdvanceOK, NextPCs DEF Settle, Fault
  <2>19. ASSUME NEW c \in Callers, Recheck(c) PROVE TypeOK'
    BY <2>19, AdvanceOK, NextPCs DEF Recheck, Fault
  <2>20. ASSUME NEW c \in Callers, Apply(c) PROVE TypeOK'
    <3>1. call[c].decision \in Decisions
      BY DEF Calls
    <3> QED
      BY <2>20, <3>1, ObjectOK, AdvanceOK, NextPCs DEF Apply
  <2>21. CASE Crash
    BY <2>21, CrashOK DEF Crash, WaiterPCs
  <2>22. CASE UNCHANGED vars
    BY <2>22 DEF vars
  <2> QED
    BY <2>1, <2>2, <2>3, <2>4, <2>5, <2>6, <2>7, <2>8, <2>9, <2>10, <2>11, <2>12,
       <2>13, <2>14, <2>15, <2>16, <2>17, <2>18, <2>19, <2>20, <2>21, <2>22
       DEF Next, WaiterStep, CallerStep
<1> QED
  BY <1>1, <1>2, PTL DEF Spec

-----------------------------------------------------------------------------
(* An action runs only because a person entitled to answer approved it. *)

ApprovedBy(a, c) ==
    /\ Accepted(c) /\ call[c].action = a /\ Entitled(c, a)
    /\ call[c].decision \in Approvals

Approved(a) == \E c \in Callers : ApprovedBy(a, c)

\* The approval travels from the caller to the object, to what
\* request_validation returns, to the gateway; every caller that reached the
\* database has passed the ownership check.
HumanInv ==
    /\ \A c \in Callers : call[c].pc \in {"persist", "recheck", "apply", "accepted"}
                            => Entitled(c, call[c].action)
    /\ \A a \in Actions : object[a].decision \in Approvals => Approved(a)
    /\ \A a \in Actions : outcome[a].decision \in Approvals => Approved(a)
    /\ \A a \in ran : Approved(a)

\* An approval is never taken back: an accepted call does not move any more.
LEMMA ApprovedStays ==
    ASSUME TypeOK, NEW a \in Actions, Approved(a),
           \A c \in Callers : call[c].pc = "accepted" =>
              /\ call'[c].pc = "accepted" /\ call'[c].action = call[c].action
              /\ call'[c].decision = call[c].decision
    PROVE  Approved(a)'
BY DEF Approved, ApprovedBy, Accepted, Entitled

LEMMA CallStep ==
    ASSUME TypeOK, Next
    PROVE  \A c \in Callers : call[c].pc = "accepted" =>
              /\ call'[c].pc = "accepted" /\ call'[c].action = call[c].action
              /\ call'[c].decision = call[c].decision
<1> SUFFICES ASSUME NEW c \in Callers, call[c].pc = "accepted"
             PROVE  /\ call'[c].pc = "accepted" /\ call'[c].action = call[c].action
                    /\ call'[c].decision = call[c].decision
  OBVIOUS
<1>1. CASE UNCHANGED call
  BY <1>1
<1>2. ASSUME NEW x \in Callers, NEW a \in Actions, NEW d \in Choices,
             Click(x, a, d) \/ Press(x, a, d) \/ ClickBan(x, a)
      PROVE  call'[c] = call[c]
  BY <1>2 DEF Click, Press, ClickBan, ResolveFromRouter, TypeOK
<1>3. ASSUME NEW x \in Callers, CallerStep(x)
      PROVE  call'[c] = call[c]
  BY <1>3 DEF CallerStep, BanReadOwner, StoreRule, ReadOwner, Settle, Recheck, Apply,
              Advance, ResolveFromRouter, TypeOK
<1>4. CASE Crash
  BY <1>4 DEF Crash, TypeOK
<1>5. ASSUME NEW a \in Actions,
             Request(a) \/ Notify(a) \/ WaiterStep(a) \/ Cancel(a) \/ ListFromMemory(a)
      PROVE  UNCHANGED call
  BY <1>5 DEF Request, Notify, WaiterStep, PersistRequest, StartWait, Wake, Timeout,
              RecordVerdict, Return, Act, Cancel, CleanUp, ListFromMemory
<1> QED
  BY <1>1, <1>2, <1>3, <1>4, <1>5 DEF Next

\* For every number of callers, restarts and failing database calls: nothing
\* runs that no entitled person approved (OnlyHumansApprove).
THEOREM HumanApproval == Spec => []OnlyHumansApprove
<1>1. Init => HumanInv
  BY DEF Init, HumanInv, Idle, NewObject, NoVerdict, Verdict, Approvals
<1>2. TypeOK /\ HumanInv /\ [Next]_vars => HumanInv'
  <2> SUFFICES ASSUME TypeOK, HumanInv, [Next]_vars PROVE HumanInv'
    OBVIOUS
  <2>1. CASE UNCHANGED vars
    BY <2>1 DEF vars, HumanInv, Approved, ApprovedBy, Accepted, Entitled
  <2>2. CASE Next
    <3> DEFINE CallsEntitled == \A c \in Callers :
                 call[c].pc \in {"persist", "recheck", "apply", "accepted"}
                   => Entitled(c, call[c].action)
    <3>1. \A a \in Actions : Approved(a) => Approved(a)'
      BY <2>2, CallStep, ApprovedStays
    <3>2. SUFFICES /\ CallsEntitled'
                   /\ \A a \in Actions : object'[a].decision \in Approvals =>
                        object[a].decision \in Approvals \/ Approved(a)'
                   /\ \A a \in Actions : outcome'[a].decision \in Approvals =>
                        outcome[a].decision \in Approvals \/ object[a].decision \in Approvals
                   /\ \A a \in ran' : a \in ran \/ (a \in Actions /\ outcome[a].decision \in Approvals)
      BY <3>1 DEF HumanInv, TypeOK
    <3>3. ASSUME NEW a \in Actions,
                 Request(a) \/ Notify(a) \/ PersistRequest(a) \/ StartWait(a) \/ Wake(a)
                 \/ RecordVerdict(a) \/ Cancel(a) \/ ListFromMemory(a)
          PROVE  /\ UNCHANGED <<call, outcome, ran>>
                 /\ \A b \in Actions : object'[b] = object[b] \/ object'[b].decision = "deny"
      BY <3>3 DEF Request, Notify, PersistRequest, StartWait, Wake, RecordVerdict, Cancel,
                  ListFromMemory, CleanUp, NewObject, TypeOK
    <3>4. ASSUME NEW a \in Actions, Timeout(a)
          PROVE  /\ UNCHANGED <<call, outcome, ran>>
                 /\ \A b \in Actions : object'[b] = object[b] \/ object'[b].decision = "deny"
      <4>1. object[a] \in Objects
        BY DEF TypeOK
      <4>2. TimedOut(object[a]).decision = "deny"
        BY <4>1 DEF TimedOut, Objects
      <4> QED
        BY <3>4, <4>2 DEF Timeout, CleanUp, TypeOK
    <3>5. ASSUME NEW a \in Actions, Return(a) \/ Act(a)
          PROVE  /\ UNCHANGED <<call, object>>
                 /\ \A b \in Actions : outcome'[b] = outcome[b]
                                       \/ outcome'[b].decision = object[b].decision
                 /\ \A b \in ran' : b \in ran \/ (b \in Actions /\ outcome[b].decision \in Approvals)
      BY <3>5 DEF Return, Act, Verdict, TypeOK
    <3>6. ASSUME NEW c \in Callers, NEW a \in Actions, NEW d \in Decisions,
                 Click(c, a, d) \/ Press(c, a, d) \/ ClickBan(c, a)
          PROVE  CallsEntitled' /\ UNCHANGED <<object, outcome, ran>>
      BY <3>6, ChannelAssumption DEF Click, Press, ClickBan, ResolveFromRouter, MayAnswer,
               Entitled, HumanInv, TypeOK
    <3>7. ASSUME NEW c \in Callers, StoreRule(c)
          PROVE  CallsEntitled' /\ UNCHANGED <<object, outcome, ran>>
      <4>1. call[c].action \in Actions /\ "ban" \in Decisions
        BY <3>7 DEF StoreRule, TypeOK, Decisions
      <4> QED
        BY <3>7, <4>1, ResolveOK DEF StoreRule, MayAnswer, Entitled, HumanInv
    <3>8. ASSUME NEW c \in Callers, ReadOwner(c)
          PROVE  CallsEntitled' /\ UNCHANGED <<object, outcome, ran>>
      BY <3>8, ReadOwnerOK DEF ReadOwner, MayAnswer, Entitled, HumanInv
    <3>9. ASSUME NEW c \in Callers, BanReadOwner(c)
          PROVE  CallsEntitled' /\ UNCHANGED <<object, outcome, ran>>
      <4>1. PICK p \in {"rejected", "rule"} : Advance(c, p)
        BY <3>9 DEF BanReadOwner
      <4> QED
        BY <3>9, <4>1, AdvanceOK, NextPCs DEF BanReadOwner, Entitled, HumanInv, TypeOK
    <3>10. ASSUME NEW c \in Callers, Settle(c) \/ Recheck(c)
           PROVE  CallsEntitled' /\ UNCHANGED <<object, outcome, ran>>
      <4>1. PICK p \in {"apply", "accepted", "recheck", "rejected"} : Advance(c, p)
        BY <3>10 DEF Settle, Recheck
      <4>2. Entitled(c, call[c].action)
        BY <3>10 DEF Settle, Recheck, HumanInv
      <4>3. UNCHANGED <<object, outcome, ran>>
        BY <3>10 DEF Settle, Recheck
      <4> QED
        BY <4>1, <4>2, <4>3, AdvanceOK, NextPCs DEF Entitled, HumanInv, TypeOK
    <3>11. ASSUME NEW c \in Callers, Apply(c)
           PROVE  /\ CallsEntitled' /\ UNCHANGED <<outcome, ran>>
                  /\ \A b \in Actions : object'[b].decision \in Approvals =>
                        object[b].decision \in Approvals \/ Approved(b)'
      <4>1. /\ Entitled(c, call[c].action) /\ call[c].action \in Actions
            /\ Advance(c, "accepted")
        BY <3>11 DEF Apply, HumanInv, TypeOK
      <4>2. CallsEntitled'
        BY <4>1, AdvanceOK, NextPCs DEF Entitled, HumanInv, TypeOK
      <4>a. PICK a \in Actions : a = call[c].action
        BY <4>1
      <4>3. \A b \in Actions \ {a} : object'[b] = object[b]
        BY <3>11, <4>a DEF Apply, TypeOK
      <4>4. object'[a].decision = call[c].decision
        BY <3>11, <4>1, <4>a DEF Apply, TypeOK
      <4>5. call[c].decision \in Approvals => Approved(a)'
        <5>1. call'[c].pc = "accepted" /\ call'[c].action = call[c].action
              /\ call'[c].decision = call[c].decision
          BY <4>1, AdvanceOK, NextPCs DEF TypeOK
        <5> QED
          BY <4>1, <4>a, <5>1 DEF Approved, ApprovedBy, Accepted, Entitled
      <4>6. \A b \in Actions : object'[b].decision \in Approvals =>
                object[b].decision \in Approvals \/ Approved(b)'
        BY <4>3, <4>4, <4>5
      <4>7. UNCHANGED <<outcome, ran>>
        BY <3>11 DEF Apply
      <4> QED
        BY <4>2, <4>6, <4>7
    <3>12. CASE Crash
      <4>1. UNCHANGED <<object, outcome, ran>>
        BY <3>12 DEF Crash
      <4>2. CallsEntitled'
        BY <3>12, CrashOK DEF Entitled, HumanInv
      <4> QED
        BY <4>1, <4>2
    <3>13. CallsEntitled /\ UNCHANGED call => CallsEntitled'
      BY DEF Entitled
    <3>14. CallsEntitled
      BY DEF HumanInv
    <3>15. "deny" \notin Approvals /\ Choices \subseteq Decisions
      BY ChoiceAssumption DEF Approvals
    <3> HIDE DEF CallsEntitled
    <3>16. CASE \E a \in Actions : Request(a) \/ Notify(a) \/ WaiterStep(a) \/ Cancel(a)
                                   \/ ListFromMemory(a)
      BY <3>3, <3>4, <3>5, <3>13, <3>14, <3>15, <3>16 DEF WaiterStep
    <3>17. CASE \E c \in Callers : CallerStep(c)
      BY <3>7, <3>8, <3>9, <3>10, <3>11, <3>17 DEF CallerStep
    <3>18. CASE \E c \in Callers, a \in Actions :
                  \/ \E d \in Choices : Click(c, a, d) \/ Press(c, a, d)
                  \/ ClickBan(c, a)
      <4>1. "ban" \in Decisions
        BY DEF Decisions
      <4> QED
        BY <3>6, <3>15, <3>18, <4>1
    <3> QED
      BY <2>2, <3>12, <3>16, <3>17, <3>18 DEF Next
  <2> QED
    BY <2>1, <2>2
<1>3. HumanInv => OnlyHumansApprove
  BY DEF HumanInv, OnlyHumansApprove, Approved, ApprovedBy
<1> QED
  BY <1>1, <1>2, <1>3, TypeCorrect, PTL DEF Spec

-----------------------------------------------------------------------------
(* The row, and what memory may show of it while no database call fails. *)

LEMMA RowKinds ==
    /\ Open # Absent /\ Open \notin Verdicts /\ Absent \notin Verdicts
    /\ \A v \in Verdicts : v.decision \in Decisions
    /\ Open.decision \notin Decisions /\ Absent.decision \notin Decisions
    /\ \A v \in Rows : v = Absent \/ v = Open \/ v \in Verdicts
BY DEF Open, Absent, Verdict, Verdicts, Rows, Decisions, Approvals

\* A request has no row before its coroutine wrote one.
FreshRows == \A a \in Actions : waiter[a] \in {"new", "persisting"} => row[a] = Absent

\* One step moves a row forward only: absent, pending, settled.
LEMMA RowStep ==
    ASSUME TypeOK, FreshRows, Next
    PROVE  \A a \in Actions : \/ row'[a] = row[a]
                              \/ row[a] = Absent /\ row'[a] = Open /\ waiter[a] = "persisting"
                              \/ row[a] = Open /\ row'[a] \in Verdicts
<1>1. ASSUME NEW a \in Actions, PersistRequest(a)
      PROVE  \A b \in Actions : \/ row'[b] = row[b]
                                \/ row[b] = Absent /\ row'[b] = Open /\ waiter[b] = "persisting"
  BY <1>1 DEF PersistRequest, FreshRows, TypeOK
<1>2. ASSUME NEW a \in Actions, RecordVerdict(a)
      PROVE  \A b \in Actions : row'[b] = row[b] \/ (row[b] = Open /\ row'[b] \in Verdicts)
  BY <1>2 DEF RecordVerdict, UpdatePendingRow, TypeOK
<1>3. ASSUME NEW c \in Callers, Settle(c)
      PROVE  \A b \in Actions : row'[b] = row[b] \/ (row[b] = Open /\ row'[b] \in Verdicts)
  <2>1. Verdict(call[c].decision, "none") \in Verdicts
    BY VerdictOK DEF TypeOK, Calls
  <2> QED
    BY <1>3, <2>1 DEF Settle, UpdatePendingRow, TypeOK
<1>4. ASSUME NEW a \in Actions,
             Request(a) \/ Notify(a) \/ StartWait(a) \/ Wake(a) \/ Timeout(a) \/ Return(a)
             \/ Act(a) \/ Cancel(a) \/ ListFromMemory(a)
      PROVE  UNCHANGED row
  BY <1>4 DEF Request, Notify, StartWait, Wake, Timeout, CleanUp, Return, Act, Cancel,
              ListFromMemory
<1>5. ASSUME NEW c \in Callers, NEW a \in Actions, NEW d \in Choices,
             Click(c, a, d) \/ Press(c, a, d)
      PROVE  UNCHANGED row
  BY <1>5 DEF Click, Press
<1>6. ASSUME NEW c \in Callers, NEW a \in Actions, ClickBan(c, a) PROVE UNCHANGED row
  BY <1>6 DEF ClickBan
<1>7. ASSUME NEW c \in Callers,
             BanReadOwner(c) \/ StoreRule(c) \/ ReadOwner(c) \/ Recheck(c) \/ Apply(c)
      PROVE  UNCHANGED row
  BY <1>7 DEF BanReadOwner, StoreRule, ReadOwner, Recheck, Apply
<1>8. CASE Crash
  BY <1>8 DEF Crash
<1> QED
  BY <1>1, <1>2, <1>3, <1>4, <1>5, <1>6, <1>7, <1>8 DEF Next, WaiterStep, CallerStep

LEMMA FreshStep ==
    ASSUME TypeOK, FreshRows, [Next]_vars
    PROVE  FreshRows'
<1>1. CASE UNCHANGED vars
  BY <1>1 DEF vars, FreshRows
<1>2. CASE Next
  <2>1. \A a \in Actions : waiter'[a] \in {"new", "persisting"} =>
           waiter[a] \in {"new", "persisting"} /\ (waiter[a] = "persisting" => waiter'[a] = waiter[a])
    <3>1. ASSUME NEW a \in Actions, Request(a) \/ Notify(a) \/ WaiterStep(a) \/ Cancel(a)
                                   \/ ListFromMemory(a)
          PROVE  \A b \in Actions : waiter'[b] \in {"new", "persisting"} =>
                    waiter[b] \in {"new", "persisting"}
                    /\ (waiter[b] = "persisting" => waiter'[b] = waiter[b])
      BY <3>1 DEF Request, Notify, WaiterStep, PersistRequest, StartWait, Wake, Timeout,
                  CleanUp, RecordVerdict, Return, Act, Cancel, ListFromMemory, Goto, TypeOK
    <3>2. ASSUME NEW c \in Callers, NEW a \in Actions,
                 \/ \E d \in Choices : Click(c, a, d) \/ Press(c, a, d)
                 \/ ClickBan(c, a) \/ CallerStep(c)
          PROVE  UNCHANGED waiter
      BY <3>2 DEF Click, Press, ClickBan, CallerStep, BanReadOwner, StoreRule, ReadOwner,
                  Settle, Recheck, Apply
    <3>3. ASSUME NEW c \in Callers, CallerStep(c) PROVE UNCHANGED waiter
      BY <3>3 DEF CallerStep, BanReadOwner, StoreRule, ReadOwner, Settle, Recheck, Apply
    <3>4. CASE Crash
      BY <3>4 DEF Crash, Alive
    <3> QED
      BY <1>2, <3>1, <3>2, <3>3, <3>4 DEF Next
  <2>2. \A a \in Actions : waiter[a] \in {"new", "persisting"} /\ row'[a] # row[a] =>
           waiter'[a] \notin {"new", "persisting"}
    <3>1. ASSUME NEW a \in Actions, PersistRequest(a)
          PROVE  \A b \in Actions : row'[b] # row[b] => waiter'[b] = "notifying"
      BY <3>1 DEF PersistRequest, Goto, TypeOK
    <3>2. ASSUME NEW b \in Actions, waiter[b] \in {"new", "persisting"}, row'[b] # row[b]
          PROVE  \E a \in Actions : PersistRequest(a)
      <4>1. row[b] = Absent /\ row'[b] = Open
        BY <1>2, <3>2, RowStep, RowKinds DEF FreshRows
      <4>2. ASSUME NEW a \in Actions, RecordVerdict(a) PROVE row'[b] = row[b]
        BY <4>1, <4>2, RowKinds DEF RecordVerdict, UpdatePendingRow, TypeOK
      <4>3. ASSUME NEW c \in Callers, Settle(c) PROVE row'[b] = row[b]
        BY <4>1, <4>3, RowKinds DEF Settle, UpdatePendingRow, TypeOK
      <4> QED
        BY <1>2, <3>2, <4>2, <4>3
           DEF Next, WaiterStep, CallerStep, Request, Notify, StartWait, Wake, Timeout, CleanUp,
               Return, Act, Cancel, ListFromMemory, Click, Press, ClickBan, BanReadOwner,
               StoreRule, ReadOwner, Recheck, Apply, Crash
    <3> QED
      BY <3>1, <3>2
  <2> QED
    BY <2>1, <2>2 DEF FreshRows
<1> QED
  BY <1>1, <1>2

\* A settled row stays as it is for ever, whatever races for it (VerdictIsFinal).
THEOREM FinalVerdict == Spec => VerdictIsFinal
<1>1. Init => FreshRows
  BY DEF Init, FreshRows
<1>2. TypeOK /\ FreshRows /\ [Next]_vars => FreshRows'
  BY FreshStep
<1>3. TypeOK /\ FreshRows /\ [Next]_vars
        => [\A a \in Actions : Settled(a) => row'[a] = row[a]]_vars
  <2> SUFFICES ASSUME TypeOK, FreshRows, Next
               PROVE  \A a \in Actions : Settled(a) => row'[a] = row[a]
    OBVIOUS
  <2> QED
    BY RowStep, RowKinds DEF Settled
<1> QED
  BY <1>1, <1>2, <1>3, TypeCorrect, PTL DEF Spec, VerdictIsFinal

-----------------------------------------------------------------------------
(* What memory shows is on record, as long as the database answers.  Nobody  *)
(* is shown a request without its row, so that a caller who loses finds a    *)
(* verdict there, and one who wins is alone with it.                         *)

Has(a)  == row[a] # Absent
Answers == {"apply", "accepted"}
Asking  == {"owner", "persist", "recheck", "apply", "accepted"}
Echoes(a, d) == d \in Approvals => row[a].decision = d

WaitsKnown == \A a \in Actions : waiter[a] \in Alive \ {"persisting"} => Has(a)
ShownKnown == \A a \in notified : Has(a)
CallKnown(c) ==
    /\ call[c].pc # "idle" => Has(call[c].action)
    /\ call[c].pc = "recheck" => Settled(call[c].action)
    /\ call[c].pc \in Answers => row[call[c].action] = Verdict(call[c].decision, "none")
WinnerAlone == \A c, d \in Callers :
    call[c].pc \in Answers /\ call[d].pc \in Answers /\ call[c].action = call[d].action
       => c = d
EchoKnown == \A a \in Actions : Echoes(a, object[a].decision) /\ Echoes(a, outcome[a].decision)
BanKnown(c) ==
    c \in Sessions \union Links /\ call[c].decision = "ban" /\ call[c].pc \in Asking
       => call[c].action \in rules

RecordParts ==
    /\ WaitsKnown /\ ShownKnown
    /\ (\A c \in Callers : CallKnown(c) /\ BanKnown(c)) /\ WinnerAlone
    /\ EchoKnown /\ RunsOnlyWhatIsRecorded /\ EndedIsSettled
RecordInv == Reliable => RecordParts

\* How a row moves while the database answers.
RowsForward == \A a \in Actions :
    /\ Has(a) => Has(a)'
    /\ Settled(a) => row'[a] = row[a]

LEMMA Forward ==
    ASSUME TypeOK, FreshRows, [Next]_vars
    PROVE  RowsForward
<1>1. CASE UNCHANGED vars
  BY <1>1 DEF vars, RowsForward, Has
<1>2. CASE Next
  <2>1. \A a \in Actions : \/ row'[a] = row[a]
                           \/ row[a] = Absent /\ row'[a] = Open
                           \/ row[a] = Open /\ row'[a] \in Verdicts
    BY <1>2, RowStep
  <2> QED
    BY <2>1, RowKinds DEF RowsForward, Has, Settled
<1> QED
  BY <1>1, <1>2

\* An approval on record is settled, and a caller's verdict is.
LEMMA OnRecord ==
    /\ \A a \in Actions, d \in Approvals : row[a].decision = d => Settled(a)
    /\ \A a \in Actions, d \in Decisions : row[a] = Verdict(d, "none") => Settled(a)
    /\ \A a \in Actions : Settled(a) => Has(a)
    /\ \A d \in Decisions : Verdict(d, "none").decision = d
BY RowKinds, VerdictOK DEF Settled, Has, Decisions, Verdict

\* A caller who does not move keeps what he knows.
LEMMA CallKept ==
    ASSUME TypeOK, RowsForward, NEW c \in Callers, CallKnown(c), BanKnown(c),
           call'[c] = call[c], rules \subseteq rules'
    PROVE  CallKnown(c)' /\ BanKnown(c)'
<1>1. call[c].decision \in Decisions /\ (call[c].pc # "idle" => call[c].action \in Actions)
  BY DEF TypeOK, Calls
<1>2. CASE call[c].pc = "idle"
  BY <1>2 DEF CallKnown, BanKnown, Answers, Asking
<1>3. CASE call[c].pc # "idle"
  <2>1. PICK a \in Actions : a = call[c].action
    BY <1>1, <1>3
  <2>2. Has(a)'
    BY <1>3, <2>1 DEF CallKnown, RowsForward
  <2>3. call[c].pc = "recheck" => Settled(a)'
    BY <2>1 DEF CallKnown, RowsForward, Settled
  <2>4. call[c].pc \in Answers => row'[a] = Verdict(call[c].decision, "none")
    BY <1>1, <2>1, OnRecord DEF CallKnown, RowsForward
  <2>5. call[c].pc \in Answers \/ call[c].pc \in Asking => BanKnown(c)'
    BY DEF BanKnown
  <2> QED
    BY <2>1, <2>2, <2>3, <2>4 DEF CallKnown, BanKnown
<1> QED
  BY <1>2, <1>3

\* What memory repeats stays on record.
LEMMA EchoKept ==
    ASSUME TypeOK, RowsForward, NEW a \in Actions, NEW d, Echoes(a, d)
    PROVE  Echoes(a, d)'
BY OnRecord DEF Echoes, RowsForward

LEMMA RanKept ==
    ASSUME TypeOK, RowsForward, RunsOnlyWhatIsRecorded
    PROVE  \A a \in ran : row'[a].decision \in Approvals
BY OnRecord DEF TypeOK, RunsOnlyWhatIsRecorded, RowsForward

\* The facts about one request.
RequestKnown(x) ==
    /\ waiter[x] \in Alive \ {"persisting"} => Has(x)
    /\ x \in notified => Has(x)
    /\ waiter[x] \in {"announcing", "returned", "acted"} => Settled(x)
    /\ Echoes(x, object[x].decision) /\ Echoes(x, outcome[x].decision)
    /\ x \in ran => row[x].decision \in Approvals

LEMMA RequestParts ==
    ASSUME ran \subseteq Actions, notified \subseteq Actions
    PROVE  /\ \A x \in Actions : RequestKnown(x)
           <=> /\ WaitsKnown /\ ShownKnown /\ EchoKnown /\ RunsOnlyWhatIsRecorded
               /\ EndedIsSettled
BY DEF RequestKnown, WaitsKnown, ShownKnown, EchoKnown, RunsOnlyWhatIsRecorded, EndedIsSettled

\* A request nothing happens to, but that its coroutine ends, is notified, or is denied.
LEMMA RequestKept ==
    ASSUME TypeOK, RowsForward, NEW x \in Actions, RequestKnown(x),
           waiter'[x] = waiter[x] \/ waiter'[x] \in {"new", "persisting", "dead", "cancelled"}
           \/ (waiter[x] \in Alive \ {"persisting"} /\ waiter'[x] \in {"waiting", "recording",
                                                                       "unwinding"})
           \/ (waiter[x] = "announcing" /\ waiter'[x] = "returned")
           \/ (waiter[x] = "returned" /\ waiter'[x] = "acted"),
           x \in notified' => x \in notified \/ waiter[x] = "notifying",
           object'[x] = object[x] \/ object'[x].decision = "deny",
           outcome'[x] = outcome[x] \/ outcome'[x].decision = object[x].decision,
           x \in ran' => x \in ran \/ outcome[x].decision \in Approvals
    PROVE  RequestKnown(x)'
<1>1. /\ Has(x) => Has(x)'
      /\ Settled(x) => Settled(x)'
  BY DEF RowsForward, Settled
<1>2. waiter'[x] \in Alive \ {"persisting"} => Has(x)'
  BY <1>1 DEF RequestKnown, Alive
<1>3. x \in notified' => Has(x)'
  BY <1>1 DEF RequestKnown, Alive
<1>4. waiter'[x] \in {"announcing", "returned", "acted"} => Settled(x)'
  BY <1>1 DEF RequestKnown
<1>5. PICK d, e : d = object[x].decision /\ e = outcome[x].decision
  OBVIOUS
<1>6. Echoes(x, d)' /\ Echoes(x, e)'
  BY <1>5, EchoKept DEF RequestKnown
<1>7. "deny" \notin Approvals
  BY DEF Approvals
<1>8. Echoes(x, object[x].decision)' /\ Echoes(x, outcome[x].decision)'
  BY <1>5, <1>6, <1>7 DEF Echoes
<1>9. x \in ran' => row'[x].decision \in Approvals
  <2>1. x \in ran \/ e \in Approvals => row[x].decision \in Approvals
    BY <1>5 DEF RequestKnown, Echoes
  <2>2. row[x].decision \in Approvals => row'[x] = row[x]
    BY OnRecord DEF RowsForward
  <2> QED
    BY <1>5, <2>1, <2>2
<1> QED
  BY <1>2, <1>3, <1>4, <1>8, <1>9 DEF RequestKnown

\* The steps of the coroutine that waits, of the notifications and of the list.
LEMMA RecordWaiter ==
    ASSUME TypeOK, FreshRows, Reliable', RowsForward, NEW a \in Actions, NEW x \in Actions,
           Request(a) \/ Notify(a) \/ WaiterStep(a) \/ Cancel(a) \/ ListFromMemory(a),
           RequestKnown(x)
    PROVE  RequestKnown(x)' /\ UNCHANGED call /\ rules \subseteq rules'
<1>1. /\ waiter \in [Actions -> WaiterPCs] /\ object \in [Actions -> Objects]
      /\ outcome \in [Actions -> Outcomes] /\ row \in [Actions -> Rows]
      /\ toRecord \in [Actions -> Verdicts] /\ faults \in Nat
  BY BoundAssumption DEF TypeOK
<1>2. ~Fault
  BY <1>1 DEF Fault, Reliable
<1>3. CASE Request(a)
  <2>1. NewObject.decision = "deny"
    BY DEF NewObject
  <2> QED
    BY <1>1, <1>3, <2>1, RequestKept DEF Request, Goto
<1>4. CASE Notify(a) \/ StartWait(a)
  BY <1>1, <1>4, RequestKept DEF Notify, StartWait, Goto, Alive
<1>5. CASE PersistRequest(a)
  <2>1. CASE x = a
    <3>1. row'[x] = Open /\ waiter'[x] = "notifying"
          /\ UNCHANGED <<notified, object, outcome, ran, call, rules>>
      BY <1>1, <1>2, <1>5, <2>1 DEF PersistRequest, Goto
    <3>2. ~Has(x)
      BY <1>5, <2>1 DEF FreshRows, PersistRequest, Has
    <3>3. Has(x)'
      BY <3>1, RowKinds DEF Has
    <3>4. PICK d, e : d = object[x].decision /\ e = outcome[x].decision
      OBVIOUS
    <3>5. d \notin Approvals /\ e \notin Approvals /\ x \notin ran
      BY <3>2, <3>4, OnRecord DEF RequestKnown, Echoes
    <3> QED
      BY <3>1, <3>3, <3>4, <3>5 DEF RequestKnown, Echoes
  <2>2. CASE x # a
    BY <1>1, <1>5, <2>2, RequestKept DEF PersistRequest, Goto
  <2> QED
    BY <2>1, <2>2
<1>6. CASE Wake(a)
  BY <1>1, <1>6, RequestKept DEF Wake, CleanUp, Goto, Alive
<1>7. CASE Timeout(a)
  <2>1. TimedOut(object[a]).decision = "deny"
    BY <1>1 DEF TimedOut, Objects
  <2> QED
    BY <1>1, <1>7, <2>1, RequestKept DEF Timeout, CleanUp, Goto, Alive
<1>8. CASE RecordVerdict(a)
  <2>1. /\ UpdatePendingRow(a, toRecord[a]) /\ waiter[a] \in {"recording", "unwinding"}
        /\ Goto(a, IF waiter[a] = "recording" THEN "announcing" ELSE "cancelled")
        /\ UNCHANGED <<notified, object, outcome, ran, call, rules>>
    BY <1>2, <1>8 DEF RecordVerdict
  <2>2. CASE x = a /\ waiter[a] = "recording"
    <3>1. Has(x) /\ waiter'[x] = "announcing"
      BY <1>1, <2>1, <2>2 DEF RequestKnown, Alive, Goto
    <3>2. Settled(x)'
      <4>1. CASE row[x] = Open
        BY <1>1, <2>1, <2>2, <4>1, RowKinds DEF UpdatePendingRow, Settled
      <4>2. CASE row[x] # Open
        <5>1. row[x] \in Verdicts
          BY <1>1, <3>1, <4>2, RowKinds DEF Has
        <5>2. row'[x] = row[x]
          BY <2>1, <2>2, <4>2 DEF UpdatePendingRow
        <5> QED
          BY <5>1, <5>2, RowKinds DEF Settled
      <4> QED
        BY <4>1, <4>2
    <3>3. Has(x)'
      BY <3>2, RowKinds DEF Settled, Has
    <3>4. PICK d, e : d = object[x].decision /\ e = outcome[x].decision
      OBVIOUS
    <3>5. Echoes(x, d)' /\ Echoes(x, e)'
      BY <3>4, EchoKept DEF RequestKnown
    <3>6. x \in ran => row'[x].decision \in Approvals
      BY OnRecord DEF RequestKnown, RowsForward
    <3> QED
      BY <2>1, <3>1, <3>2, <3>3, <3>4, <3>5, <3>6 DEF RequestKnown, Echoes
  <2>3. CASE x # a \/ waiter[a] # "recording"
    BY <1>1, <2>1, <2>3, RequestKept DEF Goto
  <2> QED
    BY <2>2, <2>3
<1>9. CASE Return(a)
  <2>1. outcome' = [outcome EXCEPT ![a] = Verdict(object[a].decision, object[a].reason)]
    BY <1>9 DEF Return
  <2>2. outcome'[x] = outcome[x] \/ outcome'[x].decision = object[x].decision
    BY <1>1, <2>1 DEF Verdict
  <2> QED
    BY <1>1, <1>9, <2>2, RequestKept DEF Return, Goto
<1>10. CASE Act(a)
  <2>1. /\ waiter[a] = "returned" /\ waiter' = [waiter EXCEPT ![a] = "acted"]
        /\ x \in ran' => x \in ran \/ outcome[x].decision \in Approvals
        /\ UNCHANGED <<object, notified, outcome, call>> /\ rules \subseteq rules'
    BY <1>1, <1>10 DEF Act, Goto
  <2> QED
    BY <1>1, <2>1, RequestKept
<1>11. CASE Cancel(a)
  BY <1>1, <1>11, RequestKept DEF Cancel, CleanUp, Goto, Alive
<1> QED
  BY <1>2, <1>3, <1>4, <1>5, <1>6, <1>7, <1>8, <1>9, <1>10, <1>11
  DEF WaiterStep, ListFromMemory

\* A caller who is told that it worked is alone: he was among those who may be already,
\* or nobody else is for this request.
LEMMA AloneKept ==
    ASSUME WinnerAlone, NEW c \in Callers, \A x \in Callers \ {c} : call'[x] = call[x],
           \/ call'[c].pc \notin Answers
           \/ call[c].pc \in Answers /\ call'[c].action = call[c].action
           \/ \A x \in Callers \ {c} :
                 ~(call[x].pc \in Answers /\ call[x].action = call'[c].action)
    PROVE  WinnerAlone'
<1> SUFFICES ASSUME NEW x \in Callers, NEW y \in Callers,
                    call'[x].pc \in Answers, call'[y].pc \in Answers,
                    call'[x].action = call'[y].action
             PROVE  x = y
  BY DEF WinnerAlone, Answers
<1>1. CASE x # c /\ y # c
  BY <1>1 DEF WinnerAlone
<1>2. CASE x = c /\ y # c
  BY <1>2 DEF WinnerAlone
<1>3. CASE x # c /\ y = c
  BY <1>3 DEF WinnerAlone
<1> QED
  BY <1>1, <1>2, <1>3

\* A caller who moves without writing the row or the object.
LEMMA CallerMoves ==
    ASSUME TypeOK, RowsForward, RecordParts, NEW c \in Callers,
           UNCHANGED <<waiter, notified, outcome, ran, object>>, rules \subseteq rules',
           \A x \in Callers \ {c} : call'[x] = call[x],
           call'[c].pc \notin Answers, call'[c].action \in Actions,
           Has(call'[c].action), call'[c].pc = "recheck" => Settled(call'[c].action),
           BanKnown(c)'
    PROVE  RecordParts'
<1>1. ran \subseteq Actions /\ notified \subseteq Actions
  BY DEF TypeOK
<1>2. \A x \in Actions : RequestKnown(x)
  BY <1>1, RequestParts DEF RecordParts
<1>3. \A x \in Actions : RequestKnown(x)'
  BY <1>2, RequestKept
<1>4. CallKnown(c)'
  <2>1. PICK a \in Actions : a = call'[c].action
    OBVIOUS
  <2>2. Has(a)' /\ (call'[c].pc = "recheck" => Settled(a)')
    BY <2>1 DEF RowsForward, Settled
  <2> QED
    BY <2>1, <2>2 DEF CallKnown
<1>5. \A x \in Callers \ {c} : CallKnown(x)' /\ BanKnown(x)'
  BY CallKept DEF RecordParts
<1>6. WinnerAlone'
  BY AloneKept DEF RecordParts
<1>7. WaitsKnown' /\ ShownKnown' /\ EchoKnown' /\ RunsOnlyWhatIsRecorded' /\ EndedIsSettled'
  <2>1. ran' \subseteq Actions /\ notified' \subseteq Actions
    BY <1>1
  <2> QED
    BY <1>3, <2>1, RequestParts
    DEF RequestKnown, WaitsKnown, ShownKnown, EchoKnown, RunsOnlyWhatIsRecorded, EndedIsSettled
<1> QED
  BY <1>4, <1>5, <1>6, <1>7 DEF RecordParts

\* A caller who won: the request only learns a verdict that is on record.
LEMMA CallerTold ==
    ASSUME TypeOK, RowsForward, RecordParts, NEW c \in Callers, NEW d \in Decisions,
           UNCHANGED <<waiter, notified, outcome, ran, rules>>,
           \A x \in Callers \ {c} : call'[x] = call[x],
           \A x \in Actions : object'[x] = object[x]
                             \/ (row[x].decision = d /\ object'[x].decision = d),
           CallKnown(c)', BanKnown(c)', WinnerAlone'
    PROVE  RecordParts'
<1>1. ran \subseteq Actions /\ notified \subseteq Actions
  BY DEF TypeOK
<1>2. \A x \in Actions : RequestKnown(x)
  BY <1>1, RequestParts DEF RecordParts
<1>3. ASSUME NEW x \in Actions PROVE RequestKnown(x)'
  <2>1. CASE object'[x] = object[x]
    BY <1>2, <2>1, RequestKept
  <2>2. CASE row[x].decision = d /\ object'[x].decision = d
    <3>1. Settled(x) /\ row'[x] = row[x]
      BY <2>2 DEF Settled, RowsForward
    <3> QED
      BY <1>2, <2>2, <3>1 DEF RequestKnown, Echoes, Has, Settled
  <2> QED
    BY <2>1, <2>2
<1>4. \A x \in Callers \ {c} : CallKnown(x)' /\ BanKnown(x)'
  BY CallKept DEF RecordParts
<1>5. WaitsKnown' /\ ShownKnown' /\ EchoKnown' /\ RunsOnlyWhatIsRecorded' /\ EndedIsSettled'
  <2>1. ran' \subseteq Actions /\ notified' \subseteq Actions
    BY <1>1
  <2> QED
    BY <1>3, <2>1, RequestParts
    DEF RequestKnown, WaitsKnown, ShownKnown, EchoKnown, RunsOnlyWhatIsRecorded, EndedIsSettled
<1> QED
  BY <1>4, <1>5 DEF RecordParts

\* What resolve makes of a new answer, or of the answer it read the owner for.
LEMMA RecordResolve ==
    ASSUME TypeOK, FreshRows, RowsForward, RecordParts, NEW c \in Callers, NEW a \in Actions,
           NEW d \in Decisions, ResolveFromRouter(c, a, d), Has(a),
           UNCHANGED <<waiter, notified, outcome, ran, object>>, rules \subseteq rules',
           d = "ban" => a \in rules'
    PROVE  RecordParts'
<1>1. /\ call'[c].pc \in {"owner", "persist", "rejected"}
      /\ call'[c].action = a /\ call'[c].decision = d
      /\ \A x \in Callers \ {c} : call'[x] = call[x]
  BY ResolveOK
<1>2. BanKnown(c)'
  BY <1>1 DEF BanKnown
<1> QED
  BY <1>1, <1>2, CallerMoves DEF Answers

\* Nobody answers what nobody was shown, and what was shown is on record.
LEMMA RecordAsks ==
    ASSUME TypeOK, FreshRows, RowsForward, RecordParts, NEW c \in Callers, NEW a \in Actions,
           NEW d \in Choices, Click(c, a, d) \/ Press(c, a, d) \/ ClickBan(c, a)
    PROVE  RecordParts'
<1>1. Has(a)
  BY DEF Click, Press, ClickBan, Shown, Has, RecordParts, ShownKnown
<1>2. UNCHANGED <<waiter, notified, outcome, ran, object, rules>>
  BY DEF Click, Press, ClickBan
<1>3. d \in Decisions
  BY ChoiceAssumption
<1>4. CASE Click(c, a, d)
  BY <1>1, <1>2, <1>3, <1>4, RecordResolve DEF Click
<1>5. ASSUME NEW p \in {"persist", "banOwner", "rule", "rejected"}, NEW v, NEW h,
             p = "persist" => c \in Buttons,
             call' = [call EXCEPT ![c] = [pc |-> p, action |-> a, decision |-> v, held |-> h]]
      PROVE  RecordParts'
  <2>1. /\ call'[c] = [pc |-> p, action |-> a, decision |-> v, held |-> h]
        /\ \A x \in Callers \ {c} : call'[x] = call[x]
    BY <1>5 DEF TypeOK
  <2>2. call'[c].pc = p /\ call'[c].action = a
    BY <2>1
  <2>3. BanKnown(c)'
    BY <1>5, <2>2, ChannelAssumption DEF BanKnown, Asking
  <2> QED
    BY <1>1, <1>2, <2>1, <2>2, <2>3, CallerMoves DEF Answers
<1>6. CASE Press(c, a, d)
  <2>1. PICK h : h = (a \in pending)
    OBVIOUS
  <2>2. /\ c \in Buttons
        /\ call' = [call EXCEPT ![c] = [pc |-> "persist", action |-> a, decision |-> d,
                                        held |-> h]]
    BY <1>6, <2>1 DEF Press
  <2> QED
    BY <1>5, <2>2
<1>7. CASE ClickBan(c, a)
  <2>1. PICK p \in {"banOwner", "rule", "rejected"} :
          call' = [call EXCEPT ![c] = [pc |-> p, action |-> a, decision |-> "ban",
                                       held |-> FALSE]]
    BY <1>7 DEF ClickBan
  <2> QED
    BY <1>5, <2>1
<1> QED
  BY <1>4, <1>6, <1>7

\* What a caller does once he has asked.  The one who finds the row open settles it; he
\* is alone to hold that verdict, and the object repeats it.
LEMMA RecordCaller ==
    ASSUME TypeOK, FreshRows, RowsForward, RecordParts, Reliable', NEW c \in Callers,
           CallerStep(c)
    PROVE  RecordParts'
<1>1. /\ call \in [Callers -> Calls] /\ object \in [Actions -> Objects]
      /\ row \in [Actions -> Rows] /\ faults \in Nat
      /\ call[c].decision \in Decisions
  BY BoundAssumption DEF TypeOK, Calls
<1>2. ~Fault
  BY <1>1 DEF Fault, Reliable
<1>3. CallKnown(c) /\ BanKnown(c)
  BY DEF RecordParts
<1>4. call[c].pc # "idle" /\ call[c].action \in Actions /\ Has(call[c].action)
  BY <1>3 DEF CallerStep, BanReadOwner, StoreRule, ReadOwner, Settle, Recheck, Apply, TypeOK,
              CallKnown
<1>5. PICK a \in Actions, d \in Decisions : a = call[c].action /\ d = call[c].decision
  BY <1>1, <1>4
<1>6. CASE BanReadOwner(c)
  <2>1. PICK p \in {"rejected", "rule"} : Advance(c, p)
    BY <1>6 DEF BanReadOwner
  <2>2. UNCHANGED <<waiter, notified, outcome, ran, object, rules>>
    BY <1>6 DEF BanReadOwner
  <2>3. /\ call'[c].pc = p /\ call'[c].action = a
        /\ \A x \in Callers \ {c} : call'[x] = call[x]
    BY <1>1, <1>5, <2>1, AdvanceOK, NextPCs
  <2>4. BanKnown(c)'
    BY <2>3 DEF BanKnown, Asking
  <2> QED
    BY <1>4, <1>5, <2>2, <2>3, <2>4, CallerMoves DEF Answers
<1>7. CASE StoreRule(c)
  <2>1. /\ rules' = rules \union {a} /\ ResolveFromRouter(c, a, "ban")
        /\ UNCHANGED <<waiter, notified, outcome, ran, object>>
    BY <1>2, <1>5, <1>7 DEF StoreRule
  <2>2. "ban" \in Decisions
    BY DEF Decisions
  <2> QED
    BY <1>4, <1>5, <2>1, <2>2, RecordResolve
<1>8. CASE ReadOwner(c)
  <2>1. UNCHANGED <<waiter, notified, outcome, ran, object, rules>> /\ call[c].pc = "owner"
    BY <1>8 DEF ReadOwner
  <2>2. /\ call'[c].pc \in {"persist", "rejected"}
        /\ call'[c].action = a /\ call'[c].decision = d
        /\ \A x \in Callers \ {c} : call'[x] = call[x]
    BY <1>5, <1>8, ReadOwnerOK
  <2>3. BanKnown(c)'
    BY <1>3, <1>5, <2>1, <2>2 DEF BanKnown, Asking
  <2> QED
    BY <1>4, <1>5, <2>1, <2>2, <2>3, CallerMoves DEF Answers
<1>9. CASE Recheck(c)
  <2>1. Settled(a)
    BY <1>3, <1>5, <1>9 DEF CallKnown, Recheck
  <2>2. Advance(c, "rejected") /\ UNCHANGED <<waiter, notified, outcome, ran, object, rules>>
    BY <1>2, <1>5, <1>9, <2>1 DEF Recheck
  <2>3. /\ call'[c].pc = "rejected" /\ call'[c].action = a
        /\ \A x \in Callers \ {c} : call'[x] = call[x]
    BY <1>1, <1>5, <2>2, AdvanceOK, NextPCs
  <2>4. BanKnown(c)'
    BY <2>3 DEF BanKnown, Asking
  <2> QED
    BY <1>4, <1>5, <2>2, <2>3, <2>4, CallerMoves DEF Answers
<1>10. CASE Settle(c) /\ row[a] # Open
  <2>1. PICK p \in {"recheck", "rejected"} : Advance(c, p)
    BY <1>2, <1>5, <1>10 DEF Settle
  <2>2. UNCHANGED <<waiter, notified, outcome, ran, object, rules>> /\ call[c].pc = "persist"
    BY <1>10 DEF Settle
  <2>3. /\ call'[c].pc = p /\ call'[c].action = a /\ call'[c].decision = d
        /\ \A x \in Callers \ {c} : call'[x] = call[x]
    BY <1>1, <1>5, <2>1, AdvanceOK, NextPCs
  <2>4. Settled(a)
    BY <1>1, <1>4, <1>5, <1>10, RowKinds DEF Has, Settled
  <2>5. BanKnown(c)'
    BY <1>3, <1>5, <2>2, <2>3 DEF BanKnown, Asking
  <2> QED
    BY <1>4, <1>5, <2>2, <2>3, <2>4, <2>5, CallerMoves DEF Answers
<1>11. CASE Settle(c) /\ row[a] = Open
  <2>1. /\ row' = [row EXCEPT ![a] = Verdict(d, "none")] /\ call[c].pc = "persist"
        /\ Advance(c, IF call[c].held THEN "apply" ELSE "accepted")
        /\ UNCHANGED <<waiter, notified, outcome, ran, object, rules>>
    BY <1>2, <1>5, <1>11 DEF Settle, UpdatePendingRow
  <2>2. PICK p \in Answers : Advance(c, p)
    BY <2>1 DEF Answers
  <2>3. /\ call'[c].pc = p /\ call'[c].action = a /\ call'[c].decision = d
        /\ \A x \in Callers \ {c} : call'[x] = call[x]
    BY <1>1, <1>5, <2>2, AdvanceOK, NextPCs DEF Answers
  <2>4. row'[a] = Verdict(d, "none")
    BY <1>1, <2>1
  <2>5. CallKnown(c)'
    <3>1. Has(a)'
      BY <1>4, <1>5 DEF RowsForward
    <3> QED
      BY <2>3, <2>4, <3>1 DEF CallKnown, Answers
  <2>6. BanKnown(c)'
    BY <1>3, <1>5, <2>1, <2>3 DEF BanKnown, Asking
  <2>7. ASSUME NEW x \in Callers \ {c}, call[x].pc \in Answers PROVE call[x].action # a
    <3>1. CallKnown(x) /\ call[x].decision \in Decisions
      BY DEF RecordParts, TypeOK, Calls
    <3>2. row[call[x].action] = Verdict(call[x].decision, "none")
      BY <2>7, <3>1 DEF CallKnown
    <3>3. Verdict(call[x].decision, "none") # Open
      BY <3>1, VerdictOK, RowKinds
    <3> QED
      BY <1>11, <3>2, <3>3
  <2>8. WinnerAlone'
    BY <2>3, <2>7, AloneKept DEF RecordParts
  <2> QED
    BY <2>1, <2>3, <2>5, <2>6, <2>8, CallerTold
<1>12. CASE Apply(c)
  <2>1. /\ call[c].pc = "apply" /\ Advance(c, "accepted")
        /\ object' = [object EXCEPT ![a] = [decision |-> d, reason |-> "none", event |-> TRUE]]
        /\ UNCHANGED <<waiter, notified, outcome, ran, row, rules>>
    BY <1>5, <1>12 DEF Apply
  <2>2. /\ call'[c].pc = "accepted" /\ call'[c].action = a /\ call'[c].decision = d
        /\ \A x \in Callers \ {c} : call'[x] = call[x]
    BY <1>1, <1>5, <2>1, AdvanceOK, NextPCs
  <2>3. row[a] = Verdict(d, "none")
    BY <1>3, <1>5, <2>1 DEF CallKnown, Answers
  <2>4. CallKnown(c)'
    BY <1>4, <1>5, <2>1, <2>2, <2>3 DEF CallKnown, Answers, Has
  <2>5. BanKnown(c)'
    BY <1>3, <1>5, <2>1, <2>2 DEF BanKnown, Asking
  <2>6. WinnerAlone'
    BY <1>5, <2>1, <2>2, AloneKept DEF RecordParts, Answers
  <2>7. \A x \in Actions : object'[x] = object[x]
                          \/ (row[x].decision = d /\ object'[x].decision = d)
    <3>1. row[a].decision = d
      BY <2>3, OnRecord
    <3>2. object'[a].decision = d /\ \A x \in Actions \ {a} : object'[x] = object[x]
      BY <1>1, <2>1
    <3> QED
      BY <3>1, <3>2
  <2> QED
    BY <2>1, <2>2, <2>4, <2>5, <2>6, <2>7, CallerTold
<1> QED
  BY <1>5, <1>6, <1>7, <1>8, <1>9, <1>10, <1>11, <1>12 DEF CallerStep

\* A restart forgets who was answering, and no row.
LEMMA RecordCrash ==
    ASSUME TypeOK, RowsForward, RecordParts, Crash
    PROVE  RecordParts'
<1>1. ran \subseteq Actions /\ notified \subseteq Actions
  BY DEF TypeOK
<1>2. /\ UNCHANGED <<object, row, notified, outcome, ran, rules>>
      /\ \A x \in Actions : waiter'[x] = waiter[x] \/ waiter'[x] = "dead"
  BY DEF Crash
<1>3. ASSUME NEW x \in Actions PROVE RequestKnown(x)'
  <2>1. RequestKnown(x)
    BY <1>1, RequestParts DEF RecordParts
  <2> QED
    BY <1>2, <2>1, RequestKept
<1>4. ASSUME NEW c \in Callers PROVE CallKnown(c)' /\ BanKnown(c)'
  <2>1. CallKnown(c) /\ BanKnown(c)
    BY DEF RecordParts
  <2>2. /\ call'[c].action = call[c].action /\ call'[c].decision = call[c].decision
        /\ call'[c].pc = call[c].pc \/ (call'[c].pc = "lost" /\ call[c].pc # "idle")
    BY CrashOK
  <2>3. CASE call'[c].pc = call[c].pc
    BY <1>2, <2>1, <2>2, <2>3 DEF CallKnown, BanKnown, Has, Settled
  <2>4. CASE call'[c].pc = "lost" /\ call[c].pc # "idle"
    BY <1>2, <2>1, <2>2, <2>4 DEF CallKnown, BanKnown, Has, Answers, Asking
  <2> QED
    BY <2>2, <2>3, <2>4
<1>5. WinnerAlone'
  <2>1. \A c \in Callers : call'[c].pc \in Answers =>
           call[c].pc \in Answers /\ call'[c].action = call[c].action
    BY CrashOK DEF Answers
  <2>2. ASSUME NEW c \in Callers, NEW d \in Callers, call'[c].pc \in Answers,
               call'[d].pc \in Answers, call'[c].action = call'[d].action
        PROVE  c = d
    BY <2>1, <2>2 DEF RecordParts, WinnerAlone
  <2> QED
    BY <2>2 DEF WinnerAlone, Answers
<1>6. WaitsKnown' /\ ShownKnown' /\ EchoKnown' /\ RunsOnlyWhatIsRecorded' /\ EndedIsSettled'
  <2>1. ran' \subseteq Actions /\ notified' \subseteq Actions
    BY <1>1, <1>2
  <2> QED
    BY <1>3, <2>1, RequestParts
    DEF RequestKnown, WaitsKnown, ShownKnown, EchoKnown, RunsOnlyWhatIsRecorded, EndedIsSettled
<1> QED
  BY <1>4, <1>5, <1>6 DEF RecordParts

\* A database call that failed stays counted.
LEMMA FaultsGrow ==
    ASSUME TypeOK, [Next]_vars
    PROVE  faults' = 0 => faults = 0
<1>1. faults \in Nat
  BY BoundAssumption DEF TypeOK
<1>2. CASE UNCHANGED vars
  BY <1>2 DEF vars
<1>3. CASE Next
  <2>1. ASSUME NEW a \in Actions,
               Request(a) \/ Notify(a) \/ WaiterStep(a) \/ Cancel(a) \/ ListFromMemory(a)
        PROVE  faults' = faults \/ faults' = faults + 1
    BY <2>1 DEF Request, Notify, WaiterStep, PersistRequest, StartWait, Wake, Timeout,
                RecordVerdict, Return, Act, Cancel, CleanUp, ListFromMemory, Fault
  <2>2. ASSUME NEW c \in Callers, CallerStep(c)
        PROVE  faults' = faults \/ faults' = faults + 1
    BY <2>2 DEF CallerStep, BanReadOwner, StoreRule, ReadOwner, Settle, Recheck, Apply, Fault
  <2>3. ASSUME NEW c \in Callers, NEW a \in Actions, NEW d \in Choices,
               Click(c, a, d) \/ Press(c, a, d)
        PROVE  faults' = faults
    BY <2>3 DEF Click, Press
  <2>4. ASSUME NEW c \in Callers, NEW a \in Actions, ClickBan(c, a)
        PROVE  faults' = faults
    BY <2>4 DEF ClickBan
  <2>5. Crash => faults' = faults
    BY DEF Crash
  <2>6. faults' = faults \/ faults' = faults + 1
    BY <1>3, <2>1, <2>2, <2>3, <2>4, <2>5 DEF Next
  <2> QED
    BY <1>1, <2>6
<1> QED
  BY <1>2, <1>3

LEMMA RecordStep ==
    ASSUME TypeOK, FreshRows, RecordInv, [Next]_vars
    PROVE  RecordInv'
<1>1. CASE UNCHANGED vars
  BY <1>1
  DEF vars, RecordInv, Reliable, RecordParts, WaitsKnown, ShownKnown, CallKnown, BanKnown,
      WinnerAlone, EchoKnown, Echoes, RunsOnlyWhatIsRecorded, EndedIsSettled, Has, Settled
<1>2. CASE Next
  <2> SUFFICES ASSUME Reliable' PROVE RecordParts'
    BY DEF RecordInv
  <2>1. RowsForward
    BY Forward
  <2>3. RecordParts
    BY FaultsGrow DEF RecordInv, Reliable
  <2>4. ASSUME NEW a \in Actions,
               Request(a) \/ Notify(a) \/ WaiterStep(a) \/ Cancel(a) \/ ListFromMemory(a)
        PROVE  RecordParts'
    <3>1. ran \subseteq Actions /\ notified \subseteq Actions
      BY DEF TypeOK
    <3>2. \A x \in Actions : RequestKnown(x)
      BY <2>3, <3>1, RequestParts DEF RecordParts
    <3>3. \A x \in Actions : RequestKnown(x)'
      BY <2>1, <2>4, <3>2, RecordWaiter
    <3>4. UNCHANGED call /\ rules \subseteq rules'
      BY <2>1, <2>4, <3>2, RecordWaiter
    <3>5. \A c \in Callers : CallKnown(c)' /\ BanKnown(c)'
      BY <2>1, <2>3, <3>4, CallKept DEF RecordParts
    <3>6. WinnerAlone'
      BY <2>3, <3>4 DEF RecordParts, WinnerAlone
    <3>7. /\ WaitsKnown' /\ ShownKnown' /\ EchoKnown' /\ RunsOnlyWhatIsRecorded'
          /\ EndedIsSettled'
      <4>1. ran' \subseteq Actions /\ notified' \subseteq Actions
        BY <2>4, <3>1 DEF Request, Notify, WaiterStep, PersistRequest, StartWait, Wake, Timeout,
                  RecordVerdict, Return, Act, Cancel, CleanUp, ListFromMemory
      <4> QED
        BY <3>3, <4>1
        DEF RequestKnown, WaitsKnown, ShownKnown, EchoKnown, RunsOnlyWhatIsRecorded,
            EndedIsSettled
    <3> QED
      BY <3>5, <3>6, <3>7 DEF RecordParts
  <2>5. ASSUME NEW c \in Callers, CallerStep(c) PROVE RecordParts'
    BY <2>1, <2>3, <2>5, RecordCaller
  <2>6. ASSUME NEW c \in Callers, NEW a \in Actions, NEW d \in Choices,
               Click(c, a, d) \/ Press(c, a, d) \/ ClickBan(c, a)
        PROVE  RecordParts'
    BY <2>1, <2>3, <2>6, RecordAsks
  <2>7. CASE Crash
    BY <2>1, <2>3, <2>7, RecordCrash
  <2> QED
    BY <1>2, <2>4, <2>5, <2>6, <2>7 DEF Next
<1> QED
  BY <1>1, <1>2

LEMMA RecordInit == Init => RecordInv
<1> SUFFICES ASSUME Init PROVE RecordParts
  BY DEF RecordInv
<1>1. \A a \in Actions : /\ waiter[a] = "new" /\ object[a].decision = "deny"
                         /\ outcome[a].decision = "none"
  BY DEF Init, NewObject, NoVerdict, Verdict
<1>2. \A c \in Callers : call[c].pc = "idle"
  BY IdleOK DEF Init
<1>3. ran = {} /\ notified = {}
  BY DEF Init
<1>4. "deny" \notin Approvals /\ "none" \notin Approvals
  BY DEF Approvals
<1> QED
  BY <1>1, <1>2, <1>3, <1>4
  DEF RecordParts, WaitsKnown, ShownKnown, CallKnown, BanKnown, WinnerAlone, EchoKnown, Echoes,
      RunsOnlyWhatIsRecorded, EndedIsSettled, Alive, Answers, Asking

LEMMA RecordHolds == Spec => [](TypeOK /\ FreshRows /\ RecordInv)
<1>1. Init => FreshRows
  BY DEF Init, FreshRows
<1>2. TypeOK /\ FreshRows /\ [Next]_vars => FreshRows'
  BY FreshStep
<1>3. TypeOK /\ FreshRows /\ RecordInv /\ [Next]_vars => RecordInv'
  BY RecordStep
<1> QED
  BY <1>1, <1>2, <1>3, RecordInit, TypeCorrect, PTL DEF Spec

\* What the waiter is about to return: what an answer or the timeout has put into the
\* object.  An answer has settled the row before it is put there.
LateRefusal   == Verdict("deny", "timeout")
Answered(a)   == Verdict(object[a].decision, object[a].reason) \in {row[a], LateRefusal}
ReturnsOnly(a) ==
    /\ object[a].event => Answered(a)
    /\ waiter[a] \in {"recording", "announcing"} => Answered(a)
    /\ outcome[a] # NoVerdict => outcome[a] \in {row[a], LateRefusal}
ReturnInv == Reliable => \A a \in Actions : ReturnsOnly(a)

\* Nobody writes over the verdict that was put into the object, or returned.
LEMMA AnswerKept ==
    ASSUME TypeOK, RowsForward, NEW a \in Actions
    PROVE  /\ Answered(a) /\ object'[a] = object[a] => Answered(a)'
           /\ outcome[a] # NoVerdict /\ outcome[a] \in {row[a], LateRefusal}
                 => outcome[a] \in {row'[a], LateRefusal}
<1>1. \A v : v \in Verdicts /\ v = row[a] => row'[a] = v
  BY RowKinds DEF RowsForward, Settled
<1>2. /\ Verdict(object[a].decision, object[a].reason) \in Verdicts
      /\ outcome[a] # NoVerdict => outcome[a] \in Verdicts
  BY DEF TypeOK, Objects, Outcomes, Verdicts, Verdict
<1> QED
  BY <1>1, <1>2 DEF Answered, LateRefusal, Verdict

\* A step that leaves object, outcome and the end of the wait alone.
LEMMA ReturnsKept ==
    ASSUME TypeOK, RowsForward, NEW a \in Actions, ReturnsOnly(a),
           object'[a] = object[a], outcome'[a] = outcome[a],
           waiter'[a] \in {"recording", "announcing"} =>
              waiter[a] \in {"recording", "announcing"} \/ object[a].event
    PROVE  ReturnsOnly(a)'
BY AnswerKept DEF ReturnsOnly

LEMMA ReturnsStep ==
    ASSUME TypeOK, RowsForward, RecordParts, Next, NEW a \in Actions, ReturnsOnly(a)
    PROVE  ReturnsOnly(a)'
<1>1. /\ waiter \in [Actions -> WaiterPCs] /\ object \in [Actions -> Objects]
      /\ outcome \in [Actions -> Outcomes]
  BY DEF TypeOK
<1>2. ASSUME NEW b \in Actions, Request(b)
      PROVE  ReturnsOnly(a)'
  <2>1. CASE a = b
    <3>1. /\ object'[a].event = FALSE /\ waiter'[a] = "persisting" /\ outcome' = outcome
      BY <1>1, <1>2, <2>1 DEF Request, Goto, NewObject
    <3> QED
      BY <3>1, AnswerKept DEF ReturnsOnly
  <2>2. CASE a # b
    BY <1>1, <1>2, <2>2, ReturnsKept DEF Request, Goto
  <2> QED
    BY <2>1, <2>2
<1>3. ASSUME NEW b \in Actions,
             Notify(b) \/ PersistRequest(b) \/ StartWait(b) \/ Wake(b) \/ RecordVerdict(b)
             \/ Act(b) \/ Cancel(b) \/ ListFromMemory(b)
      PROVE  ReturnsOnly(a)'
  <2>1. object' = object /\ outcome' = outcome
    BY <1>1, <1>3 DEF Notify, PersistRequest, StartWait, Wake, RecordVerdict, Act, Cancel,
                      ListFromMemory, CleanUp
  <2>2. waiter'[a] \in {"recording", "announcing"} =>
           waiter[a] \in {"recording", "announcing"} \/ object[a].event
    <3>1. CASE Wake(b)
      BY <1>1, <3>1 DEF Wake, CleanUp, Goto
    <3>2. CASE RecordVerdict(b)
      BY <1>1, <3>2 DEF RecordVerdict, Goto
    <3>3. CASE Cancel(b)
      BY <1>1, <3>3 DEF Cancel, CleanUp, Goto
    <3> QED
      BY <1>1, <1>3, <3>1, <3>2, <3>3
      DEF Notify, PersistRequest, StartWait, Act, ListFromMemory, Goto
  <2> QED
    BY <2>1, <2>2, ReturnsKept
<1>4. ASSUME NEW b \in Actions, Timeout(b) PROVE ReturnsOnly(a)'
  <2>1. CASE a = b
    <3>1. object'[a] = TimedOut(object[a]) /\ outcome' = outcome
      BY <1>1, <1>4, <2>1 DEF Timeout, CleanUp
    <3>2. object'[a].decision = "deny" /\ object'[a].reason = "timeout"
      BY <1>1, <3>1 DEF TimedOut, Objects
    <3>3. Answered(a)'
      BY <3>2 DEF Answered, LateRefusal
    <3> QED
      BY <3>1, <3>3, AnswerKept DEF ReturnsOnly
  <2>2. CASE a # b
    BY <1>1, <1>4, <2>2, ReturnsKept DEF Timeout, CleanUp, Goto
  <2> QED
    BY <2>1, <2>2
<1>5. ASSUME NEW b \in Actions, Return(b) PROVE ReturnsOnly(a)'
  <2>1. object' = object /\ row' = row
    BY <1>5 DEF Return
  <2>2. CASE a = b
    <3>1. /\ outcome'[a] = Verdict(object[a].decision, object[a].reason)
          /\ waiter[a] = "announcing"
      BY <1>1, <1>5, <2>2 DEF Return
    <3> QED
      BY <2>1, <3>1 DEF ReturnsOnly, Answered
  <2>3. CASE a # b
    BY <1>1, <1>5, <2>1, <2>3, ReturnsKept DEF Return, Goto
  <2> QED
    BY <2>2, <2>3
<1>6. ASSUME NEW c \in Callers, Apply(c) PROVE ReturnsOnly(a)'
  <2>1. /\ row[call[c].action] = Verdict(call[c].decision, "none")
        /\ row' = row /\ outcome' = outcome /\ waiter' = waiter
    BY <1>6 DEF Apply, RecordParts, CallKnown, Answers
  <2>2. CASE a = call[c].action
    <3>1. object'[a].decision = call[c].decision /\ object'[a].reason = "none"
      BY <1>1, <1>6, <2>2 DEF Apply
    <3> QED
      BY <2>1, <2>2, <3>1 DEF ReturnsOnly, Answered
  <2>3. CASE a # call[c].action
    <3>1. object'[a] = object[a]
      BY <1>1, <1>6, <2>3 DEF Apply
    <3> QED
      BY <2>1, <3>1, ReturnsKept
  <2> QED
    BY <2>2, <2>3
<1>7. ASSUME NEW c \in Callers,
             BanReadOwner(c) \/ StoreRule(c) \/ ReadOwner(c) \/ Settle(c) \/ Recheck(c)
      PROVE  ReturnsOnly(a)'
  <2>1. UNCHANGED <<object, outcome, waiter>>
    BY <1>7 DEF BanReadOwner, StoreRule, ReadOwner, Settle, Recheck
  <2> QED
    BY <2>1, ReturnsKept
<1>8. ASSUME NEW c \in Callers, NEW b \in Actions, NEW d \in Choices,
             Click(c, b, d) \/ Press(c, b, d)
      PROVE  ReturnsOnly(a)'
  BY <1>8, ReturnsKept DEF Click, Press
<1>9. ASSUME NEW c \in Callers, NEW b \in Actions, ClickBan(c, b) PROVE ReturnsOnly(a)'
  BY <1>9, ReturnsKept DEF ClickBan
<1>10. CASE Crash
  <2>1. /\ object' = object /\ outcome' = outcome
        /\ waiter'[a] = waiter[a] \/ waiter'[a] = "dead"
    BY <1>10 DEF Crash
  <2> QED
    BY <2>1, ReturnsKept
<1> QED
  BY <1>2, <1>3, <1>4, <1>5, <1>6, <1>7, <1>8, <1>9, <1>10 DEF Next, WaiterStep, CallerStep

LEMMA ReturnHolds == Spec => []ReturnInv
<1>1. Init => ReturnInv
  <2> SUFFICES ASSUME Init, NEW a \in Actions PROVE ReturnsOnly(a)
    BY DEF ReturnInv
  <2>1. object[a].event = FALSE /\ waiter[a] = "new" /\ outcome[a] = NoVerdict
    BY DEF Init, NewObject
  <2> QED
    BY <2>1 DEF ReturnsOnly
<1>2. TypeOK /\ FreshRows /\ RecordInv /\ ReturnInv /\ [Next]_vars => ReturnInv'
  <2> SUFFICES ASSUME TypeOK, FreshRows, RecordInv, ReturnInv, [Next]_vars, Reliable'
               PROVE  \A a \in Actions : ReturnsOnly(a)'
    BY DEF ReturnInv
  <2>1. Reliable
    BY FaultsGrow DEF Reliable
  <2>2. RowsForward
    BY Forward
  <2>3. CASE Next
    BY <2>1, <2>2, <2>3, ReturnsStep DEF RecordInv, ReturnInv
  <2>4. CASE UNCHANGED vars
    BY <2>1, <2>2, <2>4, ReturnsKept DEF ReturnInv, vars
  <2> QED
    BY <2>3, <2>4
<1> QED
  BY <1>1, <1>2, RecordHolds, PTL DEF Spec

\* As long as the database answers, one caller at most is told that the record is his, and
\* it is; the waiter returns what is on record or a refusal by timeout, the gateway runs
\* nothing that is not approved there, and a wait that ended leaves nothing pending:
\* whatever the order in which any number of callers, the timeout, cancellations and
\* restarts meet (RecordIsTheTruth).
THEOREM RecordRules == Spec => []RecordIsTheTruth
<1>1. RecordInv /\ ReturnInv => RecordIsTheTruth
  <2> SUFFICES ASSUME RecordParts, \A a \in Actions : ReturnsOnly(a)
               PROVE  /\ OneCallerWins /\ AcceptedIsTheVerdict /\ ReturnedIsRecorded
                      /\ RunsOnlyWhatIsRecorded /\ EndedIsSettled /\ RouterBanIsRemembered
    BY DEF RecordInv, ReturnInv, RecordIsTheTruth
  <2>1. OneCallerWins
    BY DEF RecordParts, WinnerAlone, Answers, OneCallerWins, Accepted
  <2>2. AcceptedIsTheVerdict
    BY DEF RecordParts, CallKnown, Answers, AcceptedIsTheVerdict, Accepted
  <2>3. RouterBanIsRemembered
    BY DEF RecordParts, BanKnown, Asking, RouterBanIsRemembered, Accepted, Callers
  <2>4. ReturnedIsRecorded
    BY DEF ReturnsOnly, ReturnedIsRecorded, LateRefusal
  <2> QED
    BY <2>1, <2>2, <2>3, <2>4 DEF RecordParts
<1> QED
  BY <1>1, RecordHolds, ReturnHolds, PTL

-----------------------------------------------------------------------------
(* The manager implements the one-shot register.                             *)

\* A step asks for one request, settles one, runs one, or is none of the register's.
LEMMA RowTouch ==
    ASSUME TypeOK, FreshRows, Next
    PROVE  \/ row' = row
           \/ /\ ran' = ran
              /\ \E a \in Actions, v \in Verdicts \union {Open} :
                    /\ row' = [row EXCEPT ![a] = v]
                    /\ (row[a] = Absent /\ v = Open) \/ (row[a] = Open /\ v \in Verdicts)
<1>1. ASSUME NEW a \in Actions, PersistRequest(a)
      PROVE  row' = row \/ (ran' = ran /\ row[a] = Absent /\ row' = [row EXCEPT ![a] = Open])
  BY <1>1 DEF PersistRequest, FreshRows
<1>2. ASSUME NEW a \in Actions, RecordVerdict(a)
      PROVE  \/ row' = row
             \/ /\ ran' = ran /\ row[a] = Open /\ toRecord[a] \in Verdicts
                /\ row' = [row EXCEPT ![a] = toRecord[a]]
  BY <1>2 DEF RecordVerdict, UpdatePendingRow, TypeOK
<1>3. ASSUME NEW c \in Callers, Settle(c)
      PROVE  \/ row' = row
             \/ \E a \in Actions, v \in Verdicts :
                  /\ ran' = ran /\ row[a] = Open /\ row' = [row EXCEPT ![a] = v]
  <2>1. call[c].action \in Actions /\ Verdict(call[c].decision, "none") \in Verdicts
    BY <1>3, VerdictOK DEF Settle, TypeOK, Calls
  <2> QED
    BY <1>3, <2>1 DEF Settle, UpdatePendingRow
<1>4. ASSUME NEW a \in Actions,
             Request(a) \/ Notify(a) \/ StartWait(a) \/ Wake(a) \/ Timeout(a) \/ Return(a)
             \/ Act(a) \/ Cancel(a) \/ ListFromMemory(a)
      PROVE  row' = row
  BY <1>4 DEF Request, Notify, StartWait, Wake, Timeout, CleanUp, Return, Act, Cancel,
              ListFromMemory
<1>5. ASSUME NEW c \in Callers, NEW a \in Actions, NEW d \in Choices,
             Click(c, a, d) \/ Press(c, a, d)
      PROVE  row' = row
  BY <1>5 DEF Click, Press
<1>6. ASSUME NEW c \in Callers, NEW a \in Actions, ClickBan(c, a) PROVE row' = row
  BY <1>6 DEF ClickBan
<1>7. ASSUME NEW c \in Callers,
             BanReadOwner(c) \/ StoreRule(c) \/ ReadOwner(c) \/ Recheck(c) \/ Apply(c)
      PROVE  row' = row
  BY <1>7 DEF BanReadOwner, StoreRule, ReadOwner, Recheck, Apply
<1>8. CASE Crash
  BY <1>8 DEF Crash
<1> QED
  BY <1>1, <1>2, <1>3, <1>4, <1>5, <1>6, <1>7, <1>8 DEF Next, WaiterStep, CallerStep

LEMMA RanTouch ==
    ASSUME TypeOK, Next
    PROVE  \/ ran' = ran
           \/ \E a \in Actions : /\ outcome[a].decision \in Approvals
                                 /\ ran' = ran \union {a}
<1>1. ASSUME NEW a \in Actions, Act(a)
      PROVE  ran' = ran \/ (outcome[a].decision \in Approvals /\ ran' = ran \union {a})
  BY <1>1 DEF Act
<1>2. ASSUME NEW a \in Actions,
             Request(a) \/ Notify(a) \/ PersistRequest(a) \/ StartWait(a) \/ Wake(a)
             \/ Timeout(a) \/ RecordVerdict(a) \/ Return(a) \/ Cancel(a) \/ ListFromMemory(a)
      PROVE  ran' = ran
  BY <1>2 DEF Request, Notify, PersistRequest, StartWait, Wake, Timeout, CleanUp,
              RecordVerdict, Return, Cancel, ListFromMemory
<1>3. ASSUME NEW c \in Callers, NEW a \in Actions, NEW d \in Choices,
             Click(c, a, d) \/ Press(c, a, d)
      PROVE  ran' = ran
  BY <1>3 DEF Click, Press
<1>4. ASSUME NEW c \in Callers, NEW a \in Actions, ClickBan(c, a) PROVE ran' = ran
  BY <1>4 DEF ClickBan
<1>5. ASSUME NEW c \in Callers, CallerStep(c) PROVE ran' = ran
  BY <1>5 DEF CallerStep, BanReadOwner, StoreRule, ReadOwner, Settle, Recheck, Apply
<1>6. CASE Crash
  BY <1>6 DEF Crash
<1> QED
  BY <1>1, <1>2, <1>3, <1>4, <1>5, <1>6 DEF Next, WaiterStep

Shows == [a \in Actions |-> row[a].decision]

LEMMA ShowsMoves ==
    ASSUME row \in [Actions -> Rows], NEW a \in Actions, NEW v, row' = [row EXCEPT ![a] = v]
    PROVE  Shows' = [Shows EXCEPT ![a] = v.decision]
BY DEF Shows

\* Every step of the manager is one of the register's, or leaves it as it is.
LEMMA StepImplements ==
    ASSUME TypeOK, FreshRows, RecordParts, [Next]_vars
    PROVE  [V!Next]_V!vars
<1>1. CASE UNCHANGED vars
  BY <1>1 DEF vars, V!vars
<1>2. CASE Next /\ row' = row
  <2>1. CASE ran' = ran
    BY <1>2, <2>1 DEF V!vars
  <2>2. ASSUME NEW a \in Actions, outcome[a].decision \in Approvals, ran' = ran \union {a}
        PROVE  V!Next
    <3>1. row[a].decision \in Approvals
      BY <2>2 DEF RecordParts, EchoKnown, Echoes
    <3>2. V!Run(a)
      BY <1>2, <2>2, <3>1 DEF V!Run
    <3> QED
      BY <3>2 DEF V!Next
  <2> QED
    BY <1>2, <2>1, <2>2, RanTouch
<1>3. ASSUME NEW a \in Actions, NEW v \in Verdicts \union {Open}, ran' = ran,
             row' = [row EXCEPT ![a] = v],
             (row[a] = Absent /\ v = Open) \/ (row[a] = Open /\ v \in Verdicts)
      PROVE  V!Next
  <2>1. Shows' = [Shows EXCEPT ![a] = v.decision] /\ Shows[a] = row[a].decision
    BY <1>3, ShowsMoves DEF TypeOK, Shows
  <2>2. Absent.decision = "absent" /\ Open.decision = "pending"
    BY DEF Absent, Open, Verdict
  <2>3. CASE row[a] = Absent /\ v = Open
    <3>1. V!Ask(a)
      BY <1>3, <2>1, <2>2, <2>3 DEF V!Ask, Shows
    <3> QED
      BY <3>1 DEF V!Next
  <2>4. CASE row[a] = Open /\ v \in Verdicts
    <3>1. v.decision \in Approvals \union (Decisions \ Approvals)
      BY <2>4, RowKinds
    <3>2. V!SettleAs(a, v.decision)
      BY <1>3, <2>1, <2>2, <2>4 DEF V!SettleAs, Shows
    <3> QED
      BY <3>1, <3>2 DEF V!Next
  <2> QED
    BY <1>3, <2>3, <2>4
<1> QED
  BY <1>1, <1>2, <1>3, RowTouch

\* As long as the database answers, the manager with its dictionary, its event and its row
\* is a register that is asked once, settled once, and runs only what was approved
\* (HitlVerdict).
THEOREM ManagerImplements == Spec => Implements
<1>1. Init => V!Init
  BY DEF Init, V!Init, Absent, Verdict
<1>2. TypeOK /\ FreshRows /\ RecordInv /\ [Next]_vars => [Reliable' => [V!Next]_V!vars]_vars
  <2> SUFFICES ASSUME TypeOK, FreshRows, RecordInv, [Next]_vars, Reliable'
               PROVE  [V!Next]_V!vars
    OBVIOUS
  <2>1. Reliable
    BY FaultsGrow DEF Reliable
  <2> QED
    BY <2>1, StepImplements DEF RecordInv
<1> QED
  BY <1>1, <1>2, RecordHolds, PTL DEF Spec, Implements
===============================================================================
