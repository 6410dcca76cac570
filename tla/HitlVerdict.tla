----------------------------- MODULE HitlVerdict -----------------------------
(***************************************************************************)
(* What a human validation promises: a request is asked once, settled at   *)
(* most once, and its action runs only after it was settled by an          *)
(* approval.  HitlManager implements it with a dictionary, an event and a  *)
(* table row that several callers, a timeout and restarts race for.        *)
(***************************************************************************)
CONSTANTS Actions, Approvals, Refusals

VARIABLES verdict, ran

vars == <<verdict, ran>>

Init == verdict = [a \in Actions |-> "absent"] /\ ran = {}

Ask(a) ==
    /\ verdict[a] = "absent"
    /\ verdict' = [verdict EXCEPT ![a] = "pending"]
    /\ UNCHANGED ran

SettleAs(a, d) ==
    /\ verdict[a] = "pending"
    /\ verdict' = [verdict EXCEPT ![a] = d]
    /\ UNCHANGED ran

Run(a) ==
    /\ verdict[a] \in Approvals
    /\ ran' = ran \union {a}
    /\ UNCHANGED verdict

Next == \E a \in Actions :
    \/ Ask(a) \/ Run(a)
    \/ \E d \in Approvals \union Refusals : SettleAs(a, d)

Spec == Init /\ [][Next]_vars
=============================================================================
