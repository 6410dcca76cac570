--------------------------- MODULE ExtensionProofs ---------------------------
(***************************************************************************)
(* Theorems about ExtensionLink for any number of sockets and calls, any   *)
(* rate limit, and any number of cuts, ends of the worker and buttons.     *)
(***************************************************************************)
EXTENDS ExtensionLink, TLAPS

\* A change of the step of a call, and nothing else of it.
LEMMA MoveOK ==
    ASSUME NEW c \in Calls, call \in [Calls -> CallRec],
           NEW step \in {"new", "send", "wait", "done"}, Move(c, step)
    PROVE  /\ call' \in [Calls -> CallRec]
           /\ call'[c].pc = step /\ call'[c].on = call[c].on
           /\ \A d \in Calls \ {c} : call'[d] = call[d]
BY DEF Move, CallRec

\* The socket a dial creates is one that both ends had forgotten.
LEMMA DialsFree ==
    ASSUME Dials
    PROVE  \E s \in Free :
             /\ s \in Sockets
             /\ ws' = s
             /\ ext' = [ext EXCEPT ![s] = "connecting"]
             /\ down' = [down EXCEPT ![s] = "up"]
             /\ pending' = [pending EXCEPT ![s] = {}]
             /\ replaced' = replaced \ {s}
             /\ last' = IF last = s THEN None ELSE last
BY DEF Dials, Free

-----------------------------------------------------------------------------
(* Types.                                                                  *)

LEMMA ConnectOK ==
    ASSUME NEW guard \in BOOLEAN, NEW socket, NEW susp, dials \in Nat,
           Connect(guard, socket, susp)
    PROVE  connecting' \in BOOLEAN /\ dials' \in Nat
<1>1. CASE guard \/ socket # None \/ susp
  BY <1>1 DEF Connect
<1>2. CASE ~(guard \/ socket # None \/ susp)
  <2>1. connecting' = TRUE /\ dials' = dials + 1
    BY <1>2 DEF Connect
  <2> QED
    BY <2>1
<1> QED
  BY <1>1, <1>2

LEMMA TypeWorker ==
    ASSUME TypeOK, Wakes \/ Dials \/ TimerFires \/ Reconnects \/ Disconnects \/ Sleeps
    PROVE  TypeOK'
<1> USE DEF TypeOK, Maybe, worker, network, registry, calls, bounds
<1>1. CASE Wakes
  <2>1. connecting' \in BOOLEAN /\ dials' \in Nat
    BY <1>1, ConnectOK DEF Wakes
  <2>2. /\ awake' = TRUE
        /\ UNCHANGED <<ws, suspended, timer, opening, network, registry, calls, bounds>>
    BY <1>1 DEF Wakes
  <2> QED
    BY <2>1, <2>2
<1>2. CASE Dials
  <2>1. dials' \in Nat
    BY <1>2 DEF Dials
  <2>2. PICK s \in Sockets :
             /\ ws' = s
             /\ ext' = [ext EXCEPT ![s] = "connecting"]
             /\ down' = [down EXCEPT ![s] = "up"]
             /\ pending' = [pending EXCEPT ![s] = {}]
             /\ replaced' = replaced \ {s}
             /\ last' = IF last = s THEN None ELSE last
    BY <1>2, DialsFree
  <2> QED
    BY <1>2, <2>1, <2>2 DEF Dials, Ends, Downs
<1>3. CASE TimerFires
  <2>1. connecting' \in BOOLEAN /\ dials' \in Nat
    BY <1>3, ConnectOK DEF TimerFires
  <2>2. /\ timer' = FALSE
        /\ UNCHANGED <<awake, ws, suspended, opening, network, registry, calls, bounds>>
    BY <1>3 DEF TimerFires
  <2> QED
    BY <2>1, <2>2
<1>4. CASE Reconnects
  <2>1. connecting' \in BOOLEAN /\ dials' \in Nat
    BY <1>4, ConnectOK DEF Reconnects
  <2>2. ws' \in Maybe /\ down' \in [Sockets -> Downs]
    <3>1. Drops
      BY <1>4 DEF Reconnects
    <3> QED
      BY <3>1 DEF Drops, Downs
  <2>3. hands' \in 0..MaxHands
    <3>1. hands > 0 /\ hands' = hands - 1
      BY <1>4 DEF Reconnects
    <3> QED
      BY <3>1, LinkAssumption
  <2>4. /\ suspended' = FALSE /\ timer' = FALSE
        /\ UNCHANGED <<awake, opening, ext, hello, registry, calls, faults>>
    BY <1>4 DEF Reconnects
  <2> QED
    BY <2>1, <2>2, <2>3, <2>4
<1>5. CASE Disconnects
  <2>1. ws' \in Maybe /\ down' \in [Sockets -> Downs]
    <3>1. Drops
      BY <1>5 DEF Disconnects
    <3> QED
      BY <3>1 DEF Drops, Downs
  <2>2. hands' \in 0..MaxHands
    <3>1. hands > 0 /\ hands' = hands - 1
      BY <1>5 DEF Disconnects
    <3> QED
      BY <3>1, LinkAssumption
  <2>3. /\ suspended' = TRUE /\ timer' = FALSE
        /\ UNCHANGED <<awake, connecting, dials, opening, ext, hello, registry, calls, faults>>
    BY <1>5 DEF Disconnects
  <2> QED
    BY <2>1, <2>2, <2>3
<1>6. CASE Sleeps
  <2>1. /\ ext' \in [Sockets -> Ends] /\ down' \in [Sockets -> Downs]
        /\ cmd' \in [Calls -> {"none", "sent", "running", "executed", "lost"}]
    BY <1>6 DEF Sleeps, Ends, Downs
  <2>2. faults' \in 0..MaxFaults
    <3>1. faults > 0 /\ faults' = faults - 1
      BY <1>6 DEF Sleeps
    <3> QED
      BY <3>1, LinkAssumption
  <2>3. /\ awake' = FALSE /\ connecting' = FALSE /\ suspended' = FALSE /\ timer' = FALSE
        /\ ws' = None /\ dials' = 0 /\ opening' = {}
        /\ UNCHANGED <<hello, registry, reply, pending, call, fut, hands>>
    BY <1>6 DEF Sleeps
  <2> QED
    BY <2>1, <2>2, <2>3
<1> QED
  BY <1>1, <1>2, <1>3, <1>4, <1>5, <1>6

LEMMA TypeSockets ==
    ASSUME TypeOK, NEW s \in Sockets, Works(s) \/ HelloFails(s) \/ Cut(s)
    PROVE  TypeOK'
<1> USE DEF TypeOK, Maybe, worker, network, registry, calls, bounds, Serve, Serving
<1>1. CASE Opens(s)
  <2>1. Counted \in 0..RateLimit
    BY LinkAssumption DEF Counted
  <2> QED
    BY <1>1, <2>1 DEF Opens, Ends, Downs
<1>2. CASE SaysHello(s)
  BY <1>2 DEF SaysHello
<1>3. CASE Closes(s)
  BY <1>3 DEF Closes, ConnectingAfterClose, Ends
<1>4. CASE HelloHeard(s)
  BY <1>4 DEF HelloHeard
<1>5. CASE Evicts(s)
  BY <1>5 DEF Evicts, Downs
<1>6. CASE Registers(s)
  BY <1>6 DEF Registers
<1>7. CASE HandlerEnds(s)
  BY <1>7 DEF HandlerEnds
<1>8. CASE Unregisters(s)
  BY <1>8 DEF Unregisters, Freed, Goes, Futures
<1>9. CASE HelloFails(s)
  BY <1>9 DEF HelloFails, Downs
<1>10. CASE Cut(s)
  BY <1>10, LinkAssumption DEF Cut, Downs
<1> QED
  BY <1>1, <1>2, <1>3, <1>4, <1>5, <1>6, <1>7, <1>8, <1>9, <1>10 DEF Works

LEMMA TypeCalls ==
    ASSUME TypeOK, NEW c \in Calls,
           Sends(c) \/ Runs(c) \/ Receives(c) \/ Replies(c) \/ Hears(c) \/ Cancels(c)
    PROVE  TypeOK'
<1> USE DEF TypeOK, Maybe, worker, network, registry, calls, bounds
<1>1. CASE Sends(c)
  <2>1. call' \in [Calls -> CallRec]
    BY <1>1, MoveOK DEF Sends, CallRec
  <2> QED
    BY <1>1, <2>1 DEF Sends, Futures
<1>2. CASE Sent(c)
  <2>1. call' \in [Calls -> CallRec]
    BY <1>2, MoveOK DEF Sent
  <2> QED
    BY <1>2, <2>1 DEF Sent
<1>3. CASE Awakes(c)
  BY <1>3, MoveOK DEF Awakes
<1>4. CASE TimesOut(c)
  BY <1>4, MoveOK DEF TimesOut
<1>5. CASE Receives(c)
  BY <1>5 DEF Receives
<1>6. CASE Replies(c)
  BY <1>6 DEF Replies
<1>7. CASE Hears(c)
  BY <1>7 DEF Hears, Futures
<1>8. CASE Cancels(c)
  BY <1>8, MoveOK, LinkAssumption DEF Cancels
<1> QED
  BY <1>1, <1>2, <1>3, <1>4, <1>5, <1>6, <1>7, <1>8 DEF Runs

\* The variables of the worker, the network, the registry and the calls keep their types;
\* the connections of a minute never exceed the limit.
THEOREM TypeCorrect == Spec => []TypeOK
<1>1. Init => TypeOK
  <2> SUFFICES ASSUME Init PROVE TypeOK
    OBVIOUS
  <2>1. awake \in BOOLEAN /\ connecting \in BOOLEAN /\ suspended \in BOOLEAN /\ timer \in BOOLEAN
    BY DEF Init
  <2>2. /\ ws \in Maybe /\ dials \in Nat /\ opening \subseteq Sockets /\ hello \subseteq Sockets
        /\ ext \in [Sockets -> Ends] /\ down \in [Sockets -> Downs]
        /\ cmd \in [Calls -> {"none", "sent", "running", "executed", "lost"}]
        /\ reply \in [Calls -> Maybe] /\ srv \in [Sockets -> Serving]
        /\ current \in Maybe /\ last \in Maybe /\ replaced \subseteq Sockets /\ lock \in Maybe
        /\ attempts \in 0..RateLimit /\ pending \in [Sockets -> SUBSET Calls]
        /\ call \in [Calls -> CallRec] /\ fut \in [Calls -> Futures]
        /\ faults \in 0..MaxFaults /\ hands \in 0..MaxHands
    BY LinkAssumption DEF Init, Maybe, Ends, Downs, Serving, CallRec, Futures
  <2> QED
    BY <2>1, <2>2 DEF TypeOK
<1>2. TypeOK /\ [Next]_vars => TypeOK'
  <2>1. CASE Minute
    BY <2>1, LinkAssumption DEF Minute, TypeOK, worker, network, calls, bounds
  <2>2. CASE UNCHANGED vars
    BY <2>2 DEF TypeOK, vars, worker, network, registry, calls, bounds
  <2> QED
    BY <2>1, <2>2, TypeWorker, TypeSockets, TypeCalls DEF Next
<1> QED
  BY <1>1, <1>2, PTL DEF Spec

-----------------------------------------------------------------------------
(* The registry.  While the lock is held over several steps nothing is     *)
(* registered, and a call that waits is in the dictionary of its socket.   *)

Waits(c) == call[c].pc \in {"send", "wait"} /\ fut[c] = "open"

LockOK    == /\ \A s \in Sockets : srv[s] = "evict" => lock = s
             /\ lock # None => current = None
PendingOK == \A c \in Calls :
    Waits(c) => call[c].on \in Sockets /\ c \in pending[call[c].on]
LinkInv   == LockOK /\ PendingOK /\ RegistryIsSound

LEMMA LinkUnchanged ==
    ASSUME LinkInv, UNCHANGED <<srv, current, last, replaced, lock, pending, call, fut>>
    PROVE  LinkInv'
BY DEF LinkInv, LockOK, PendingOK, Waits, RegistryIsSound, LastStays, NobodyWaitsOnTheGone

\* A dial takes a socket that nobody waits on.
LEMMA LinkDials ==
    ASSUME TypeOK, LinkInv, Dials
    PROVE  LinkInv'
<1>1. PICK s \in Free : /\ s \in Sockets
                        /\ pending' = [pending EXCEPT ![s] = {}]
                        /\ replaced' = replaced \ {s}
                        /\ last' = IF last = s THEN None ELSE last
  BY DialsFree
<1>2. UNCHANGED <<srv, current, lock, call, fut>>
  BY DEF Dials
<1>3. \A c \in Calls : Waits(c) => call[c].on # s
  BY <1>1 DEF Free, Waits
<1>4. LockOK'
  BY <1>2 DEF LinkInv, LockOK
<1>5. PendingOK'
  BY <1>1, <1>2, <1>3 DEF LinkInv, PendingOK, Waits, TypeOK
<1>6. LastStays'
  BY <1>1, <1>2 DEF LinkInv, RegistryIsSound, LastStays
<1>7. NobodyWaitsOnTheGone'
  BY <1>1, <1>2, <1>3 DEF LinkInv, RegistryIsSound, NobodyWaitsOnTheGone, Waits
<1> QED
  BY <1>4, <1>5, <1>6, <1>7 DEF LinkInv, RegistryIsSound

\* The handshake and the end of the reading loop move one handler, not to or from
\* an eviction, and not into the reading loop.
LEMMA LinkHandlers ==
    ASSUME TypeOK, LinkInv, NEW s \in Sockets,
           Opens(s) \/ HelloHeard(s) \/ HelloFails(s) \/ HandlerEnds(s)
    PROVE  LinkInv'
<1>1. UNCHANGED <<current, last, replaced, lock, pending, call, fut>>
  BY DEF Opens, HelloHeard, HelloFails, HandlerEnds, calls
<1>2. \A t \in Sockets : /\ srv'[t] = "evict" => srv[t] = "evict"
                         /\ srv'[t] = "read" => srv[t] = "read"
  BY DEF Opens, HelloHeard, HelloFails, HandlerEnds, Serve, TypeOK
<1>3. last \in Sockets \union {None}
  BY DEF TypeOK, Maybe
<1> QED
  BY <1>1, <1>2, <1>3 DEF LinkInv, LockOK, PendingOK, Waits, RegistryIsSound, LastStays,
     NobodyWaitsOnTheGone

LEMMA LinkRegister ==
    ASSUME TypeOK, LinkInv, NEW s \in Sockets, Evicts(s) \/ Registers(s)
    PROVE  LinkInv'
<1>1. UNCHANGED <<pending, call, fut>> /\ PendingOK'
  BY DEF Evicts, Registers, calls, LinkInv, PendingOK, Waits
<1>2. s # None /\ last \in Sockets \union {None} /\ srv \in [Sockets -> Serving]
  BY LinkAssumption DEF TypeOK, Maybe
<1>3. CASE Evicts(s)
  <2>1. /\ lock' = s /\ current' = None /\ lock = None
        /\ replaced' = replaced \union {current} /\ srv' = [srv EXCEPT ![s] = "evict"]
    BY <1>3 DEF Evicts, Serve
  <2>2. LockOK'
    BY <1>2, <2>1, LinkAssumption DEF LinkInv, LockOK
  <2>3. RegistryIsSound'
    BY <1>1, <1>2, <2>1 DEF LinkInv, RegistryIsSound, LastStays, NobodyWaitsOnTheGone
  <2> QED
    BY <1>1, <2>2, <2>3 DEF LinkInv
<1>4. CASE Registers(s)
  <2>1. /\ lock' = None /\ current' = s /\ last' = s /\ replaced' = replaced
        /\ srv' = [srv EXCEPT ![s] = "read"]
    BY <1>4 DEF Registers, Serve
  <2>2. current = None /\ \A t \in Sockets : srv[t] = "evict" => t = s
    BY <1>2, <1>4, LinkAssumption DEF Registers, LinkInv, LockOK
  <2>3. LockOK'
    BY <1>2, <2>1, <2>2 DEF LockOK
  <2>4. \A c \in Calls : Waits(c) => call[c].on \in replaced
    BY <2>2, LinkAssumption DEF LinkInv, RegistryIsSound, NobodyWaitsOnTheGone, PendingOK, Waits
  <2>5. RegistryIsSound'
    BY <1>1, <2>1, <2>4 DEF RegistryIsSound, LastStays, NobodyWaitsOnTheGone, Waits
  <2> QED
    BY <1>1, <2>3, <2>5 DEF LinkInv
<1> QED
  BY <1>3, <1>4

\* The futures of the connection that goes are failed with it.
LEMMA LinkUnregisters ==
    ASSUME TypeOK, LinkInv, NEW s \in Sockets, Unregisters(s)
    PROVE  LinkInv'
<1>1. /\ lock = None /\ srv[s] = "ending" /\ srv' = [srv EXCEPT ![s] = "none"]
      /\ current' = IF current = s THEN None ELSE current
      /\ UNCHANGED <<last, replaced, lock, pending, call>>
  BY DEF Unregisters, Serve, Goes
<1>2. \A c \in Calls : /\ fut'[c] = "open" => fut[c] = "open"
                       /\ current = s /\ c \in pending[s] => fut'[c] # "open"
  BY DEF Unregisters, Freed, Goes
<1>3. LockOK'
  BY <1>1 DEF LinkInv, LockOK, TypeOK
<1>4. PendingOK'
  BY <1>1, <1>2 DEF LinkInv, PendingOK, Waits
<1>5. LastStays'
  BY <1>1 DEF LinkInv, RegistryIsSound, LastStays, TypeOK, Maybe
<1>6. NobodyWaitsOnTheGone'
  BY <1>1, <1>2 DEF LinkInv, RegistryIsSound, NobodyWaitsOnTheGone, PendingOK, Waits
<1> QED
  BY <1>3, <1>4, <1>5, <1>6 DEF LinkInv, RegistryIsSound

LEMMA LinkCalls ==
    ASSUME TypeOK, LinkInv, NEW c \in Calls,
           Sends(c) \/ Runs(c) \/ Hears(c) \/ Cancels(c)
    PROVE  LinkInv'
<1>1. UNCHANGED <<srv, current, last, replaced, lock>>
  BY DEF Sends, Runs, Sent, Awakes, TimesOut, Hears, Cancels, registry
<1>2. LockOK' /\ LastStays'
  BY <1>1 DEF LinkInv, LockOK, RegistryIsSound, LastStays
<1> SUFFICES PendingOK' /\ NobodyWaitsOnTheGone'
  BY <1>2 DEF LinkInv, RegistryIsSound
<1>3. CASE Sends(c)
  <2>1. CASE current = None
    <3>1. pending' = pending /\ fut' = fut /\ call'[c].pc = "done"
          /\ \A d \in Calls \ {c} : call'[d] = call[d]
      BY <1>3, <2>1, MoveOK DEF Sends, TypeOK
    <3> QED
      BY <1>1, <3>1 DEF LinkInv, PendingOK, Waits, RegistryIsSound, NobodyWaitsOnTheGone
  <2>2. CASE current # None
    <3>1. /\ call' = [call EXCEPT ![c] = [pc |-> "send", on |-> current]]
          /\ pending' = [pending EXCEPT ![current] = @ \union {c}]
          /\ fut' = [fut EXCEPT ![c] = "open"]
      BY <1>3, <2>2 DEF Sends
    <3>2. /\ call'[c].on = current /\ \A d \in Calls \ {c} : call'[d] = call[d] /\ fut'[d] = fut[d]
          /\ current \in Sockets /\ c \in pending'[current]
          /\ \A t \in Sockets : pending[t] \subseteq pending'[t]
      BY <2>2, <3>1 DEF TypeOK, Maybe
    <3> QED
      BY <1>1, <3>2 DEF LinkInv, PendingOK, Waits, RegistryIsSound, NobodyWaitsOnTheGone
  <2> QED
    BY <2>1, <2>2
<1>4. CASE Hears(c)
  <2>1. /\ call' = call /\ \A d \in Calls \ {c} : fut'[d] = fut[d]
        /\ \A t \in Sockets, d \in Calls \ {c} : d \in pending[t] => d \in pending'[t]
        /\ (pending' = pending /\ fut' = fut) \/ fut'[c] # "open"
    BY <1>4 DEF Hears, TypeOK
  <2> QED
    BY <1>1, <2>1 DEF LinkInv, PendingOK, Waits, RegistryIsSound, NobodyWaitsOnTheGone
<1>5. CASE Runs(c) \/ Cancels(c)
  <2>1. /\ fut' = fut /\ call'[c].on = call[c].on /\ call'[c].pc \in {"wait", "done"}
        /\ call'[c].pc = "wait" => call[c].pc = "send" /\ pending' = pending
        /\ \A d \in Calls \ {c} : call'[d] = call[d]
    BY <1>5, MoveOK DEF Runs, Sent, Awakes, TimesOut, Cancels, TypeOK
  <2>2. \A t \in Sockets, d \in Calls \ {c} : d \in pending[t] => d \in pending'[t]
    BY <1>5 DEF Runs, Sent, Awakes, TimesOut, Cancels, TypeOK
  <2> QED
    BY <1>1, <2>1, <2>2 DEF LinkInv, PendingOK, Waits, RegistryIsSound, NobodyWaitsOnTheGone
<1> QED
  BY <1>3, <1>4, <1>5

\* The connection registered last stays registered while it is read, and no call waits
\* on a connection that was unregistered (RegistryIsSound), whatever the order in which
\* sockets are replaced, cut and noticed.
THEOREM RegistryTellsTheTruth == Spec => []RegistryIsSound
<1>1. Init => LinkInv
  BY DEF Init, LinkInv, LockOK, PendingOK, Waits, RegistryIsSound, LastStays,
     NobodyWaitsOnTheGone
<1>2. TypeOK /\ LinkInv /\ [Next]_vars => LinkInv'
  <2> SUFFICES ASSUME TypeOK, LinkInv, [Next]_vars PROVE LinkInv'
    OBVIOUS
  <2>1. CASE Wakes \/ TimerFires \/ Reconnects \/ Disconnects \/ Sleeps \/ Minute
    <3>1. UNCHANGED <<srv, current, last, replaced, lock, pending, call, fut>>
      BY <2>1 DEF Wakes, TimerFires, Reconnects, Disconnects, Sleeps, Minute, registry, calls
    <3> QED
      BY <3>1, LinkUnchanged
  <2>2. CASE \E s \in Sockets : SaysHello(s) \/ Closes(s) \/ Cut(s)
    <3>1. UNCHANGED <<srv, current, last, replaced, lock, pending, call, fut>>
      BY <2>2 DEF SaysHello, Closes, Cut, registry, calls
    <3> QED
      BY <3>1, LinkUnchanged
  <2>3. CASE \E c \in Calls : Receives(c) \/ Replies(c)
    <3>1. UNCHANGED <<srv, current, last, replaced, lock, pending, call, fut>>
      BY <2>3 DEF Receives, Replies, registry
    <3> QED
      BY <3>1, LinkUnchanged
  <2>4. CASE UNCHANGED vars
    <3>1. UNCHANGED <<srv, current, last, replaced, lock, pending, call, fut>>
      BY <2>4 DEF vars, registry, calls
    <3> QED
      BY <3>1, LinkUnchanged
  <2> QED
    BY <2>1, <2>2, <2>3, <2>4, LinkDials, LinkHandlers, LinkRegister, LinkUnregisters, LinkCalls
    DEF Next, Works
<1>3. LinkInv => RegistryIsSound
  BY DEF LinkInv
<1> QED
  BY <1>1, <1>2, <1>3, TypeCorrect, PTL DEF Spec
=============================================================================
