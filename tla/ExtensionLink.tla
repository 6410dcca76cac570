----------------------------- MODULE ExtensionLink -----------------------------
(***************************************************************************)
(* The link with the browser extension of one user: the service worker     *)
(* (extension/chrome/src/background/service-worker.js), its WebSocket      *)
(* handlers (routers/browser_extension.py), the registry                   *)
(* (services/browser_extension_registry.py) and the calls that wait on it  *)
(* (_send_and_wait of agent/tools/browser_extension_tool.py).              *)
(*                                                                         *)
(* The worker keeps one variable, ws, for its socket, but every socket it  *)
(* ever created runs the same handlers on it.  A step is a handler of the  *)
(* worker up to its await, or the code of the backend between two awaits.  *)
(* Sockets are reused once both ends have forgotten them.                  *)
(***************************************************************************)
EXTENDS Naturals, FiniteSets

CONSTANTS
    Sockets,    \* the sockets that may exist at once
    None,       \* no socket
    Calls,      \* calls of _send_and_wait
    RateLimit,  \* connections accepted in a minute (30 in the code)
    MaxFaults,  \* bound: cuts of the network, failed dials, ends of the worker, cancellations
    MaxHands    \* bound: uses of the buttons Reconnect and Disconnect

ASSUME LinkAssumption == /\ None \notin Sockets
                         /\ RateLimit \in Nat \ {0}
                         /\ MaxFaults \in Nat /\ MaxHands \in Nat

VARIABLES
    \* the service worker
    awake,      \* it runs
    ws,         \* its socket
    connecting, \* the guard of connect
    suspended,  \* it waits for the user
    timer,      \* scheduleReconnect has armed its timer
    dials,      \* calls of connect that await the configuration
    opening,    \* sockets whose onopen awaits the active tab
    \* the network
    ext,        \* ext[s]: the worker's end of s, until its onclose
    down,       \* down[s]: s is closed or cut, and whether its code is fatal
    hello,      \* sockets on which a HELLO is under way
    cmd,        \* cmd[c]: the command of call c
    reply,      \* reply[c]: the socket on which its result is under way
    \* the backend
    srv,        \* srv[s]: the handler of s
    current,    \* _connections[user]
    last,       \* ghost: the connection registered last
    replaced,   \* ghost: the connections that another one evicted
    lock,       \* who holds _lock over several steps
    attempts,   \* connections accepted in this minute
    pending,    \* pending[s]: calls in the dictionary of s
    call,       \* call[c]: where the call is, and its connection
    fut,        \* fut[c]: its future
    faults, hands

worker   == <<awake, ws, connecting, suspended, timer, dials, opening>>
network  == <<ext, down, hello>>
registry == <<srv, current, last, replaced, lock, attempts>>
calls    == <<cmd, reply, pending, call, fut>>
bounds   == <<faults, hands>>
vars     == <<worker, network, registry, calls, bounds>>

Maybe   == Sockets \union {None}
Ends    == {"none", "connecting", "open"}
Downs   == {"up", "quiet", "fatal"}
Serving == {"none", "hello", "auth", "evict", "read", "ending"}
Futures == {"none", "open", "ok", "dead"}
CallRec == [pc : {"new", "send", "wait", "done"}, on : Maybe]

Up(s) == ext[s] = "open" /\ down[s] = "up"

\* Both ends have forgotten it, and no call holds it.
Free == {s \in Sockets : /\ ext[s] = "none" /\ srv[s] = "none" /\ s \notin opening
                         /\ \A c \in Calls : /\ call[c].on # s \/ call[c].pc = "done"
                                             /\ reply[c] # s}

-----------------------------------------------------------------------------
(* The service worker.                                                     *)

\* connect, up to its await: it does nothing while another one dials, with a
\* socket, or suspended.
Connect(guard, socket, susp) ==
    IF guard \/ socket # None \/ susp
    THEN connecting' = guard /\ dials' = dials
    ELSE connecting' = TRUE /\ dials' = dials + 1

Wakes == /\ ~awake /\ awake' = TRUE
         /\ Connect(FALSE, None, FALSE)
         /\ UNCHANGED <<ws, suspended, timer, opening, network, registry, calls, bounds>>

\* The configuration is there: a new socket.
Dials == /\ dials > 0 /\ dials' = dials - 1 /\ Free # {}
         /\ LET s == CHOOSE s \in Free : TRUE IN
              /\ ws' = s
              /\ ext' = [ext EXCEPT ![s] = "connecting"]
              /\ down' = [down EXCEPT ![s] = "up"]
              /\ pending' = [pending EXCEPT ![s] = {}]
              /\ replaced' = replaced \ {s}
              /\ last' = IF last = s THEN None ELSE last
         /\ UNCHANGED <<awake, connecting, suspended, timer, opening, hello, srv, current,
                        lock, attempts, cmd, reply, call, fut, bounds>>

\* Refused connections count too.
CountedAlways == attempts + 1

\* _rate_check: a refused connection does not count.
Counted == IF attempts = RateLimit THEN attempts ELSE attempts + 1

\* onopen, up to its await, and accept on the other side.
Opens(s) ==
    /\ ext[s] = "connecting" /\ down[s] = "up"
    /\ ext' = [ext EXCEPT ![s] = "open"]
    /\ connecting' = FALSE /\ opening' = opening \union {s}
    /\ attempts' = Counted
    /\ IF attempts = RateLimit
       THEN down' = [down EXCEPT ![s] = "fatal"] /\ srv' = srv
       ELSE down' = down /\ srv' = [srv EXCEPT ![s] = "hello"]
    /\ UNCHANGED <<awake, ws, suspended, timer, dials, hello, current, last, replaced,
                   lock, calls, bounds>>

\* onopen sends HELLO on ws, whichever socket that is by now: without one, or on
\* one that is still connecting, it raises; a handler that is past it ignores it.
SaysHello(s) ==
    /\ s \in opening /\ opening' = opening \ {s}
    /\ hello' = IF ws # None /\ Up(ws) /\ srv[ws] = "hello" THEN hello \union {ws}
                ELSE hello
    /\ UNCHANGED <<awake, ws, connecting, suspended, timer, dials, ext, down, registry,
                   calls, bounds>>

\* The guard stays as it is.
StillConnecting == connecting

\* onclose opens the guard again.
ConnectingAfterClose == FALSE

\* onclose of any socket, on the shared variables.
Closes(s) ==
    /\ ext[s] # "none" /\ down[s] # "up"
    /\ ext' = [ext EXCEPT ![s] = "none"]
    /\ ws' = None /\ connecting' = ConnectingAfterClose
    /\ suspended' = (suspended \/ down[s] = "fatal")
    /\ timer' = (timer \/ ~suspended')
    /\ UNCHANGED <<awake, dials, opening, down, hello, registry, calls, bounds>>

\* A socket that is down is CLOSING until its close event, once the worker knows: the
\* guard then takes it for no socket.
Guards == {ws} \union {s \in {None} : ws # None /\ down[ws] # "up"}

TimerFires == /\ timer /\ timer' = FALSE
              /\ \E socket \in Guards : Connect(connecting, socket, suspended)
              /\ UNCHANGED <<awake, ws, suspended, opening, network, registry, calls, bounds>>

\* ws.close(); ws = null.  The close event comes later.
Drops == /\ ws' = None
         /\ down' = IF ws # None /\ down[ws] = "up" THEN [down EXCEPT ![ws] = "quiet"] ELSE down

\* manualReconnect
Reconnects == /\ awake /\ hands > 0 /\ hands' = hands - 1
              /\ Drops /\ suspended' = FALSE /\ timer' = FALSE
              /\ Connect(connecting, None, FALSE)
              /\ UNCHANGED <<awake, opening, ext, hello, registry, calls, faults>>

\* disconnect
Disconnects == /\ awake /\ hands > 0 /\ hands' = hands - 1
               /\ Drops /\ suspended' = TRUE /\ timer' = FALSE
               /\ UNCHANGED <<awake, connecting, dials, opening, ext, hello, registry, calls,
                              faults>>

\* Chrome ends the worker: its variables, timer and sockets are gone.
Sleeps ==
    /\ awake /\ faults > 0 /\ faults' = faults - 1
    /\ awake' = FALSE /\ ws' = None /\ connecting' = FALSE /\ suspended' = FALSE
    /\ timer' = FALSE /\ dials' = 0 /\ opening' = {}
    /\ down' = [s \in Sockets |-> IF ext[s] # "none" /\ down[s] = "up" THEN "quiet"
                                  ELSE down[s]]
    /\ ext' = [s \in Sockets |-> "none"]
    /\ cmd' = [c \in Calls |-> IF cmd[c] \in {"sent", "running"} THEN "lost"
                                  ELSE cmd[c]]
    /\ UNCHANGED <<hello, registry, reply, pending, call, fut, hands>>

\* handleCommand, on a socket that is still there...
Receives(c) == /\ cmd[c] = "sent"
               /\ cmd' = [cmd EXCEPT ![c] = IF ext[call[c].on] = "open" THEN "running"
                                            ELSE "lost"]
               /\ UNCHANGED <<worker, network, registry, reply, pending, call, fut, bounds>>

\* ... and its result goes out on ws, whichever socket that is by now.
Replies(c) ==
    /\ cmd[c] = "running" /\ cmd' = [cmd EXCEPT ![c] = "executed"]
    /\ reply' = IF ws # None /\ Up(ws) THEN [reply EXCEPT ![c] = ws] ELSE reply
    /\ UNCHANGED <<worker, network, registry, pending, call, fut, bounds>>

Cut(s) == /\ ext[s] # "none" /\ down[s] = "up"
          /\ faults > 0 /\ faults' = faults - 1
          /\ down' = [down EXCEPT ![s] = "quiet"]
          /\ UNCHANGED <<worker, ext, hello, registry, calls, hands>>

-----------------------------------------------------------------------------
(* The handler of a socket.                                                *)

Serve(s, step) == srv' = [srv EXCEPT ![s] = step]

HelloHeard(s) == /\ srv[s] = "hello" /\ s \in hello
                 /\ Serve(s, "auth") /\ hello' = hello \ {s}
                 /\ UNCHANGED <<worker, ext, down, current, last, replaced, lock, attempts,
                                calls, bounds>>

\* wait_for ends the handshake, or its socket is gone before the HELLO.
HelloFails(s) == /\ srv[s] = "hello" /\ Serve(s, "none")
                 /\ hello' = hello \ {s}
                 /\ down' = IF down[s] = "up" THEN [down EXCEPT ![s] = "fatal"] ELSE down
                 /\ UNCHANGED <<worker, ext, current, last, replaced, lock, attempts, calls,
                                bounds>>

\* register: the connection before is taken out and closed under the lock...
Evicts(s) == /\ srv[s] = "auth" /\ lock = None /\ current # None
             /\ Serve(s, "evict") /\ lock' = s
             /\ current' = None /\ replaced' = replaced \union {current}
             /\ down' = IF down[current] = "up" THEN [down EXCEPT ![current] = "quiet"]
                        ELSE down
             /\ UNCHANGED <<worker, ext, hello, last, attempts, calls, bounds>>

\* ... and the new one put in.
Registers(s) == /\ \/ srv[s] = "evict"
                   \/ srv[s] = "auth" /\ lock = None /\ current = None
                /\ Serve(s, "read") /\ lock' = None /\ current' = s /\ last' = s
                /\ UNCHANGED <<worker, network, replaced, attempts, calls, bounds>>

\* The reading loop pops the future of the result from its own connection.
Hears(c) ==
    /\ reply[c] # None /\ reply' = [reply EXCEPT ![c] = None]
    /\ IF srv[reply[c]] = "read" /\ c \in pending[reply[c]]
       THEN /\ pending' = [pending EXCEPT ![reply[c]] = @ \ {c}]
            /\ fut' = [fut EXCEPT ![c] = IF @ = "open" THEN "ok" ELSE @]
       ELSE UNCHANGED <<pending, fut>>
    /\ UNCHANGED <<worker, network, registry, cmd, call, bounds>>

HandlerEnds(s) == /\ srv[s] = "read" /\ down[s] # "up"
                  /\ Serve(s, "ending")
                  /\ UNCHANGED <<worker, network, current, last, replaced, lock, attempts, calls,
                                 bounds>>

\* unregister looks for the socket, not for the user.
Goes(s) == current = s

\* The futures are left to their deadlines.
LeftToWait(s) == {}

\* unregister fails the futures of the connection it removes.
Freed(s) == IF Goes(s) THEN pending[s] ELSE {}

Unregisters(s) ==
    /\ srv[s] = "ending" /\ lock = None /\ Serve(s, "none")
    /\ current' = IF Goes(s) THEN None ELSE current
    /\ fut' = [c \in Calls |-> IF c \in Freed(s) /\ fut[c] = "open" THEN "dead" ELSE fut[c]]
    /\ UNCHANGED <<worker, network, last, replaced, lock, attempts, cmd, reply, pending,
                   call, bounds>>

Minute == /\ attempts > 0 /\ attempts' = 0
          /\ UNCHANGED <<worker, network, srv, current, last, replaced, lock, calls, bounds>>

-----------------------------------------------------------------------------
(* _send_and_wait.                                                         *)

Move(c, step) == call' = [call EXCEPT ![c].pc = step]

Sends(c) == /\ call[c].pc = "new"
            /\ IF current = None
               THEN Move(c, "done") /\ UNCHANGED <<pending, fut>>
               ELSE /\ call' = [call EXCEPT ![c] = [pc |-> "send", on |-> current]]
                    /\ pending' = [pending EXCEPT ![current] = @ \union {c}]
                    /\ fut' = [fut EXCEPT ![c] = "open"]
            /\ UNCHANGED <<worker, network, registry, cmd, reply, bounds>>

\* send_text returns; on a socket that is down it raises or is lost.
Sent(c) ==
    /\ call[c].pc = "send"
    /\ IF down[call[c].on] = "up"
       THEN Move(c, "wait") /\ cmd' = [cmd EXCEPT ![c] = "sent"] /\ pending' = pending
       ELSE /\ cmd' = [cmd EXCEPT ![c] = "lost"]
            /\ \/ Move(c, "wait") /\ pending' = pending
               \/ Move(c, "done") /\ pending' = [pending EXCEPT ![call[c].on] = @ \ {c}]
    /\ UNCHANGED <<worker, network, registry, reply, fut, bounds>>

Awakes(c) == /\ call[c].pc = "wait" /\ fut[c] \in {"ok", "dead"} /\ Move(c, "done")
             /\ UNCHANGED <<worker, network, registry, cmd, reply, pending, fut, bounds>>

\* The deadline runs only while the connection is registered.
OverdueWhileLinked(c) == fut[c] = "open" /\ call[c].on = current

\* wait_for counts whatever becomes of the connection.
Overdue(c) == fut[c] = "open"

TimesOut(c) == /\ call[c].pc = "wait" /\ Overdue(c) /\ Move(c, "done")
               /\ pending' = [pending EXCEPT ![call[c].on] = @ \ {c}]
               /\ UNCHANGED <<worker, network, registry, cmd, reply, fut, bounds>>

\* A cancelled call leaves its future in the dictionary.
Cancels(c) == /\ call[c].pc \in {"send", "wait"} /\ Move(c, "done")
              /\ faults > 0 /\ faults' = faults - 1
              /\ UNCHANGED <<worker, network, registry, cmd, reply, pending, fut, hands>>

-----------------------------------------------------------------------------
\* The worker has just been installed.
Init == /\ awake = FALSE /\ ws = None /\ connecting = FALSE /\ suspended = FALSE
        /\ timer = FALSE /\ dials = 0 /\ opening = {}
        /\ ext = [s \in Sockets |-> "none"] /\ down = [s \in Sockets |-> "up"]
        /\ hello = {}
        /\ cmd = [c \in Calls |-> "none"] /\ reply = [c \in Calls |-> None]
        /\ srv = [s \in Sockets |-> "none"] /\ current = None /\ last = None
        /\ replaced = {} /\ lock = None /\ attempts = 0
        /\ pending = [s \in Sockets |-> {}]
        /\ call = [c \in Calls |-> [pc |-> "new", on |-> None]]
        /\ fut = [c \in Calls |-> "none"]
        /\ faults = MaxFaults /\ hands = MaxHands

Works(s) == \/ Opens(s) \/ SaysHello(s) \/ Closes(s)
            \/ HelloHeard(s) \/ Evicts(s) \/ Registers(s)
            \/ HandlerEnds(s) \/ Unregisters(s)

Runs(c) == Sent(c) \/ Awakes(c) \/ TimesOut(c)

Next == \/ Wakes \/ Dials \/ TimerFires \/ Reconnects \/ Disconnects \/ Sleeps \/ Minute
        \/ \E s \in Sockets : Works(s) \/ HelloFails(s) \/ Cut(s)
        \/ \E c \in Calls : Sends(c) \/ Runs(c) \/ Receives(c) \/ Replies(c)
                          \/ Hears(c) \/ Cancels(c)

Spec == Init /\ [][Next]_vars

\* The two event loops run what is ready, sockets open or are cut, close events
\* and deadlines come.  Nothing is said of the user, of Chrome or of the page.
FairSpec == /\ Spec /\ WF_vars(Dials) /\ WF_vars(TimerFires)
            /\ \A s \in Sockets : WF_vars(Works(s)) /\ WF_vars(HelloFails(s))
            /\ \A c \in Calls : WF_vars(Runs(c))

-----------------------------------------------------------------------------
\* Types.
TypeOK == /\ awake \in BOOLEAN /\ ws \in Maybe /\ connecting \in BOOLEAN
          /\ suspended \in BOOLEAN /\ timer \in BOOLEAN /\ dials \in Nat
          /\ opening \subseteq Sockets /\ hello \subseteq Sockets
          /\ ext \in [Sockets -> Ends] /\ down \in [Sockets -> Downs]
          /\ cmd \in [Calls -> {"none", "sent", "running", "executed", "lost"}]
          /\ reply \in [Calls -> Maybe]
          /\ srv \in [Sockets -> Serving] /\ current \in Maybe /\ last \in Maybe
          /\ replaced \subseteq Sockets /\ lock \in Maybe /\ attempts \in 0..RateLimit
          /\ pending \in [Sockets -> SUBSET Calls] /\ call \in [Calls -> CallRec]
          /\ fut \in [Calls -> Futures]
          /\ faults \in 0..MaxFaults /\ hands \in 0..MaxHands

\* The connection registered last stays registered while its handler reads,
\* whatever the handlers of older sockets do when they end at last.
LastStays == last # None /\ srv[last] = "read" => current = last \/ lock # None

\* "Cancel every pending future to free the agent code waiting on them": once the
\* handler of a connection has unregistered it no call still waits on it for an
\* answer that cannot come.  (A connection that was replaced is not unregistered by
\* anyone: its calls wait for their deadline.)
NobodyWaitsOnTheGone == \A c \in Calls :
    call[c].pc \in {"send", "wait"} /\ fut[c] = "open"
        => current = call[c].on \/ call[c].on \in replaced

\* The registry tells the truth of the connections: both of the above.
RegistryIsSound == LastStays /\ NobodyWaitsOnTheGone

\* Every call ends, whatever becomes of its connection.
CallsEnd == \A c \in Calls : call[c].pc = "send" ~> call[c].pc = "done"

\* After the last cut the worker and the backend agree on a socket again, unless a
\* fatal close told the worker to stop trying, Chrome has ended it, or the user took
\* the link in hand.
Settled == (ws # None /\ ws = current) \/ suspended \/ ~awake
LinkComesBack == <>[](Settled \/ hands < MaxHands)
=============================================================================
