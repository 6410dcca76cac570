----------------------------- MODULE DesktopLink -----------------------------
(***************************************************************************)
(* The link between the backend and the desktop daemon of one user:        *)
(* services/desktop_registry.py, the WebSocket handler of                  *)
(* routers/desktop.py and the session loop of desktop/ws.go.               *)
(*                                                                         *)
(* Links are numbered in the order the daemon dials them.  A reset cuts    *)
(* the wire of a link; the backend's handler and the daemon notice it each *)
(* at their own time, so that a link the daemon has already replaced may   *)
(* still be read, and even be registered, by its old handler.  Timers are  *)
(* not measured: a grace or a command timeout may expire whenever the code *)
(* would look at it.                                                       *)
(***************************************************************************)
EXTENDS Naturals, FiniteSets

CONSTANTS
    Calls,          \* calls of send_command
    ReconnectBase,  \* reconnectBaseDelay of the daemon, in seconds
    ReconnectMax,   \* reconnectMaxDelay
    MaxLinks,       \* bound: links the daemon opens
    DialsFail       \* whether a dial may fail

ASSUME DelaysAssumption == /\ ReconnectBase \in Nat /\ ReconnectMax \in Nat
                           /\ ReconnectBase <= ReconnectMax
ASSUME LinksAssumption  == MaxLinks \in Nat /\ DialsFail \in BOOLEAN

VARIABLES
    current,    \* _connections[user]: a link, or 0
    wire,       \* wire[l]: the TCP connection of link l
    handler,    \* handler[l]: the WebSocket handler of link l
    rank,       \* rank[l]: the order of the calls of register, 0 before
    pending,    \* pending[l]: _pending of the DesktopConnection of l
    answers,    \* answers[l]: its _results, whose events are set
    daemon,     \* the session loop of the daemon
    call,       \* call[c]: where send_command stands
    cmd         \* cmd[k]: what became of the command with identifier k

links == <<wire, handler, rank>>
conns == <<pending, answers>>
vars  == <<current, links, conns, daemon, call, cmd>>

Links   == 1..MaxLinks
CmdIds  == Calls \X {1, 2}          \* one identifier per attempt
Daemons == [pc : {"away", "on"}, link : 0..MaxLinks,
            wait : 0..ReconnectMax, delay : 0..ReconnectMax]
Launched == [pc |-> "away", link |-> 0, wait |-> 0, delay |-> ReconnectBase]
CallRec == [pc : {"idle", "seek", "send", "wait", "done"}, link : 0..MaxLinks,
            attempt : {1, 2},
            outcome : {"none", "answered", "timeout", "absent", "cancelled"}]
NewCall == [pc |-> "idle", link |-> 0, attempt |-> 1, outcome |-> "none"]
Stages  == {"unsent", "sent", "ran", "replied", "heard", "lost", "mute"}

Executed(k) == cmd[k].at \in {"ran", "replied", "heard", "mute"}
Id(c)       == <<c, call[c].attempt>>
Ranked      == {l \in Links : rank[l] > 0}

-----------------------------------------------------------------------------
(* The daemon and the wire.                                                *)

\* The bound on the delay is forgotten.
DoubledForEver(d) == 2 * d

Doubled(d) == IF 2 * d > ReconnectMax THEN ReconnectMax ELSE 2 * d

\* The session is over or was never opened: the loop sleeps for delay, which it
\* doubles for the next time and never resets.
Sleeping == [daemon EXCEPT !.pc = "away", !.link = 0, !.wait = daemon.delay,
                           !.delay = Doubled(daemon.delay)]

Dial == /\ daemon.pc = "away"
        /\ \E l \in Links :
             /\ wire[l] = "none"
             /\ \A m \in 1..(l - 1) : wire[m] # "none"
             /\ wire' = [wire EXCEPT ![l] = "up"]
             /\ handler' = [handler EXCEPT ![l] = "handshake"]
             /\ daemon' = [daemon EXCEPT !.pc = "on", !.link = l, !.wait = 0]
        /\ UNCHANGED <<current, rank, conns, call, cmd>>

DialFails == /\ daemon.pc = "away" /\ DialsFail
             /\ daemon' = Sleeping
             /\ UNCHANGED <<current, links, conns, call, cmd>>

Cut(l) == /\ wire[l] = "up"
          /\ wire' = [wire EXCEPT ![l] = "cut"]
          /\ UNCHANGED <<current, handler, rank, conns, daemon, call, cmd>>

\* ReadMessage fails; the goroutines of the session go on.
LoseSession == /\ daemon.pc = "on" /\ wire[daemon.link] = "cut"
               /\ daemon' = Sleeping
               /\ UNCHANGED <<current, links, conns, call, cmd>>

\* A command is read and dispatched in a goroutine of its own, which executes it
\* whatever becomes of the session.
Execute(k) == /\ cmd[k].at = "sent" /\ daemon.pc = "on" /\ daemon.link = cmd[k].link
              /\ cmd' = [cmd EXCEPT ![k].at = "ran"]
              /\ UNCHANGED <<current, links, conns, daemon, call>>

\* The reply is written on the link that brought the command, or nowhere.
Reply(k) == /\ cmd[k].at = "ran"
            /\ cmd' = [cmd EXCEPT ![k].at = IF wire[cmd[k].link] = "up"
                                            THEN "replied" ELSE "mute"]
            /\ UNCHANGED <<current, links, conns, daemon, call>>

-----------------------------------------------------------------------------
(* The handlers of the backend.                                            *)

\* The token is checked and the user read from the database, then the connection
\* replaces whatever was registered; the wire may have been cut meanwhile.
Register(l) == /\ handler[l] = "handshake"
               /\ handler' = [handler EXCEPT ![l] = "reading"]
               /\ rank' = [rank EXCEPT ![l] = Cardinality(Ranked) + 1]
               /\ current' = l
               /\ UNCHANGED <<wire, conns, daemon, call, cmd>>

\* A refused handshake, or a client gone before it: nothing was registered.
Refuse(l) == /\ handler[l] = "handshake"
             /\ handler' = [handler EXCEPT ![l] = "gone"]
             /\ wire' = [wire EXCEPT ![l] = "cut"]
             /\ UNCHANGED <<current, rank, conns, daemon, call, cmd>>

\* unregister called without the socket.
UnregisteredBlindly(l) == 0

\* unregister(user, ws) pops the connection only if it is still this one.
Unregistered(l) == IF current = l THEN 0 ELSE current
HandlerEnds(l) == /\ handler[l] = "reading" /\ wire[l] = "cut"
                  /\ handler' = [handler EXCEPT ![l] = "gone"]
                  /\ current' = Unregistered(l)
                  /\ UNCHANGED <<wire, rank, conns, daemon, call, cmd>>

\* The identifier is not compared: any pending command is answered.
MatchAnybody(k, l) == pending[l]

\* deliver_result looks the identifier up among the pending of the CURRENT link.
Matched(k, l) == pending[l] \intersect {k}
Deliver(k) ==
    /\ cmd[k].at = "replied" /\ handler[cmd[k].link] = "reading"
    /\ cmd' = [cmd EXCEPT ![k].at = "heard"]
    /\ answers' = [l \in Links |-> IF l = current THEN answers[l] \union Matched(k, l)
                                                  ELSE answers[l]]
    /\ UNCHANGED <<current, links, pending, daemon, call>>

-----------------------------------------------------------------------------
(* send_command.                                                           *)

\* _run_command on link l: the identifier is pending, send_text is awaited.
Issue(c, l, attempt) ==
    /\ pending' = [pending EXCEPT ![l] = @ \union {<<c, attempt>>}]
    /\ call' = [call EXCEPT ![c] = [pc |-> "send", link |-> l, attempt |-> attempt,
                                   outcome |-> "none"]]
    /\ UNCHANGED <<current, links, answers, daemon, cmd>>

\* Only the entry of the answer is removed.
Forgotten(c) == UNCHANGED pending /\ answers' = [l \in Links |-> answers[l] \ {Id(c)}]

\* The finally block: the identifier leaves the connection, answered or not.
Cleaned(c) == /\ pending' = [l \in Links |-> pending[l] \ {Id(c)}]
              /\ answers' = [l \in Links |-> answers[l] \ {Id(c)}]

Ends(c, outcome) ==
    /\ call' = [call EXCEPT ![c].pc = "done", ![c].outcome = outcome]
    /\ Cleaned(c)
    /\ UNCHANGED <<current, links, daemon>>

\* _ConnectionReplacedError: wait for another connection once, then give up.
Replaced(c) ==
    IF call[c].attempt = 1
    THEN /\ call' = [call EXCEPT ![c].pc = "seek"]
         /\ Cleaned(c)
         /\ UNCHANGED <<current, links, daemon>>
    ELSE Ends(c, "absent")

Start(c) == /\ call[c].pc = "idle"
            /\ IF current # 0
               THEN Issue(c, current, 1)
               ELSE /\ call' = [call EXCEPT ![c].pc = "seek"]
                    /\ UNCHANGED <<current, links, conns, daemon, cmd>>

\* ensure_connected takes any connection (the call has used none, so link is 0);
\* _wait_for_new_connection takes one that is not the link already used.
Usable(c) == current \notin {0, call[c].link}

\* The retry sends on the connection the first attempt gave up.
FoundOnOld(c) == /\ call[c].pc = "seek" /\ Usable(c)
                 /\ IF call[c].link = 0 THEN Issue(c, current, 1)
                                        ELSE Issue(c, call[c].link, 2)

Found(c) == /\ call[c].pc = "seek" /\ Usable(c)
            /\ Issue(c, current, IF call[c].link = 0 THEN 1 ELSE 2)

\* Only the first wait has a deadline.
GraceOverOnce(c) == /\ call[c].pc = "seek" /\ ~Usable(c) /\ call[c].link = 0
                    /\ Ends(c, "absent")
                    /\ UNCHANGED cmd

GraceOver(c) == /\ call[c].pc = "seek" /\ ~Usable(c)
                /\ Ends(c, "absent")
                /\ UNCHANGED cmd

\* send_text returns: the frame is on the wire, or was lost with it.
Sent(c) == /\ call[c].pc = "send"
           /\ call' = [call EXCEPT ![c].pc = "wait"]
           /\ cmd' = [cmd EXCEPT ![Id(c)] =
                        [at   |-> IF wire[call[c].link] = "up" THEN "sent" ELSE "lost",
                         link |-> call[c].link]]
           /\ UNCHANGED <<current, links, conns, daemon>>

SendFails(c) == /\ call[c].pc = "send" /\ wire[call[c].link] = "cut"
                /\ cmd' = [cmd EXCEPT ![Id(c)].at = "lost"]
                /\ Replaced(c)

Answered(c) == Id(c) \in answers[call[c].link]

\* Each turn of the waiting loop: the answer first, then the connection, then the
\* deadline.
Return(c) == /\ call[c].pc = "wait" /\ Answered(c)
             /\ Ends(c, "answered")
             /\ UNCHANGED cmd

\* The connection is looked at before the answer.
NoticeFirst(c) == /\ call[c].pc = "wait" /\ current # call[c].link
                  /\ Replaced(c)
                  /\ UNCHANGED cmd

Notice(c) == /\ call[c].pc = "wait" /\ ~Answered(c) /\ current # call[c].link
             /\ Replaced(c)
             /\ UNCHANGED cmd

Timeout(c) == /\ call[c].pc = "wait" /\ ~Answered(c) /\ current = call[c].link
              /\ Ends(c, "timeout")
              /\ UNCHANGED cmd

\* The task that carries the call is cancelled; a frame being sent may be gone.
Cancel(c) == /\ call[c].pc \in {"seek", "send", "wait"}
             /\ Ends(c, "cancelled")
             /\ \/ UNCHANGED cmd
                \/ /\ call[c].pc = "send" /\ wire[call[c].link] = "up"
                   /\ cmd' = [cmd EXCEPT ![Id(c)] = [at |-> "sent", link |-> call[c].link]]

-----------------------------------------------------------------------------

Init == /\ current = 0
        /\ wire = [l \in Links |-> "none"] /\ handler = [l \in Links |-> "none"]
        /\ rank = [l \in Links |-> 0]
        /\ pending = [l \in Links |-> {}] /\ answers = [l \in Links |-> {}]
        /\ daemon = Launched
        /\ call = [c \in Calls |-> NewCall]
        /\ cmd = [k \in CmdIds |-> [at |-> "unsent", link |-> 0]]

Looks(c) == Found(c) \/ GraceOver(c) \/ Sent(c) \/ SendFails(c)
            \/ Return(c) \/ Notice(c) \/ Timeout(c)

Next == \/ Dial \/ DialFails \/ LoseSession
        \/ \E l \in Links : Cut(l) \/ Register(l) \/ Refuse(l) \/ HandlerEnds(l)
        \/ \E k \in CmdIds : Execute(k) \/ Reply(k) \/ Deliver(k)
        \/ \E c \in Calls : Start(c) \/ Looks(c) \/ Cancel(c)

Spec == Init /\ [][Next]_vars
\* The event loop comes back to every pending send, poll and timer.
FairSpec == Spec /\ \A c \in Calls : WF_vars(Looks(c))

-----------------------------------------------------------------------------
(* Properties.                                                             *)

\* The variables keep their types.
TypeOK == /\ current \in 0..MaxLinks
          /\ wire \in [Links -> {"none", "up", "cut"}]
          /\ handler \in [Links -> {"none", "handshake", "reading", "gone"}]
          /\ rank \in [Links -> Nat]
          /\ pending \in [Links -> SUBSET CmdIds] /\ answers \in [Links -> SUBSET CmdIds]
          /\ daemon \in Daemons
          /\ daemon.pc = "on" => daemon.link # 0
          /\ call \in [Calls -> CallRec]
          /\ \A c \in Calls : call[c].pc \in {"send", "wait"} => call[c].link # 0
          /\ cmd \in [CmdIds -> [at : Stages, link : 0..MaxLinks]]
          /\ \A k \in CmdIds : cmd[k].at \notin {"unsent", "lost"} => cmd[k].link # 0

\* A connection that was registered last and is still read is the one commands use:
\* the end of an old handler, however late, never takes it away
\* (desktop_registry.unregister is called with the socket of the handler).
FreshStays == \A l \in Ranked :
                 handler[l] = "reading" /\ rank[l] = Cardinality(Ranked)
                    => current = l

\* Nothing outlives its call: an identifier is pending, and an answer kept, only on
\* the connection its caller is using at that moment (the finally of _run_command),
\* whatever link was replaced, lost, timed out or cancelled.
NothingLeft == \A l \in Links : \A k \in pending[l] \union answers[l] :
                  LET c == k[1]
                  IN /\ call[c].pc \in {"send", "wait"}
                     /\ call[c].link = l /\ Id(c) = k

\* A call that was answered got the answer of its own last command, which the daemon
\* executed: never one of another call, nor one of the attempt it gave up.
OwnAnswer == \A c \in Calls :
                call[c].outcome = "answered" => cmd[Id(c)].at = "heard"

\* The retry may execute a command a second time, but never on the link of the first
\* attempt: a second execution means that the link was really replaced.
OncePerLink == \A c \in Calls :
                  Executed(<<c, 1>>) /\ Executed(<<c, 2>>)
                     => cmd[<<c, 1>>].link # cmd[<<c, 2>>].link

\* An answer that reached the backend in time is returned: the loss of the link, the
\* timeout or a new connection just after it never turn it into a failure or into a
\* second execution.
AnswerIsReturned ==
    [][\A c \in Calls : call[c].pc = "wait" /\ Answered(c)
          => \/ call'[c].pc = "wait"
             \/ call'[c].outcome \in {"answered", "cancelled"}]_vars

\* Every call of send_command ends, with whatever daemon.
CallsEnd == \A c \in Calls : call[c].pc # "idle" ~> call[c].pc = "done"
=============================================================================
