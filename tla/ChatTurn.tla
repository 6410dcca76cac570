-------------------------------- MODULE ChatTurn --------------------------------
(***************************************************************************)
(* The chat of one user: its pages (frontend/src/app/chat/page.tsx and     *)
(* lib/websocket.ts), the handler of each WebSocket (websocket_chat of     *)
(* backend/app/routers/chat.py), the fan-out of services/ws_registry.py    *)
(* and the cap on concurrent runs of services/run_gate.py.                 *)
(*                                                                         *)
(* A handler reads frames one by one; while the agent runs, a watcher      *)
(* reads in its place, for a stop only.  A step is the code of a handler   *)
(* between two awaits that another actor can tell apart.  Frames that tell *)
(* a page nothing but that the turn is alive (tokens, tools) are left out, *)
(* and so are commands that run no agent.                                  *)
(***************************************************************************)
EXTENDS Naturals, Sequences

CONSTANTS
    Pages,        \* tabs on which the user has the chat open
    Conns,        \* WebSockets they may open, each once
    None,         \* no socket
    MaxRuns,      \* MAX_RUNS_PER_USER
    MaxAsks,      \* bound: messages the user types
    MaxStops,     \* bound: clicks on the red square
    MaxApprovals, \* bound: human validations asked by a run
    MaxFaults     \* bound: cuts, reloads, refusals, stalls, exceptions

ASSUME ChatAssumption == /\ None \notin Conns
                         /\ MaxRuns \in Nat \ {0}
                         /\ MaxAsks \in Nat /\ MaxStops \in Nat
                         /\ MaxApprovals \in Nat /\ MaxFaults \in Nat

VARIABLES
    \* the pages
    sock,       \* sock[p]: the socket of p
    loading,    \* loading[p]: isLoading, the red square in place of the send button
    awaiting,   \* ghost, awaiting[p]: what was typed on this socket and p waits for
    \* the wires
    wire,       \* wire[c]: "none", "up" or "cut"
    inbox,      \* inbox[c]: frames for the handler, a message or Stop
    outbox,     \* outbox[c]: frames for the page
    \* the backend
    h,          \* h[c]: the handler of c
    slots,      \* free slots of the semaphore of the user
    queue,      \* handlers that wait on it, first come first served
    msg,        \* msg[m]: what became of message m
    asked,      \* messages typed
    stops, approvals, faults

pages  == <<sock, loading, awaiting>>
wires  == <<wire, inbox, outbox>>
gate   == <<slots, queue>>
bounds == <<stops, approvals, faults>>
vars   == <<pages, wires, h, gate, msg, asked, bounds>>

Msgs  == 1..MaxAsks
Stop  == 0
Steps == {"none", "idle", "queue", "run", "over", "closed"}
Ends  == {"lost", "swallowed", "refused", "empty", "failed", "untold",
          "delivered", "pushed"}
Kinds == {"start", "answer", "stopped", "done", "error", "pending", "resolved"}

Handler == [pc : Steps, of : Msgs \union {0}, gone : BOOLEAN, stop : BOOLEAN,
            watch : BOOLEAN, text : BOOLEAN, asks : BOOLEAN]
Message == [at : {"new", "wire", "kept"} \union Ends,
            on : Conns \union {None}, clean : BOOLEAN, stop : BOOLEAN,
            broken : BOOLEAN]
Frame   == [kind : Kinds, of : Msgs \union {0}]

Idle == [pc |-> "idle", of |-> 0, gone |-> FALSE, stop |-> FALSE,
         watch |-> FALSE, text |-> FALSE, asks |-> FALSE]

\* The handler reads on.
Back(r, ok) == [Idle EXCEPT !.gone = ~ok, !.watch = r.watch]

\* The sockets in the registry: those whose handler has not reached its finally block.
Registered == {c \in Conns : h[c].pc \notin {"none", "closed"}}

Now(m, where) == [msg EXCEPT ![m].at = where]
Lost(S) == [m \in Msgs |-> IF m \in S THEN [msg[m] EXCEPT !.at = "lost"] ELSE msg[m]]
Unread(c) == {m \in Msgs : msg[m].at = "wire" /\ msg[m].on = c}

F(kind, m) == [kind |-> kind, of |-> m]

\* _ws_send: whether a send is taken.  Nothing is sent once the client is known to
\* be gone; on a socket that is cut the send may fail, or be taken and lost.
Taken(c) == IF h[c].gone THEN {FALSE}
            ELSE IF wire[c] = "cut" THEN BOOLEAN ELSE {TRUE}

Posts(c, ok, frames) ==
    outbox' = IF ok /\ wire[c] = "up" THEN [outbox EXCEPT ![c] = @ \o frames] ELSE outbox

\* send_text_all
Fans(kind) == outbox' = [c \in Conns |->
    IF c \in Registered /\ wire[c] = "up" THEN Append(outbox[c], F(kind, 0)) ELSE outbox[c]]

-----------------------------------------------------------------------------
(* The pages.                                                              *)

\* connect: a socket never used before, any: they are all alike.
Connects(p) ==
    /\ sock[p] = None /\ \E c \in Conns : h[c].pc = "none"
    /\ LET c == CHOOSE d \in Conns : h[d].pc = "none"
       IN /\ sock' = [sock EXCEPT ![p] = c]
          /\ wire' = [wire EXCEPT ![c] = "up"]
          /\ h' = [h EXCEPT ![c] = Idle]
    /\ awaiting' = [awaiting EXCEPT ![p] = {}]
    /\ UNCHANGED <<loading, inbox, outbox, gate, msg, asked, bounds>>

\* The input takes a message while isLoading is false, and only "start" sets it.
Types(p) ==
    /\ sock[p] # None /\ ~loading[p] /\ asked < MaxAsks
    /\ asked' = asked + 1
    /\ LET c == sock[p]
           m == asked + 1
           sent == wire[c] = "up"
       IN /\ inbox' = IF sent THEN [inbox EXCEPT ![c] = Append(@, m)] ELSE inbox
          /\ msg' = [msg EXCEPT ![m] = [at |-> IF sent THEN "wire" ELSE "lost", on |-> c,
                        clean |-> awaiting[p] = {}, stop |-> FALSE, broken |-> FALSE]]
          /\ awaiting' = [awaiting EXCEPT ![p] = @ \union {m}]
    /\ UNCHANGED <<sock, loading, wire, outbox, h, gate, bounds>>

\* sendStop
ClicksStop(p) ==
    /\ sock[p] # None /\ loading[p] /\ stops > 0
    /\ stops' = stops - 1
    /\ LET c == sock[p]
       IN /\ inbox' = IF wire[c] = "up" THEN [inbox EXCEPT ![c] = Append(@, Stop)] ELSE inbox
          /\ msg' = [m \in Msgs |-> IF msg[m].on = c /\ msg[m].at \notin Ends
                                    THEN [msg[m] EXCEPT !.stop = TRUE] ELSE msg[m]]
    /\ UNCHANGED <<pages, wire, outbox, h, gate, asked, approvals, faults>>

\* Only two frames set isLoading; all the others modelled reset it.
Receives(p) ==
    /\ sock[p] # None /\ outbox[sock[p]] # <<>>
    /\ LET c == sock[p]
           f == Head(outbox[c])
       IN /\ outbox' = [outbox EXCEPT ![c] = Tail(@)]
          /\ loading' = [loading EXCEPT ![p] = f.kind \in {"start", "resolved"}]
          /\ awaiting' = [awaiting EXCEPT ![p] =
                IF f.kind \in {"answer", "stopped", "error"} THEN @ \ {f.of} ELSE @]
    /\ UNCHANGED <<sock, wire, inbox, h, gate, msg, asked, bounds>>

\* No event for 150 s: the timer that every event winds up frees the input.
WatchdogFires(p) ==
    /\ loading[p] /\ loading' = [loading EXCEPT ![p] = FALSE]
    /\ UNCHANGED <<sock, awaiting, wires, h, gate, msg, asked, bounds>>

\* onclose
SeesClose(p) ==
    /\ sock[p] # None /\ wire[sock[p]] = "cut" /\ outbox[sock[p]] = <<>>
    /\ sock' = [sock EXCEPT ![p] = None]
    /\ UNCHANGED <<loading, awaiting, wires, h, gate, msg, asked, bounds>>

-----------------------------------------------------------------------------
(* The handler of a socket.                                                *)

At(c, pc) == h[c].pc = pc

Reads(c) == At(c, "idle") /\ ~h[c].gone /\ inbox[c] # <<>>

\* A stop with no agent running is acknowledged.
AcksStop(c) ==
    /\ Reads(c) /\ Head(inbox[c]) = Stop
    /\ inbox' = [inbox EXCEPT ![c] = Tail(@)]
    /\ \E ok \in Taken(c) : /\ Posts(c, ok, <<F("done", 0)>>)
                            /\ h' = [h EXCEPT ![c].gone = ~ok]
    /\ UNCHANGED <<pages, wire, gate, msg, asked, bounds>>

\* A message is read and stored, and the page told; then the turn waits for a slot.
Takes(c) ==
    /\ Reads(c) /\ Head(inbox[c]) # Stop
    /\ inbox' = [inbox EXCEPT ![c] = Tail(@)]
    /\ msg' = Now(Head(inbox[c]), "kept")
    /\ \E ok \in Taken(c) : /\ Posts(c, ok, <<F("start", 0)>>)
                            /\ h' = [h EXCEPT ![c] = [@ EXCEPT !.pc = "queue",
                                          !.of = Head(inbox[c]), !.gone = ~ok]]
    /\ queue' = Append(queue, c)
    /\ UNCHANGED <<pages, wire, slots, asked, bounds>>

\* Mutant: the refusal leaves by the finally block of the run.
RefusesAndReleases(c) ==
    /\ Reads(c) /\ Head(inbox[c]) # Stop /\ faults > 0 /\ faults' = faults - 1
    /\ inbox' = [inbox EXCEPT ![c] = Tail(@)]
    /\ msg' = Now(Head(inbox[c]), "refused")
    /\ \E ok \in Taken(c) :
          /\ Posts(c, ok, <<F("start", 0), F("error", Head(inbox[c]))>>)
          /\ h' = [h EXCEPT ![c] = Back(@, ok)]
    /\ UNCHANGED <<pages, wire, queue, asked, stops, approvals>>
    /\ slots' = slots + 1

\* check_user_budget refuses: the message is stored, the agent does not run.
Refuses(c) ==
    /\ Reads(c) /\ Head(inbox[c]) # Stop /\ faults > 0 /\ faults' = faults - 1
    /\ inbox' = [inbox EXCEPT ![c] = Tail(@)]
    /\ msg' = Now(Head(inbox[c]), "refused")
    /\ \E ok \in Taken(c) :
          /\ Posts(c, ok, <<F("start", 0), F("error", Head(inbox[c]))>>)
          /\ h' = [h EXCEPT ![c] = Back(@, ok)]
    /\ UNCHANGED <<pages, wire, gate, asked, stops, approvals>>

Acquires(c) ==
    /\ At(c, "queue") /\ slots > 0 /\ Head(queue) = c
    /\ slots' = slots - 1 /\ queue' = Tail(queue)
    /\ h' = [h EXCEPT ![c].pc = "run", ![c].watch = TRUE]
    /\ UNCHANGED <<pages, wires, msg, asked, bounds>>

\* _watch_for_stop: a stop raises stop_event; a socket that can no longer be read
\* raises client_gone; anything else is read and dropped.
Hears(c) ==
    /\ h[c].watch /\ ~h[c].gone /\ inbox[c] # <<>>
    /\ inbox' = [inbox EXCEPT ![c] = Tail(@)]
    /\ LET f == Head(inbox[c])
       IN IF f = Stop
          THEN /\ h' = [h EXCEPT ![c].stop = TRUE, ![c].watch = FALSE]
               /\ UNCHANGED <<awaiting, msg>>
          ELSE /\ msg' = Now(f, "swallowed")
               /\ awaiting' = [p \in Pages |-> awaiting[p] \ {f}]
               /\ UNCHANGED h
    /\ UNCHANGED <<sock, loading, wire, outbox, gate, asked, bounds>>

\* Mutant: a client that is gone is taken for a stop.
DeafAndStopped(r) == [r EXCEPT !.gone = TRUE, !.watch = FALSE, !.stop = TRUE]

Deaf(r) == [r EXCEPT !.gone = TRUE, !.watch = FALSE]

SeesGone(c) ==
    /\ h[c].watch /\ wire[c] = "cut" /\ inbox[c] = <<>>
    /\ h' = [h EXCEPT ![c] = Deaf(@)]
    /\ UNCHANGED <<pages, wires, gate, msg, asked, bounds>>

\* An event of the agent: the first token, sent to the page.
Streams(c) ==
    /\ At(c, "run") /\ ~h[c].asks /\ ~h[c].stop /\ ~h[c].text
    /\ \E ok \in Taken(c) : h' = [h EXCEPT ![c].text = TRUE, ![c].gone = ~ok]
    /\ UNCHANGED <<pages, wires, gate, msg, asked, bounds>>

\* A tool asks for a human validation; it returns with an answer or a timeout.
AsksHuman(c) ==
    /\ At(c, "run") /\ ~h[c].asks /\ ~h[c].stop /\ approvals > 0
    /\ approvals' = approvals - 1
    /\ h' = [h EXCEPT ![c].asks = TRUE] /\ Fans("pending")
    /\ UNCHANGED <<pages, wire, inbox, gate, msg, asked, stops, faults>>

HumanAnswers(c) ==
    /\ h[c].asks /\ h' = [h EXCEPT ![c].asks = FALSE] /\ Fans("resolved")
    /\ UNCHANGED <<pages, wire, inbox, gate, msg, asked, bounds>>

\* The finally block of the run.
Released == slots + 1

\* Mutant: the watcher is told to end, not cancelled: it still reads one more frame.
StillWatched(r) == [r EXCEPT !.stop = TRUE]

Unwatched(r) == [r EXCEPT !.stop = TRUE, !.watch = FALSE]

\* The agent ends by itself, with or without a text.
RunEnds(c) ==
    /\ At(c, "run") /\ ~h[c].asks /\ slots' = Released
    /\ \E t \in {h[c].text, TRUE} :
          h' = [h EXCEPT ![c] = [Unwatched(@) EXCEPT !.pc = "over", !.text = t]]
    /\ UNCHANGED <<pages, wires, queue, msg, asked, bounds>>

\* Mutant: the slot is given back by a run that ends by itself only.
BreaksAndKeeps(c) ==
    /\ At(c, "run") /\ ~h[c].asks /\ h[c].stop /\ slots' = slots
    /\ h' = [h EXCEPT ![c] = [Unwatched(@) EXCEPT !.pc = "over"]]
    /\ msg' = [msg EXCEPT ![h[c].of].broken = TRUE]
    /\ UNCHANGED <<pages, wires, queue, asked, bounds>>

\* Its next event finds the stop: the loop is left.
Breaks(c) ==
    /\ At(c, "run") /\ ~h[c].asks /\ h[c].stop /\ slots' = Released
    /\ h' = [h EXCEPT ![c] = [Unwatched(@) EXCEPT !.pc = "over"]]
    /\ msg' = [msg EXCEPT ![h[c].of].broken = TRUE]
    /\ UNCHANGED <<pages, wires, queue, asked, bounds>>

\* was_stopped: nothing to save.
EndsEmpty(c) ==
    /\ At(c, "over") /\ ~h[c].text /\ msg' = Now(h[c].of, "empty")
    /\ \E ok \in Taken(c) : /\ Posts(c, ok, <<F("stopped", h[c].of), F("done", 0)>>)
                            /\ h' = [h EXCEPT ![c] = Back(@, ok)]
    /\ UNCHANGED <<pages, wire, inbox, gate, asked, bounds>>

\* Mutant: the answer is sent on the socket, and nobody asks whether it was taken.
ToldOnSocket(ok) == IF ok THEN "delivered" ELSE "untold"

\* The answer is stored, then sent, or the user is told by a push that it is ready.
Told(ok) == IF ok THEN "delivered" ELSE "pushed"

Delivers(c) ==
    /\ At(c, "over") /\ h[c].text
    /\ \E ok \in Taken(c) : /\ Posts(c, ok, <<F("answer", h[c].of), F("done", 0)>>)
                            /\ h' = [h EXCEPT ![c] = Back(@, ok)]
                            /\ msg' = Now(h[c].of, Told(ok))
    /\ UNCHANGED <<pages, wire, inbox, gate, asked, bounds>>

\* The handler returns: its socket is closed, what it did not read is lost.
Closes(c) ==
    /\ h' = [h EXCEPT ![c] = [Idle EXCEPT !.pc = "closed"]]
    /\ wire' = [wire EXCEPT ![c] = "cut"] /\ inbox' = [inbox EXCEPT ![c] = <<>>]

HandlerEnds(c) ==
    /\ At(c, "idle") /\ (h[c].gone \/ (wire[c] = "cut" /\ inbox[c] = <<>>))
    /\ Closes(c) /\ msg' = Lost(Unread(c))
    /\ UNCHANGED <<pages, outbox, gate, asked, bounds>>

\* The agent raises, or a token takes more than ten seconds to send (which tells the
\* page nothing): the slot is given back and the handler ends.
RunFails(c) ==
    /\ At(c, "run") /\ ~h[c].asks /\ faults > 0 /\ faults' = faults - 1
    /\ slots' = Released /\ Closes(c)
    /\ msg' = [Lost(Unread(c)) EXCEPT ![h[c].of].at = "failed"]
    /\ \E ok \in BOOLEAN : Posts(c, ok /\ ~h[c].gone, <<F("error", h[c].of)>>)
    /\ UNCHANGED <<pages, queue, asked, stops, approvals>>

\* A step outside of the run raises: before the message is stored, between "start" and
\* the run, before the answer is stored, or after (store_interaction).
Raises(c) ==
    /\ faults > 0 /\ faults' = faults - 1
    /\ \E m \in Msgs, where \in {"lost", "failed", "untold"}, ran \in BOOLEAN :
          /\ IF ran THEN At(c, "over") /\ h[c].text /\ m = h[c].of /\ where # "lost"
             ELSE Reads(c) /\ m = Head(inbox[c]) /\ where # "untold"
          /\ msg' = [Lost(Unread(c)) EXCEPT ![m].at = where]
          /\ Posts(c, ~h[c].gone, IF ran \/ where = "lost" THEN <<F("error", m)>>
                                  ELSE <<F("start", 0), F("error", m)>>)
    /\ Closes(c)
    /\ UNCHANGED <<pages, gate, asked, stops, approvals>>

-----------------------------------------------------------------------------
(* The network and the browser.                                            *)

\* The socket is cut: what is under way may still be read by the handler.
Severed(c) ==
    /\ wire' = [wire EXCEPT ![c] = "cut"] /\ outbox' = [outbox EXCEPT ![c] = <<>>]
    /\ \/ UNCHANGED <<inbox, msg>>
       \/ inbox' = [inbox EXCEPT ![c] = <<>>] /\ msg' = Lost(Unread(c))

Cut(c) == /\ wire[c] = "up" /\ faults > 0 /\ faults' = faults - 1
          /\ Severed(c)
          /\ UNCHANGED <<pages, h, gate, asked, stops, approvals>>

\* The page is loaded again.
Reloads(p) ==
    /\ sock[p] # None /\ wire[sock[p]] = "up" /\ faults > 0 /\ faults' = faults - 1
    /\ Severed(sock[p])
    /\ sock' = [sock EXCEPT ![p] = None]
    /\ loading' = [loading EXCEPT ![p] = FALSE]
    /\ UNCHANGED <<awaiting, h, gate, asked, stops, approvals>>

-----------------------------------------------------------------------------
Init == /\ sock = [p \in Pages |-> None] /\ loading = [p \in Pages |-> FALSE]
        /\ awaiting = [p \in Pages |-> {}]
        /\ wire = [c \in Conns |-> "none"]
        /\ inbox = [c \in Conns |-> <<>>] /\ outbox = [c \in Conns |-> <<>>]
        /\ h = [c \in Conns |-> [Idle EXCEPT !.pc = "none"]]
        /\ slots = MaxRuns /\ queue = <<>>
        /\ msg = [m \in Msgs |-> [at |-> "new", on |-> None, clean |-> FALSE,
                                  stop |-> FALSE, broken |-> FALSE]]
        /\ asked = 0
        /\ stops = MaxStops /\ approvals = MaxApprovals /\ faults = MaxFaults

Works(c) == \/ AcksStop(c) \/ Takes(c) \/ Acquires(c)
            \/ RunEnds(c) \/ Breaks(c) \/ HumanAnswers(c)
            \/ EndsEmpty(c) \/ Delivers(c) \/ HandlerEnds(c)
Watches(c) == Hears(c) \/ SeesGone(c)
Shows(p) == Receives(p) \/ SeesClose(p)

Next == \/ \E p \in Pages : \/ Connects(p) \/ Types(p) \/ ClicksStop(p) \/ Shows(p)
                            \/ WatchdogFires(p) \/ Reloads(p)
        \/ \E c \in Conns : \/ Works(c) \/ Watches(c) \/ Streams(c) \/ AsksHuman(c)
                            \/ Refuses(c) \/ RunFails(c) \/ Raises(c) \/ Cut(c)

Spec == Init /\ [][Next]_vars

\* The event loop runs what is ready and serves the semaphore in order, a run is
\* bounded by its recursion limit and the deadlines of the models, a validation by
\* its timeout.  Nothing is said of the user nor of the pages.
FairSpec == Spec /\ \A c \in Conns : WF_vars(Works(c))

-----------------------------------------------------------------------------
\* Types; no slot is given back twice.
TypeOK == /\ sock \in [Pages -> Conns \union {None}]
          /\ loading \in [Pages -> BOOLEAN]
          /\ awaiting \in [Pages -> SUBSET Msgs]
          /\ wire \in [Conns -> {"none", "up", "cut"}]
          /\ inbox \in [Conns -> Seq(0..MaxAsks)] /\ outbox \in [Conns -> Seq(Frame)]
          /\ h \in [Conns -> Handler] /\ slots \in 0..MaxRuns /\ queue \in Seq(Conns)
          /\ msg \in [Msgs -> Message] /\ asked \in 0..MaxAsks
          /\ stops \in 0..MaxStops /\ approvals \in 0..MaxApprovals
          /\ faults \in 0..MaxFaults

\* "The disappearance of the client is not an order to stop": a run is left before
\* its end only when the user clicked stop on that socket after typing the message.
OnlyStopBreaks == \A m \in Msgs : msg[m].broken => msg[m].stop

\* The watcher drops what it reads: it must have gone before the page learns that the
\* turn is over, so that what is typed then, with nothing else awaited on that socket,
\* is taken by the handler.
TypedAfterEndIsTaken == \A m \in Msgs : msg[m].at = "swallowed" => ~msg[m].clean

\* A message the handler has taken is run when its turn comes, whatever the runs before
\* it became, and its answer stored and sent, or announced by a push when the client is
\* known to be gone, or the user told that there is none.  It ends without only in a
\* step in which something raised, or a slow client gave up the run.
Answered == {"empty", "delivered", "pushed"}
Missed   == {"failed", "untold"}
EveryTurnIsSettled ==
    /\ \A m \in Msgs : msg[m].at = "kept" ~> msg[m].at \in Answered \union Missed
    /\ [][\A m \in Msgs : msg[m].at = "kept" /\ msg'[m].at # "kept"
             => msg'[m].at \in Answered \/ faults' < faults]_vars

=============================================================================
