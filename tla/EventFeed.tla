------------------------------ MODULE EventFeed ------------------------------
(***************************************************************************)
(* One event automation: services/event_automations.py with the toggle of  *)
(* routers/autonomy.py.  A rule watches a mailbox, a calendar or an index  *)
(* of files; a poll reads one page of the source, queues what the filters  *)
(* keep, one row per item, then stores the cursor it reached; a dispatch   *)
(* turns queued rows into missions, at most daily_limit a day.             *)
(*                                                                         *)
(* The rows and the rule live in the database: a step that writes takes    *)
(* its write lock.  Between two awaits of a poll the user may switch the   *)
(* rule off and on again, the polling may be cut by its time limit, and    *)
(* the process may restart.  Time is in seconds; the days are apart from   *)
(* it, so that they never run out.                                         *)
(***************************************************************************)
EXTENDS Naturals, FiniteSets, FiniteSetsExt

CONSTANTS
    Items,       \* mails, changes of events or documents the filters keep
                 \* (an item they reject is read and changes nothing)
    Sources,     \* kinds of source the rule may have
    Workers,     \* processes that run tick (one, unless multi-process is allowed)
    Nobody,      \* holds no lock
    Limit,       \* daily_limit of the rule
    PageSize,    \* maxResults of a page
    MaxTime,     \* bound: seconds
    MaxRequests, \* bound: uses of the switch
    MaxFaults    \* bound: failed readings, timeouts and restarts

ASSUME FeedAssumption ==
    /\ IsFiniteSet(Items)
    /\ Sources \subseteq {"gmail", "calendar", "file"}
    /\ Nobody \notin Workers
    /\ Limit \in Nat /\ PageSize \in Nat \ {0}
    /\ MaxTime \in Nat \ {0} /\ MaxRequests \in Nat /\ MaxFaults \in Nat

VARIABLES
    now,     \* the clock
    source,  \* AutomationRule.source
    rule,    \* the rest of the row, with the number and time of its activation
    at,      \* at[i]: when item i came, 0 before
    promised,\* promised[i]: the activation in force when i came, 0 for none
    event,   \* event[i]: the row of automation_events for item i
    lock,    \* who holds the write lock over several steps
    poll,    \* poll[w]: the tick of worker w
    request, \* request[r]: the r-th use of the switch
    faults   \* what remains of the faults

store == <<rule, event, lock>>
world == <<now, source, at, promised>>
vars  == <<world, store, poll, request, faults>>

Requests == 1..MaxRequests
Times    == 0..MaxTime
Gens     == 0..(MaxRequests + 1)

\* cursor_json: the window of the mailbox or the watermark of the files, the
\* items of the pages already read, the items before the synchronisation token.
Cursors == [gen : Gens, since : Times, until : Times,
            page : SUBSET Items, sync : SUBSET Items]
FreshCursor(g, t) == [gen |-> g, since |-> t, until |-> 0, page |-> {}, sync |-> {}]

Rules  == [enabled : BOOLEAN, cursor : Cursors, gen : Gens, act : Times]
Events == [st : {"none", "pending", "cancelled", "dispatched"},
           rank : 0..Cardinality(Items), today : BOOLEAN]
Polls  == [pc : {"idle", "list", "enqueue", "read", "save", "dispatch", "commit"},
           snap : Cursors, gen : Gens, next : Cursors,
           failed : BOOLEAN, todo : SUBSET Items, rows : SUBSET Items]
Switches == [pc : {"new", "seen", "done"}, want : BOOLEAN, saw : BOOLEAN]

NoCursor == FreshCursor(0, 0)
NoEvent  == [st |-> "none", rank |-> 0, today |-> FALSE]
NoPoll   == [pc |-> "idle", snap |-> NoCursor, gen |-> 0, next |-> NoCursor,
             failed |-> FALSE, todo |-> {}, rows |-> {}]

Arrived  == {i \in Items : at[i] > 0}
Rows     == {i \in Items : event[i].st # "none"}
Pending  == {i \in Items : event[i].st = "pending"}
Today    == {i \in Items : event[i].today}

-----------------------------------------------------------------------------
(* The world.                                                              *)

\* A document is dated when its indexing ends and is listed a little later.
Arrive(i) == /\ at[i] = 0 /\ now < MaxTime
             /\ \E t \in {now} \union (IF source = "file" THEN {now - 1} ELSE {}) :
                  /\ t > 0
                  /\ at' = [at EXCEPT ![i] = t]
                  /\ promised' = [promised EXCEPT
                       ![i] = IF rule.enabled /\ t > rule.act THEN rule.gen ELSE 0]
             /\ UNCHANGED <<now, source, store, poll, request, faults>>

Second == /\ now < MaxTime /\ now' = now + 1
          /\ UNCHANGED <<source, at, promised, store, poll, request, faults>>

Midnight == /\ Today # {}
            /\ event' = [i \in Items |-> [event[i] EXCEPT !.today = FALSE]]
            /\ UNCHANGED <<world, rule, lock, poll, request, faults>>

-----------------------------------------------------------------------------
(* The switch: PUT /rules/{id}/enabled.  The row is read, then written; what *)
(* did not change since the reading is not written.                          *)

ToggleReads(r) ==
    /\ request[r].pc = "new" /\ \A s \in 1..(r - 1) : request[s].pc # "new"
    /\ \E want \in BOOLEAN :
         request' = [request EXCEPT ![r] = [pc |-> "seen", want |-> want,
                                            saw |-> rule.enabled]]
    /\ UNCHANGED <<world, store, poll, faults>>

Activates(r) == request[r].want /\ ~request[r].saw

Restarted == [enabled |-> TRUE, cursor |-> FreshCursor(rule.gen + 1, now),
              gen |-> rule.gen + 1, act |-> now]

ToggleWrites(r) ==
    /\ request[r].pc = "seen" /\ lock = Nobody
    /\ rule' = IF Activates(r) THEN Restarted
               ELSE IF request[r].want = request[r].saw THEN rule
               ELSE [rule EXCEPT !.enabled = FALSE]
    /\ event' = [i \in Items |-> IF Activates(r) /\ i \in Pending
                                 THEN [event[i] EXCEPT !.st = "cancelled"]
                                 ELSE event[i]]
    /\ request' = [request EXCEPT ![r] = [pc |-> "done", want |-> FALSE, saw |-> FALSE]]
    /\ UNCHANGED <<world, lock, poll, faults>>

-----------------------------------------------------------------------------
(* A tick of worker w: poll, then dispatch.  _lock keeps one tick a worker. *)

TickStarts(w) ==
    /\ poll[w].pc = "idle"
    /\ poll' = [poll EXCEPT ![w] =
         IF rule.enabled
         THEN [NoPoll EXCEPT !.pc = "list", !.snap = rule.cursor, !.gen = rule.gen]
         ELSE [NoPoll EXCEPT !.pc = "dispatch"]]
    /\ UNCHANGED <<world, store, request, faults>>

\* The end of the window is the next second.
OpenedAhead(c) == IF source = "file" \/ c.until > 0 THEN c
                  ELSE [c EXCEPT !.until = now + 1]

\* setdefault("until", now)
Opened(c) == IF source = "file" \/ c.until > 0 THEN c ELSE [c EXCEPT !.until = now]

\* What the source answers for a cursor, external.  The mailbox may or may not
\* count the second of its lower bound; a synchronisation token answers what it
\* has not told yet, and no token means what changed since the watermark.
Found(c) ==
    CASE source = "file" -> {{i \in Arrived : at[i] >= c.since}}
      [] source = "calendar" ->
           {IF c.sync = {} THEN {i \in Arrived : at[i] >= c.since} ELSE Arrived \ c.sync}
      [] source = "gmail" ->
           {{i \in Arrived : at[i] > c.since /\ at[i] < c.until} \union edge :
              edge \in SUBSET {i \in Arrived : at[i] = c.since}}

\* The next window starts where the last one ended.
ClosedExactly(c) == [c EXCEPT !.page = {}, !.since = c.until, !.until = 0,
                              !.sync = IF source = "calendar" THEN Arrived ELSE {}]

\* The window is read to its end: the next one overlaps it by a second.
Closed(c) == [c EXCEPT !.page = {}, !.since = c.until - 1, !.until = 0,
                       !.sync = IF source = "calendar" THEN Arrived ELSE {}]

\* One page of the source.
Lists(w) ==
    /\ poll[w].pc = "list"
    /\ LET c == Opened(poll[w].snap) IN
       \E found \in Found(c), got \in SUBSET Items :
         LET rest == found \ c.page
             whole == got = rest IN
         /\ got \subseteq rest
         /\ whole \/ (source # "file" /\ Cardinality(got) = PageSize)
         /\ source # "file" /\ whole => Cardinality(got) <= PageSize
         /\ poll' = [poll EXCEPT
              ![w].pc = "enqueue", ![w].todo = got,
              ![w].next = IF source = "file" THEN c
                          ELSE IF whole THEN Closed(c)
                          ELSE [c EXCEPT !.page = c.page \union got]]
    /\ UNCHANGED <<world, store, request, faults>>

\* The token is too old (410): it is dropped with the page, the watermark stays.
TokenExpires(w) ==
    /\ poll[w].pc = "list" /\ source = "calendar" /\ poll[w].snap.sync # {}
    /\ faults > 0 /\ faults' = faults - 1
    /\ poll' = [poll EXCEPT ![w].pc = "read",
                  ![w].next = [Opened(poll[w].snap) EXCEPT !.sync = {}, !.page = {}]]
    /\ UNCHANGED <<world, store, request>>

\* The conditions of enqueue: the rule is on, its cursor is the one of the poll
\* and the key of the item is new.
Queues(w, i) == rule.enabled /\ rule.cursor = poll[w].snap /\ i \notin Rows

Enqueue(w, i) ==
    /\ poll[w].pc = "enqueue" /\ i \in poll[w].todo /\ lock = Nobody
    /\ event' = IF Queues(w, i)
                THEN [event EXCEPT ![i] = [st |-> "pending", today |-> FALSE,
                                           rank |-> Cardinality(Rows) + 1]]
                ELSE event
    /\ poll' = [poll EXCEPT ![w].todo = @ \ {i}]
    /\ UNCHANGED <<world, rule, lock, request, faults>>

PollEnds(w) == /\ poll[w].pc = "enqueue" /\ poll[w].todo = {}
               /\ poll' = [poll EXCEPT ![w].pc = "read"]
               /\ UNCHANGED <<world, store, request, faults>>

\* The reading starts again from now, whatever was left to read.
KeepsWhatItHas(w) == [poll[w] EXCEPT !.pc = "read", !.todo = {},
                                     !.next = FreshCursor(poll[w].snap.gen, now)]

\* The reading fails, or wait_for cuts it: there is no new cursor.
GivesUp(w) == [poll[w] EXCEPT !.pc = "read", !.todo = {}, !.failed = TRUE,
                              !.next = NoCursor]

PollFails(w) == /\ poll[w].pc \in {"list", "enqueue"}
                /\ faults > 0 /\ faults' = faults - 1
                /\ poll' = [poll EXCEPT ![w] = GivesUp(w)]
                /\ UNCHANGED <<world, store, request>>

\* tick reads the row again...
ReadsBack(w) ==
    /\ poll[w].pc = "read"
    /\ poll' = [poll EXCEPT ![w] =
         IF rule.enabled /\ rule.cursor = poll[w].snap
         THEN [poll[w] EXCEPT !.pc = "save"]
         ELSE [NoPoll EXCEPT !.pc = "dispatch"]]
    /\ UNCHANGED <<world, store, request, faults>>

\* ... and writes the cursor; a cursor that did not change is not written.
Saves(w) ==
    /\ poll[w].pc = "save" /\ lock = Nobody
    /\ rule' = IF poll[w].failed \/ poll[w].next = poll[w].snap THEN rule
               ELSE [rule EXCEPT !.cursor = poll[w].next]
    /\ poll' = [poll EXCEPT ![w] = [NoPoll EXCEPT !.pc = "dispatch"]]
    /\ UNCHANGED <<world, event, lock, request, faults>>

\* The oldest k of the pending rows.
Oldest(k) == {i \in Pending : Cardinality({j \in Pending :
                                event[j].rank < event[i].rank}) < k}
Remaining == IF Cardinality(Today) >= Limit THEN 0 ELSE Limit - Cardinality(Today)

\* The count is taken before any write.
CountsFirst(w) == /\ rule.enabled /\ Oldest(Remaining) # {}
                  /\ lock' = lock
                  /\ poll' = [poll EXCEPT ![w].pc = "commit",
                                          ![w].rows = Oldest(Remaining)]

\* The UPDATE takes the write lock before the count.
Reserves(w) == /\ rule.enabled /\ Oldest(Remaining) # {}
               /\ lock' = w
               /\ poll' = [poll EXCEPT ![w].pc = "commit",
                                       ![w].rows = Oldest(Remaining)]

DispatchCounts(w) ==
    /\ poll[w].pc = "dispatch" /\ lock = Nobody
    /\ \/ Reserves(w)
       \/ /\ ~(rule.enabled /\ Oldest(Remaining) # {})
          /\ poll' = [poll EXCEPT ![w] = NoPoll]
          /\ lock' = lock
    /\ UNCHANGED <<world, rule, event, request, faults>>

\* The missions and the rows that name them, in one transaction.
DispatchCommits(w) ==
    /\ poll[w].pc = "commit"
    /\ event' = [i \in Items |-> IF i \in poll[w].rows
                                 THEN [event[i] EXCEPT !.st = "dispatched", !.today = TRUE]
                                 ELSE event[i]]
    /\ lock' = IF lock = w THEN Nobody ELSE lock
    /\ poll' = [poll EXCEPT ![w] = NoPoll]
    /\ UNCHANGED <<world, rule, request, faults>>

\* The process of w restarts: its transaction is rolled back.
Restart(w) == /\ poll[w].pc # "idle" /\ faults > 0 /\ faults' = faults - 1
              /\ poll' = [poll EXCEPT ![w] = NoPoll]
              /\ lock' = IF lock = w THEN Nobody ELSE lock
              /\ UNCHANGED <<world, rule, event, request>>

-----------------------------------------------------------------------------
\* The rule was created, off, and has just been activated.
Init == /\ now = 1 /\ source \in Sources
        /\ rule = [enabled |-> TRUE, cursor |-> FreshCursor(1, 1), gen |-> 1, act |-> 1]
        /\ at = [i \in Items |-> 0] /\ promised = [i \in Items |-> 0]
        /\ event = [i \in Items |-> NoEvent]
        /\ lock = Nobody
        /\ poll = [w \in Workers |-> NoPoll]
        /\ request = [r \in Requests |-> [pc |-> "new", want |-> FALSE, saw |-> FALSE]]
        /\ faults = MaxFaults

Works(w) == \/ TickStarts(w) \/ Lists(w) \/ PollEnds(w)
            \/ \E i \in Items : Enqueue(w, i)
            \/ ReadsBack(w) \/ Saves(w) \/ DispatchCounts(w) \/ DispatchCommits(w)

Next == \/ \E i \in Items : Arrive(i)
        \/ Second \/ Midnight
        \/ \E r \in Requests : ToggleReads(r) \/ ToggleWrites(r)
        \/ \E w \in Workers : Works(w) \/ TokenExpires(w) \/ PollFails(w) \/ Restart(w)

Spec == Init /\ [][Next]_vars

\* APScheduler starts a tick every minute, the awaits of a tick return or are cut
\* by wait_for, a request that began ends, and time passes.
FairSpec == /\ Spec /\ WF_vars(Second) /\ WF_vars(Midnight)
            /\ \A w \in Workers : WF_vars(Works(w))
            /\ \A r \in Requests : WF_vars(ToggleWrites(r))

-----------------------------------------------------------------------------
\* Types.
TypeOK == /\ now \in Times /\ source \in Sources /\ rule \in Rules
          /\ at \in [Items -> Times] /\ promised \in [Items -> Gens]
          /\ event \in [Items -> Events] /\ lock \in Workers \union {Nobody}
          /\ poll \in [Workers -> Polls] /\ request \in [Requests -> Switches]
          /\ faults \in 0..MaxFaults

\* The cursor never passes an item: what the mailbox or the calendar will not be
\* asked again - before the window, on a page already read, behind the token - is
\* in the queue if it was promised, that is, if it came while the rule was on.
Owed(i) == promised[i] # 0 /\ promised[i] = rule.gen
Passed(c, i) == \/ source = "gmail" /\ at[i] > 0 /\ at[i] <= c.since
                \/ source = "calendar" /\ c.sync = {} /\ at[i] > 0 /\ at[i] < c.since
                \/ i \in c.page \/ i \in c.sync
NothingIsSkipped == \A i \in Items : Owed(i) /\ Passed(rule.cursor, i) => i \in Rows

\* What a reactivation cancelled stays so, and a mission once started is not started
\* again, whatever poll or dispatch is under way; and a poll that began before the
\* rule was switched off and on queues nothing.
SettledStays == \A i \in Items :
    event[i].st \in {"cancelled", "dispatched"} => event'[i].st = event[i].st
StalePollIsMute == \A w \in Workers, i \in Items :
    Enqueue(w, i) /\ event'[i] # event[i] => poll[w].gen = rule.gen
NothingIsRevived == [][SettledStays /\ StalePollIsMute]_vars

\* What comes while the rule is on is served, unless the user switches it off or
\* on again first.
PromiseIsKept == \A i \in Items :
    Owed(i) ~> (event[i].st = "dispatched" \/ ~rule.enabled \/ ~Owed(i))
=============================================================================
