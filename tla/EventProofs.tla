------------------------------ MODULE EventProofs ------------------------------
(***************************************************************************)
(* Theorems about EventFeed for any set of items and of sources, any page  *)
(* size and daily limit, any length of time, and any number of uses of the *)
(* switch and of faults.                                                   *)
(***************************************************************************)
EXTENDS EventFeed, FiniteSetTheorems, TLAPS

-----------------------------------------------------------------------------
(* Types.  The clock is never at 0, and an activation uses up a request.   *)

Unused == {r \in Requests : request[r].pc # "done"}
GensOK == /\ now >= 1 /\ rule.gen >= 1
          /\ IsFiniteSet(Unused) /\ rule.gen + Cardinality(Unused) <= MaxRequests + 1

LEMMA Constants ==
    /\ IsFiniteSet(Items) /\ Cardinality(Items) \in Nat
    /\ MaxTime \in Nat \ {0} /\ MaxRequests \in Nat /\ MaxFaults \in Nat
BY FeedAssumption, FS_CardinalityType

LEMMA NoPollOK ==
    /\ NoCursor \in Cursors /\ NoPoll \in Polls
    /\ NoCursor.gen = 0 /\ NoCursor.since = 0 /\ NoCursor.until = 0
    /\ NoCursor.page = {} /\ NoCursor.sync = {}
    /\ NoPoll.pc = "idle" /\ NoPoll.snap = NoCursor /\ NoPoll.next = NoCursor
    /\ NoPoll.rows = {} /\ NoPoll.todo = {}
<1>1. 0 \in Gens /\ 0 \in Times
  BY Constants DEF Gens, Times
<1>2. NoCursor \in Cursors
  BY <1>1 DEF NoCursor, FreshCursor, Cursors
<1>3. NoPoll \in Polls
  BY <1>1, <1>2 DEF NoPoll, Polls
<1> QED
  BY <1>2, <1>3 DEF NoPoll, NoCursor, FreshCursor

\* A worker that goes to its dispatch, or is done.
LEMMA AfterPollOK ==
    /\ [NoPoll EXCEPT !.pc = "dispatch"] \in Polls
    /\ [NoPoll EXCEPT !.pc = "dispatch"].pc = "dispatch"
    /\ [NoPoll EXCEPT !.pc = "dispatch"].snap = NoCursor
    /\ [NoPoll EXCEPT !.pc = "dispatch"].next = NoCursor
BY NoPollOK DEF NoPoll, Polls

\* The other workers do nothing.
Elsewhere(w) == \A v \in Workers \ {w} : poll'[v] = poll[v]

LEMMA SetPoll ==
    ASSUME poll \in [Workers -> Polls], NEW w \in Workers, NEW p \in Polls,
           poll' = [poll EXCEPT ![w] = p]
    PROVE  /\ poll' \in [Workers -> Polls] /\ poll'[w] = p
           /\ Elsewhere(w)
BY DEF Elsewhere

LEMMA OpenedOK ==
    ASSUME TypeOK, GensOK, NEW c \in Cursors
    PROVE  /\ Opened(c) \in Cursors
           /\ Opened(c).gen = c.gen /\ Opened(c).since = c.since
           /\ Opened(c).page = c.page /\ Opened(c).sync = c.sync
           /\ Opened(c).until = c.until \/ Opened(c).until = now
           /\ source # "file" => Opened(c).until >= 1
<1>1. c.until \in Times /\ now \in Times /\ now >= 1
  BY DEF TypeOK, GensOK, Cursors
<1>2. CASE source = "file" \/ c.until > 0
  BY <1>1, <1>2, Constants DEF Opened, Times
<1>3. CASE ~(source = "file" \/ c.until > 0)
  BY <1>1, <1>3 DEF Opened, Cursors
<1> QED
  BY <1>2, <1>3

LEMMA ClosedOK ==
    ASSUME TypeOK, NEW c \in Cursors, c.until >= 1
    PROVE  /\ Closed(c) \in Cursors
           /\ Closed(c).gen = c.gen /\ Closed(c).since = c.until - 1
           /\ Closed(c).until = 0 /\ Closed(c).page = {}
           /\ Closed(c).sync = IF source = "calendar" THEN Arrived ELSE {}
<1>1. c.until - 1 \in Times /\ 0 \in Times
  BY Constants DEF Cursors, Times
<1>2. Arrived \subseteq Items
  BY DEF Arrived
<1> QED
  BY <1>1, <1>2 DEF Closed, Cursors

\* A page: what the source answers to the cursor c, what of it the worker has to
\* queue, and the cursor that it will store.
Page(c, found, got, next) ==
    /\ c \in Cursors /\ found \in Found(c) /\ got \subseteq Items /\ next \in Cursors
    /\ got \subseteq found \ c.page
    /\ \/ source = "file" /\ got = found \ c.page /\ next = c
       \/ source # "file" /\ got = found \ c.page /\ c.until >= 1 /\ next = Closed(c)
       \/ source # "file" /\ next = [c EXCEPT !.page = c.page \union got]

LEMMA ListsOK ==
    ASSUME TypeOK, GensOK, NEW w \in Workers, Lists(w)
    PROVE  \E c, found, got, next :
             /\ Page(c, found, got, next) /\ c = Opened(poll[w].snap)
             /\ poll' \in [Workers -> Polls] /\ Elsewhere(w)
             /\ poll'[w].pc = "enqueue" /\ poll'[w].snap = poll[w].snap
             /\ poll'[w].gen = poll[w].gen /\ poll'[w].next = next
             /\ poll'[w].todo = got /\ poll'[w].failed = poll[w].failed
<1>1. poll[w] \in Polls /\ poll[w].snap \in Cursors
  BY DEF TypeOK, Polls
<1>2. PICK c \in Cursors : c = Opened(poll[w].snap) /\ (source # "file" => c.until >= 1)
  BY <1>1, OpenedOK
<1>3. PICK found \in Found(c), got \in SUBSET Items :
         /\ got \subseteq found \ c.page
         /\ got = found \ c.page \/ source # "file"
         /\ poll' = [poll EXCEPT
              ![w].pc = "enqueue", ![w].todo = got,
              ![w].next = IF source = "file" THEN c
                          ELSE IF got = found \ c.page THEN Closed(c)
                          ELSE [c EXCEPT !.page = c.page \union got]]
  BY <1>2 DEF Lists
<1>4. PICK next \in Cursors :
         next = IF source = "file" THEN c
                ELSE IF got = found \ c.page THEN Closed(c)
                ELSE [c EXCEPT !.page = c.page \union got]
  <2>1. c.page \union got \subseteq Items
    BY <1>2 DEF Cursors
  <2>2. [c EXCEPT !.page = c.page \union got] \in Cursors
    BY <1>2, <2>1 DEF Cursors
  <2> QED
    BY <1>2, <2>2, ClosedOK
<1> DEFINE p == [poll[w] EXCEPT !.pc = "enqueue", !.todo = got, !.next = next]
<1>5. p \in Polls /\ p.pc = "enqueue" /\ p.snap = poll[w].snap /\ p.gen = poll[w].gen
      /\ p.next = next /\ p.todo = got /\ p.failed = poll[w].failed
  BY <1>1 DEF Polls
<1>6. poll' = [poll EXCEPT ![w] = p]
  BY <1>3, <1>4
<1> HIDE DEF p
<1>7. /\ poll' \in [Workers -> Polls] /\ poll'[w] = p
      /\ Elsewhere(w)
  BY <1>5, <1>6, SetPoll DEF TypeOK
<1>8. Page(c, found, got, next)
  BY <1>2, <1>3, <1>4 DEF Page
<1> QED
  BY <1>2, <1>5, <1>7, <1>8

\* A worker with no poll under way.
Rests(w) == /\ poll'[w].snap = NoCursor /\ poll'[w].next = NoCursor
            /\ poll'[w].todo = {} /\ poll'[w].rows = {}

LEMMA TickStartsOK ==
    ASSUME TypeOK, NEW w \in Workers, TickStarts(w)
    PROVE  /\ poll' \in [Workers -> Polls] /\ Elsewhere(w)
           /\ \/ /\ rule.enabled /\ poll'[w].pc = "list" /\ poll'[w].snap = rule.cursor
                 /\ poll'[w].gen = rule.gen /\ poll'[w].next = NoCursor
                 /\ poll'[w].todo = {} /\ poll'[w].rows = {}
              \/ poll'[w].pc = "dispatch" /\ Rests(w)
<1>1. rule.cursor \in Cursors /\ rule.gen \in Gens
  BY DEF TypeOK, Rules
<1> DEFINE p == [NoPoll EXCEPT !.pc = "list", !.snap = rule.cursor, !.gen = rule.gen]
           q == [NoPoll EXCEPT !.pc = "dispatch"]
<1>2. /\ p \in Polls /\ p.pc = "list" /\ p.snap = rule.cursor /\ p.gen = rule.gen
      /\ p.next = NoCursor /\ p.todo = {} /\ p.rows = {}
  BY <1>1, NoPollOK DEF Polls
<1>3. /\ q \in Polls /\ q.pc = "dispatch" /\ q.snap = NoCursor /\ q.next = NoCursor
      /\ q.todo = {} /\ q.rows = {}
  BY NoPollOK DEF Polls
<1>4. \/ rule.enabled /\ poll' = [poll EXCEPT ![w] = p]
      \/ poll' = [poll EXCEPT ![w] = q]
  BY DEF TickStarts
<1> HIDE DEF p, q
<1> QED
  BY <1>2, <1>3, <1>4, SetPoll DEF TypeOK, Rests

LEMMA TokenExpiresOK ==
    ASSUME TypeOK, GensOK, NEW w \in Workers, TokenExpires(w)
    PROVE  \E c, next \in Cursors :
             /\ c = Opened(poll[w].snap) /\ next = [c EXCEPT !.sync = {}, !.page = {}]
             /\ poll' \in [Workers -> Polls] /\ Elsewhere(w)
             /\ poll'[w].pc = "read" /\ poll'[w].snap = poll[w].snap
             /\ poll'[w].gen = poll[w].gen /\ poll'[w].next = next
             /\ poll'[w].failed = poll[w].failed
<1>1. poll[w] \in Polls /\ poll[w].snap \in Cursors
  BY DEF TypeOK, Polls
<1>2. PICK c \in Cursors : c = Opened(poll[w].snap)
  BY <1>1, OpenedOK
<1>3. PICK next \in Cursors : next = [c EXCEPT !.sync = {}, !.page = {}]
  BY <1>2 DEF Cursors
<1> DEFINE p == [poll[w] EXCEPT !.pc = "read", !.next = next]
<1>4. /\ p \in Polls /\ p.pc = "read" /\ p.snap = poll[w].snap /\ p.gen = poll[w].gen
      /\ p.next = next /\ p.failed = poll[w].failed
  BY <1>1 DEF Polls
<1>5. poll' = [poll EXCEPT ![w] = p]
  BY <1>2, <1>3 DEF TokenExpires
<1> HIDE DEF p
<1> QED
  BY <1>2, <1>3, <1>4, <1>5, SetPoll DEF TypeOK

LEMMA EnqueueOK ==
    ASSUME TypeOK, NEW w \in Workers, NEW i \in Items, Enqueue(w, i)
    PROVE  /\ poll' \in [Workers -> Polls] /\ Elsewhere(w)
           /\ poll'[w].pc = poll[w].pc /\ poll'[w].snap = poll[w].snap
           /\ poll'[w].gen = poll[w].gen /\ poll'[w].next = poll[w].next
           /\ poll'[w].failed = poll[w].failed /\ poll'[w].todo = poll[w].todo \ {i}
<1>1. poll[w] \in Polls
  BY DEF TypeOK
<1> DEFINE p == [poll[w] EXCEPT !.todo = @ \ {i}]
<1>2. /\ p \in Polls /\ p.pc = poll[w].pc /\ p.snap = poll[w].snap
      /\ p.gen = poll[w].gen /\ p.next = poll[w].next
      /\ p.failed = poll[w].failed /\ p.todo = poll[w].todo \ {i}
  BY <1>1 DEF Polls
<1>3. poll' = [poll EXCEPT ![w] = p]
  BY DEF Enqueue
<1> HIDE DEF p
<1> QED
  BY <1>2, <1>3, SetPoll DEF TypeOK

LEMMA PollEndsOK ==
    ASSUME TypeOK, NEW w \in Workers, PollEnds(w)
    PROVE  /\ poll' \in [Workers -> Polls] /\ Elsewhere(w)
           /\ poll'[w].pc = "read" /\ poll'[w].snap = poll[w].snap
           /\ poll'[w].gen = poll[w].gen /\ poll'[w].next = poll[w].next
           /\ poll'[w].failed = poll[w].failed /\ poll'[w].todo = poll[w].todo
<1>1. poll[w] \in Polls
  BY DEF TypeOK
<1> DEFINE p == [poll[w] EXCEPT !.pc = "read"]
<1>2. /\ p \in Polls /\ p.pc = "read" /\ p.snap = poll[w].snap
      /\ p.gen = poll[w].gen /\ p.next = poll[w].next
      /\ p.failed = poll[w].failed /\ p.todo = poll[w].todo
  BY <1>1 DEF Polls
<1>3. poll' = [poll EXCEPT ![w] = p]
  BY DEF PollEnds
<1> HIDE DEF p
<1> QED
  BY <1>2, <1>3, SetPoll DEF TypeOK

\* The reading of a page that fails has no cursor to store.
LEMMA PollFailsOK ==
    ASSUME TypeOK, NEW w \in Workers, PollFails(w)
    PROVE  /\ poll' \in [Workers -> Polls] /\ Elsewhere(w)
           /\ poll'[w].pc = "read" /\ poll'[w].snap = poll[w].snap
           /\ poll'[w].gen = poll[w].gen /\ poll'[w].failed
           /\ poll'[w].next = NoCursor /\ poll'[w].todo = {}
<1>1. poll[w] \in Polls
  BY DEF TypeOK
<1> DEFINE p == GivesUp(w)
<1>2. /\ p \in Polls /\ p.pc = "read" /\ p.snap = poll[w].snap /\ p.gen = poll[w].gen
      /\ p.failed /\ p.next = NoCursor /\ p.todo = {}
  BY <1>1, NoPollOK DEF GivesUp, Polls
<1>3. poll' = [poll EXCEPT ![w] = p]
  BY DEF PollFails
<1> HIDE DEF p
<1> QED
  BY <1>2, <1>3, SetPoll DEF TypeOK

LEMMA ReadsBackOK ==
    ASSUME TypeOK, NEW w \in Workers, ReadsBack(w)
    PROVE  /\ poll' \in [Workers -> Polls] /\ Elsewhere(w)
           /\ \/ /\ rule.enabled /\ rule.cursor = poll[w].snap /\ poll'[w].pc = "save"
                 /\ poll'[w].snap = poll[w].snap /\ poll'[w].gen = poll[w].gen
                 /\ poll'[w].next = poll[w].next /\ poll'[w].failed = poll[w].failed
              \/ poll'[w].pc = "dispatch" /\ Rests(w)
<1>1. poll[w] \in Polls
  BY DEF TypeOK
<1> DEFINE p == [poll[w] EXCEPT !.pc = "save"]
           q == [NoPoll EXCEPT !.pc = "dispatch"]
<1>2. /\ p \in Polls /\ p.pc = "save" /\ p.snap = poll[w].snap /\ p.gen = poll[w].gen
      /\ p.next = poll[w].next /\ p.failed = poll[w].failed
  BY <1>1 DEF Polls
<1>3. /\ q \in Polls /\ q.pc = "dispatch" /\ q.snap = NoCursor /\ q.next = NoCursor
      /\ q.todo = {} /\ q.rows = {}
  BY NoPollOK DEF Polls
<1>4. \/ rule.enabled /\ rule.cursor = poll[w].snap /\ poll' = [poll EXCEPT ![w] = p]
      \/ poll' = [poll EXCEPT ![w] = q]
  BY DEF ReadsBack
<1> HIDE DEF p, q
<1> QED
  BY <1>2, <1>3, <1>4, SetPoll DEF TypeOK, Rests

\* A dispatch that found rows has them and the lock; else the tick is over.
LEMMA CountsOK ==
    ASSUME TypeOK, NEW w \in Workers, DispatchCounts(w)
    PROVE  /\ poll' \in [Workers -> Polls] /\ Elsewhere(w)
           /\ poll'[w].rows \subseteq Pending
           /\ \/ /\ poll'[w].pc = "commit" /\ lock' = w
                 /\ poll'[w].snap = poll[w].snap /\ poll'[w].next = poll[w].next
              \/ poll'[w] = NoPoll /\ lock' = lock
<1>1. poll[w] \in Polls
  BY DEF TypeOK
<1>2. Oldest(Remaining) \subseteq Pending /\ Pending \subseteq Items
  BY DEF Oldest, Pending
<1> DEFINE p == [poll[w] EXCEPT !.pc = "commit", !.rows = Oldest(Remaining)]
<1>3. /\ p \in Polls /\ p.pc = "commit" /\ p.rows = Oldest(Remaining)
      /\ p.snap = poll[w].snap /\ p.next = poll[w].next
  BY <1>1, <1>2 DEF Polls
<1>4. \/ poll' = [poll EXCEPT ![w] = p] /\ lock' = w
      \/ poll' = [poll EXCEPT ![w] = NoPoll] /\ lock' = lock
  BY DEF DispatchCounts, Reserves
<1> HIDE DEF p
<1>5. CASE poll' = [poll EXCEPT ![w] = p] /\ lock' = w
  BY <1>2, <1>3, <1>5, SetPoll DEF TypeOK
<1>6. CASE poll' = [poll EXCEPT ![w] = NoPoll] /\ lock' = lock
  BY <1>6, NoPollOK, SetPoll DEF TypeOK
<1> QED
  BY <1>4, <1>5, <1>6

LEMMA TickEndsOK ==
    ASSUME TypeOK, NEW w \in Workers, DispatchCommits(w) \/ Restart(w)
    PROVE  /\ poll' \in [Workers -> Polls] /\ Elsewhere(w) /\ poll'[w] = NoPoll
           /\ lock' = IF lock = w THEN Nobody ELSE lock
<1>1. /\ poll' = [poll EXCEPT ![w] = NoPoll]
      /\ lock' = IF lock = w THEN Nobody ELSE lock
  BY DEF DispatchCommits, Restart
<1> QED
  BY <1>1, NoPollOK, SetPoll DEF TypeOK

LEMMA SavesOK ==
    ASSUME TypeOK, NEW w \in Workers, Saves(w)
    PROVE  /\ poll' \in [Workers -> Polls] /\ Elsewhere(w)
           /\ poll'[w].pc = "dispatch" /\ Rests(w)
           /\ rule' \in Rules /\ rule'.gen = rule.gen /\ rule'.act = rule.act
           /\ rule'.enabled = rule.enabled
           /\ \/ rule'.cursor = rule.cursor
              \/ ~poll[w].failed /\ rule'.cursor = poll[w].next
<1>1. poll[w].next \in Cursors /\ rule \in Rules
  BY DEF TypeOK, Polls
<1> DEFINE q == [NoPoll EXCEPT !.pc = "dispatch"]
           u == [rule EXCEPT !.cursor = poll[w].next]
<1>2. /\ q \in Polls /\ q.pc = "dispatch" /\ q.snap = NoCursor /\ q.next = NoCursor
      /\ q.todo = {} /\ q.rows = {}
  BY NoPollOK DEF Polls
<1>3. /\ u \in Rules /\ u.gen = rule.gen /\ u.act = rule.act /\ u.enabled = rule.enabled
      /\ u.cursor = poll[w].next
  BY <1>1 DEF Rules
<1>4. poll' = [poll EXCEPT ![w] = q]
  BY DEF Saves
<1>5. \/ rule' = rule
      \/ ~poll[w].failed /\ rule' = u
  BY DEF Saves
<1> HIDE DEF q, u
<1>6. /\ poll' \in [Workers -> Polls] /\ Elsewhere(w)
      /\ poll'[w].pc = "dispatch" /\ Rests(w)
  BY <1>2, <1>4, SetPoll DEF TypeOK, Rests
<1>7. CASE rule' = rule
  BY <1>1, <1>6, <1>7
<1>8. CASE ~poll[w].failed /\ rule' = u
  BY <1>3, <1>6, <1>8
<1> QED
  BY <1>5, <1>7, <1>8

TypeInv == TypeOK /\ GensOK

\* What does not write the rule and the requests keeps the bound of the activations.
LEMMA GensStay ==
    ASSUME GensOK, TypeOK, rule'.gen = rule.gen, request' = request,
           now' \in Nat, now' >= now
    PROVE  GensOK'
<1>1. now >= 1 /\ now \in Nat
  BY Constants DEF GensOK, TypeOK, Times
<1>2. Unused' = Unused
  BY DEF Unused
<1> QED
  BY <1>1, <1>2 DEF GensOK

LEMMA TypeWorld ==
    ASSUME TypeInv, (\E i \in Items : Arrive(i)) \/ Second \/ Midnight
    PROVE  TypeInv'
<1> USE DEF TypeInv, world, store
<1>1. now \in Times /\ now >= 1
  BY DEF TypeOK, GensOK
<1>2. CASE \E i \in Items : Arrive(i)
  <2>1. PICK i \in Items : Arrive(i)
    BY <1>2
  <2>2. PICK t \in {now} \union (IF source = "file" THEN {now - 1} ELSE {}) :
           /\ t > 0 /\ at' = [at EXCEPT ![i] = t]
           /\ promised' = [promised EXCEPT
                ![i] = IF rule.enabled /\ t > rule.act THEN rule.gen ELSE 0]
    BY <2>1 DEF Arrive
  <2>3. t \in Times
    BY <1>1, <2>2, Constants DEF Times
  <2>4. 0 \in Gens /\ rule.gen \in Gens
    BY Constants DEF Gens, TypeOK, Rules
  <2>5. at' \in [Items -> Times] /\ promised' \in [Items -> Gens]
    BY <2>2, <2>3, <2>4 DEF TypeOK
  <2>6. UNCHANGED <<now, source, store, poll, request, faults>>
    BY <2>1 DEF Arrive
  <2>7. GensOK'
    BY <1>1, <2>6, GensStay DEF Times
  <2> QED
    BY <2>5, <2>6, <2>7 DEF TypeOK
<1>3. CASE Second
  <2>1. now' \in Times /\ now' \in Nat /\ now' >= now
    BY <1>1, <1>3, Constants DEF Second, Times
  <2>2. UNCHANGED <<source, at, promised, store, poll, request, faults>>
    BY <1>3 DEF Second
  <2>3. GensOK'
    BY <2>1, <2>2, GensStay
  <2> QED
    BY <2>1, <2>2, <2>3 DEF TypeOK
<1>4. CASE Midnight
  <2>1. \A e \in Events : [e EXCEPT !.today = FALSE] \in Events
    BY DEF Events
  <2>2. event' = [i \in Items |-> [event[i] EXCEPT !.today = FALSE]]
    BY <1>4 DEF Midnight
  <2>3. event' \in [Items -> Events]
    BY <2>1, <2>2 DEF TypeOK
  <2>4. UNCHANGED <<world, rule, lock, poll, request, faults>>
    BY <1>4 DEF Midnight
  <2>5. GensOK'
    BY <1>1, <2>4, GensStay DEF Times
  <2> QED
    BY <2>3, <2>4, <2>5 DEF TypeOK
<1> QED
  BY <1>2, <1>3, <1>4

\* A request that activates the rule is not used again.
LEMMA TypeSwitch ==
    ASSUME TypeInv, NEW r \in Requests, ToggleReads(r) \/ ToggleWrites(r)
    PROVE  TypeInv'
<1> USE DEF TypeInv, world, store
<1>1. now \in Times /\ now >= 1 /\ rule \in Rules /\ rule.gen \in Nat /\ rule.gen >= 1
  BY DEF TypeOK, GensOK, Rules, Gens
<1>2. CASE ToggleReads(r)
  <2>1. request[r].pc = "new" /\ UNCHANGED <<world, store, poll, faults>>
    BY <1>2 DEF ToggleReads
  <2>2. PICK want \in BOOLEAN :
           request' = [request EXCEPT ![r] = [pc |-> "seen", want |-> want,
                                              saw |-> rule.enabled]]
    BY <1>2 DEF ToggleReads
  <2>3. request' \in [Requests -> Switches]
    BY <1>1, <2>2 DEF TypeOK, Switches, Rules
  <2>4. Unused' = Unused
    BY <2>1, <2>2 DEF Unused, TypeOK
  <2>5. GensOK'
    BY <2>1, <2>4 DEF GensOK
  <2> QED
    BY <2>1, <2>3, <2>5 DEF TypeOK
<1>3. CASE ToggleWrites(r)
  <2>1. /\ request[r].pc = "seen" /\ UNCHANGED <<world, lock, poll, faults>>
        /\ request' = [request EXCEPT ![r] = [pc |-> "done", want |-> FALSE, saw |-> FALSE]]
    BY <1>3 DEF ToggleWrites
  <2>2. request' \in [Requests -> Switches]
    BY <2>1 DEF TypeOK, Switches
  <2>3. r \in Unused /\ Unused' = Unused \ {r} /\ IsFiniteSet(Unused)
    BY <2>1 DEF Unused, TypeOK, GensOK
  <2>4. /\ IsFiniteSet(Unused') /\ Cardinality(Unused') = Cardinality(Unused) - 1
        /\ Cardinality(Unused) \in Nat /\ Cardinality(Unused') \in Nat
    BY <2>3, FS_RemoveElement, FS_CardinalityType
  <2>5. rule.gen + 1 + Cardinality(Unused') <= MaxRequests + 1
    BY <1>1, <2>4, Constants DEF GensOK
  <2>6. rule.gen + 1 \in Gens /\ rule.gen + Cardinality(Unused') <= MaxRequests + 1
    BY <1>1, <2>4, <2>5, Constants DEF Gens
  <2>7. Restarted \in Rules /\ Restarted.gen = rule.gen + 1
    BY <1>1, <2>6, Constants DEF Restarted, Rules, FreshCursor, Cursors, Times
  <2>8. [rule EXCEPT !.enabled = FALSE] \in Rules
        /\ [rule EXCEPT !.enabled = FALSE].gen = rule.gen
    BY <1>1 DEF Rules
  <2>9. \/ rule' = Restarted \/ rule' = rule \/ rule' = [rule EXCEPT !.enabled = FALSE]
    BY <1>3 DEF ToggleWrites
  <2>10. rule' \in Rules /\ (rule'.gen = rule.gen \/ rule'.gen = rule.gen + 1)
    BY <1>1, <2>7, <2>8, <2>9
  <2>11. GensOK'
    BY <1>1, <2>1, <2>4, <2>5, <2>6, <2>10 DEF GensOK
  <2>12. \A e \in Events : [e EXCEPT !.st = "cancelled"] \in Events
    BY DEF Events
  <2>13. event' = [i \in Items |-> IF Activates(r) /\ i \in Pending
                                   THEN [event[i] EXCEPT !.st = "cancelled"]
                                   ELSE event[i]]
    BY <1>3 DEF ToggleWrites
  <2>14. event' \in [Items -> Events]
    BY <2>12, <2>13 DEF TypeOK
  <2> QED
    BY <2>1, <2>2, <2>10, <2>11, <2>14 DEF TypeOK
<1> QED
  BY <1>2, <1>3

\* A new row is the last of the queue.
LEMMA NewRowOK ==
    ASSUME TypeOK, NEW w \in Workers, NEW i \in Items, Enqueue(w, i)
    PROVE  event' \in [Items -> Events]
<1>1. CASE Queues(w, i)
  <2>1. i \notin Rows /\ Rows \subseteq Items
    BY <1>1 DEF Queues, Rows
  <2>2. IsFiniteSet(Rows) /\ Cardinality(Rows) \in Nat
    BY <2>1, Constants, FS_Subset, FS_CardinalityType
  <2>3. IsFiniteSet(Rows \union {i}) /\ Cardinality(Rows \union {i}) = Cardinality(Rows) + 1
    BY <2>1, <2>2, FS_AddElement
  <2>4. Rows \union {i} \subseteq Items
    BY <2>1
  <2>5. Cardinality(Rows \union {i}) <= Cardinality(Items)
    BY <2>4, Constants, FS_Subset
  <2>6. Cardinality(Rows) + 1 \in 0..Cardinality(Items)
    BY <2>2, <2>3, <2>5, Constants
  <2>7. [st |-> "pending", today |-> FALSE, rank |-> Cardinality(Rows) + 1] \in Events
    BY <2>6 DEF Events
  <2>8. event' = [event EXCEPT ![i] = [st |-> "pending", today |-> FALSE,
                                       rank |-> Cardinality(Rows) + 1]]
    BY <1>1 DEF Enqueue
  <2> QED
    BY <2>7, <2>8 DEF TypeOK
<1>2. CASE ~Queues(w, i)
  BY <1>2 DEF Enqueue, TypeOK
<1> QED
  BY <1>1, <1>2

LEMMA TypePoll ==
    ASSUME TypeInv, NEW w \in Workers,
           TickStarts(w) \/ Lists(w) \/ TokenExpires(w)
           \/ (\E i \in Items : Enqueue(w, i)) \/ PollEnds(w) \/ PollFails(w)
    PROVE  TypeInv'
<1> USE DEF TypeInv, world, store
<1>1. now' = now => now' \in Nat /\ now' >= now
  BY Constants DEF TypeOK, Times
<1>2. CASE TickStarts(w)
  <2>1. UNCHANGED <<world, store, request, faults>> /\ poll' \in [Workers -> Polls]
    BY <1>2, TickStartsOK DEF TickStarts
  <2> QED
    BY <1>1, <2>1, GensStay DEF TypeOK
<1>3. CASE Lists(w)
  <2>1. UNCHANGED <<world, store, request, faults>> /\ poll' \in [Workers -> Polls]
    BY <1>3, ListsOK DEF Lists
  <2> QED
    BY <1>1, <2>1, GensStay DEF TypeOK
<1>4. CASE TokenExpires(w)
  <2>1. UNCHANGED <<world, store, request>> /\ poll' \in [Workers -> Polls]
    BY <1>4, TokenExpiresOK DEF TokenExpires
  <2>2. faults' \in 0..MaxFaults
    BY <1>4, Constants DEF TokenExpires, TypeOK
  <2> QED
    BY <1>1, <2>1, <2>2, GensStay DEF TypeOK
<1>5. CASE \E i \in Items : Enqueue(w, i)
  <2>1. /\ UNCHANGED <<world, rule, lock, request, faults>>
        /\ poll' \in [Workers -> Polls] /\ event' \in [Items -> Events]
    BY <1>5, EnqueueOK, NewRowOK DEF Enqueue
  <2> QED
    BY <1>1, <2>1, GensStay DEF TypeOK
<1>6. CASE PollEnds(w)
  <2>1. UNCHANGED <<world, store, request, faults>> /\ poll' \in [Workers -> Polls]
    BY <1>6, PollEndsOK DEF PollEnds
  <2> QED
    BY <1>1, <2>1, GensStay DEF TypeOK
<1>7. CASE PollFails(w)
  <2>1. UNCHANGED <<world, store, request>> /\ poll' \in [Workers -> Polls]
    BY <1>7, PollFailsOK DEF PollFails
  <2>2. faults' \in 0..MaxFaults
    BY <1>7, Constants DEF PollFails, TypeOK
  <2> QED
    BY <1>1, <2>1, <2>2, GensStay DEF TypeOK
<1> QED
  BY <1>2, <1>3, <1>4, <1>5, <1>6, <1>7

LEMMA TypeDispatch ==
    ASSUME TypeInv, NEW w \in Workers,
           ReadsBack(w) \/ Saves(w) \/ DispatchCounts(w) \/ DispatchCommits(w) \/ Restart(w)
    PROVE  TypeInv'
<1> USE DEF TypeInv, world, store
<1>1. now' = now => now' \in Nat /\ now' >= now
  BY Constants DEF TypeOK, Times
<1>2. CASE ReadsBack(w)
  <2>1. UNCHANGED <<world, store, request, faults>> /\ poll' \in [Workers -> Polls]
    BY <1>2, ReadsBackOK DEF ReadsBack
  <2> QED
    BY <1>1, <2>1, GensStay DEF TypeOK
<1>3. CASE Saves(w)
  <2>1. /\ UNCHANGED <<world, event, lock, request, faults>>
        /\ poll' \in [Workers -> Polls] /\ rule' \in Rules /\ rule'.gen = rule.gen
    BY <1>3, SavesOK DEF Saves
  <2> QED
    BY <1>1, <2>1, GensStay DEF TypeOK
<1>4. CASE DispatchCounts(w)
  <2>1. /\ UNCHANGED <<world, rule, event, request, faults>>
        /\ poll' \in [Workers -> Polls] /\ lock' \in Workers \union {Nobody}
    BY <1>4, CountsOK DEF DispatchCounts, TypeOK
  <2> QED
    BY <1>1, <2>1, GensStay DEF TypeOK
<1>5. CASE DispatchCommits(w)
  <2>1. /\ UNCHANGED <<world, rule, request, faults>>
        /\ poll' \in [Workers -> Polls] /\ lock' \in Workers \union {Nobody}
    BY <1>5, TickEndsOK DEF DispatchCommits, TypeOK
  <2>2. \A e \in Events : [e EXCEPT !.st = "dispatched", !.today = TRUE] \in Events
    BY DEF Events
  <2>3. event' = [i \in Items |-> IF i \in poll[w].rows
                                  THEN [event[i] EXCEPT !.st = "dispatched", !.today = TRUE]
                                  ELSE event[i]]
    BY <1>5 DEF DispatchCommits
  <2>4. event' \in [Items -> Events]
    BY <2>2, <2>3 DEF TypeOK
  <2> QED
    BY <1>1, <2>1, <2>4, GensStay DEF TypeOK
<1>6. CASE Restart(w)
  <2>1. /\ UNCHANGED <<world, rule, event, request>>
        /\ poll' \in [Workers -> Polls] /\ lock' \in Workers \union {Nobody}
    BY <1>6, TickEndsOK DEF Restart, TypeOK
  <2>2. faults' \in 0..MaxFaults
    BY <1>6, Constants DEF Restart, TypeOK
  <2> QED
    BY <1>1, <2>1, <2>2, GensStay DEF TypeOK
<1> QED
  BY <1>2, <1>3, <1>4, <1>5, <1>6

LEMMA TypeInit == Init => TypeInv
<1> SUFFICES ASSUME Init PROVE TypeInv
  OBVIOUS
<1>1. 0 \in Times /\ 1 \in Times /\ 0 \in Gens /\ 1 \in Gens
  BY Constants DEF Times, Gens
<1>2. rule \in Rules /\ rule.gen = 1 /\ now \in Times /\ now = 1
  BY <1>1 DEF Init, Rules, Cursors, FreshCursor
<1>3. NoEvent \in Events
  BY Constants DEF NoEvent, Events
<1>4. event \in [Items -> Events] /\ at \in [Items -> Times] /\ promised \in [Items -> Gens]
  BY <1>1, <1>3 DEF Init
<1>5. poll \in [Workers -> Polls] /\ request \in [Requests -> Switches] /\ faults \in 0..MaxFaults
  BY NoPollOK, Constants DEF Init, Switches
<1>6. lock \in Workers \union {Nobody} /\ source \in Sources
  BY DEF Init
<1>7. Unused = 1..MaxRequests
  BY DEF Init, Unused, Requests
<1>8. IsFiniteSet(Unused) /\ Cardinality(Unused) = MaxRequests
  BY <1>7, Constants, FS_Interval
<1>9. GensOK
  BY <1>2, <1>8, Constants DEF GensOK
<1> QED
  BY <1>2, <1>4, <1>5, <1>6, <1>9 DEF TypeInv, TypeOK

LEMMA TypeNext == TypeInv /\ [Next]_vars => TypeInv'
<1> SUFFICES ASSUME TypeInv, [Next]_vars PROVE TypeInv'
  OBVIOUS
<1>1. CASE (\E i \in Items : Arrive(i)) \/ Second \/ Midnight
  BY <1>1, TypeWorld
<1>2. CASE \E r \in Requests : ToggleReads(r) \/ ToggleWrites(r)
  BY <1>2, TypeSwitch
<1>3. CASE \E w \in Workers : Works(w) \/ TokenExpires(w) \/ PollFails(w) \/ Restart(w)
  BY <1>3, TypePoll, TypeDispatch DEF Works
<1>4. CASE UNCHANGED vars
  BY <1>4 DEF TypeInv, TypeOK, GensOK, Unused, vars, world, store
<1> QED
  BY <1>1, <1>2, <1>3, <1>4 DEF Next

\* Every variable keeps its type: an activation always has a number, a row a rank,
\* and what each poll holds is made of cursors and items.
THEOREM TypeCorrect == Spec => []TypeOK
<1>1. TypeInv => TypeOK
  BY DEF TypeInv
<1> QED
  BY <1>1, TypeInit, TypeNext, PTL DEF Spec

-----------------------------------------------------------------------------
(* What is settled stays so.  The dispatch that reserved its rows holds the  *)
(* write lock, so that they are still pending when its transaction commits.  *)

CommitOK(w) == poll[w].pc = "commit" => lock = w /\ poll[w].rows \subseteq Pending
CommitInv == TypeInv /\ \A w \in Workers : CommitOK(w)

\* Nobody is between the reservation and the commit while the lock is free.
LEMMA FreeLock ==
    ASSUME CommitInv, lock = Nobody, NEW w \in Workers
    PROVE  poll[w].pc # "commit"
BY FeedAssumption DEF CommitInv, CommitOK

\* The steps that neither write a row nor take or leave the lock.
LEMMA CommitFrame ==
    ASSUME CommitInv, UNCHANGED <<event, lock>>, NEW w \in Workers,
           Elsewhere(w), poll'[w].pc # "commit"
    PROVE  SettledStays /\ \A v \in Workers : CommitOK(v)'
<1>1. Pending' = Pending
  BY DEF Pending
<1>2. ASSUME NEW v \in Workers PROVE CommitOK(v)'
  <2>1. CASE v = w
    BY <2>1 DEF CommitOK
  <2>2. CASE v # w
    BY <1>1, <2>2 DEF CommitOK, CommitInv, Elsewhere
  <2> QED
    BY <2>1, <2>2
<1> QED
  BY <1>2 DEF SettledStays

LEMMA CommitRests ==
    ASSUME CommitInv, UNCHANGED <<event, lock, poll>>
    PROVE  SettledStays /\ \A v \in Workers : CommitOK(v)'
<1>1. Pending' = Pending
  BY DEF Pending
<1> QED
  BY <1>1 DEF SettledStays, CommitOK, CommitInv

LEMMA CommitPolls ==
    ASSUME CommitInv, NEW w \in Workers,
           TickStarts(w) \/ Lists(w) \/ TokenExpires(w) \/ PollEnds(w) \/ PollFails(w)
           \/ ReadsBack(w) \/ Saves(w)
    PROVE  SettledStays /\ \A v \in Workers : CommitOK(v)'
<1>1. TypeOK /\ GensOK
  BY DEF CommitInv, TypeInv
<1>2. UNCHANGED <<event, lock>>
  BY DEF TickStarts, Lists, TokenExpires, PollEnds, PollFails, ReadsBack, Saves, store
<1>3. Elsewhere(w) /\ poll'[w].pc # "commit"
  BY <1>1, TickStartsOK, ListsOK, TokenExpiresOK, PollEndsOK, PollFailsOK, ReadsBackOK,
     SavesOK
<1> QED
  BY <1>2, <1>3, CommitFrame

LEMMA CommitWrites ==
    ASSUME CommitInv,
           Midnight \/ (\E r \in Requests : ToggleWrites(r))
           \/ (\E w \in Workers, i \in Items : Enqueue(w, i))
    PROVE  SettledStays /\ \A v \in Workers : CommitOK(v)'
<1>1. TypeOK /\ event \in [Items -> Events]
  BY DEF CommitInv, TypeInv, TypeOK
<1>2. CASE Midnight
  <2>1. event' = [i \in Items |-> [event[i] EXCEPT !.today = FALSE]]
        /\ UNCHANGED <<lock, poll>>
    BY <1>2 DEF Midnight
  <2>2. \A e \in Events : [e EXCEPT !.today = FALSE].st = e.st
    BY DEF Events
  <2>3. \A i \in Items : event'[i].st = event[i].st
    BY <1>1, <2>1, <2>2
  <2>4. Pending' = Pending
    BY <2>3 DEF Pending
  <2> QED
    BY <2>1, <2>3, <2>4 DEF SettledStays, CommitOK, CommitInv
<1>3. CASE \E r \in Requests : ToggleWrites(r)
  <2>1. PICK r \in Requests : ToggleWrites(r)
    BY <1>3
  <2>2. /\ lock = Nobody /\ UNCHANGED <<lock, poll>>
        /\ event' = [i \in Items |-> IF Activates(r) /\ i \in Pending
                                     THEN [event[i] EXCEPT !.st = "cancelled"]
                                     ELSE event[i]]
    BY <2>1 DEF ToggleWrites
  <2>3. SettledStays
    BY <2>2 DEF SettledStays, Pending
  <2>4. \A v \in Workers : poll[v].pc # "commit"
    BY <2>2, FreeLock
  <2> QED
    BY <2>2, <2>3, <2>4 DEF CommitOK
<1>4. CASE \E w \in Workers, i \in Items : Enqueue(w, i)
  <2>1. PICK w \in Workers, i \in Items : Enqueue(w, i)
    BY <1>4
  <2>2. /\ lock = Nobody /\ lock' = lock
        /\ \/ event' = event
           \/ i \notin Rows /\ \A j \in Items \ {i} : event'[j] = event[j]
    BY <1>1, <2>1 DEF Enqueue, Queues
  <2>3. SettledStays
    BY <2>2 DEF SettledStays, Rows
  <2>4. \A v \in Workers : poll[v].pc # "commit"
    BY <2>2, FreeLock
  <2>5. poll'[w].pc = poll[w].pc /\ Elsewhere(w)
    BY <1>1, <2>1, EnqueueOK
  <2>6. \A v \in Workers : poll'[v].pc # "commit"
    BY <2>4, <2>5 DEF Elsewhere
  <2> QED
    BY <2>3, <2>6 DEF CommitOK
<1> QED
  BY <1>2, <1>3, <1>4

LEMMA CommitDispatch ==
    ASSUME CommitInv, NEW w \in Workers,
           DispatchCounts(w) \/ DispatchCommits(w) \/ Restart(w)
    PROVE  SettledStays /\ \A v \in Workers : CommitOK(v)'
<1>1. TypeOK /\ event \in [Items -> Events]
  BY DEF CommitInv, TypeInv, TypeOK
<1>2. CASE DispatchCounts(w)
  <2>1. lock = Nobody /\ event' = event /\ Pending' = Pending
    BY <1>2 DEF DispatchCounts, Pending
  <2>2. SettledStays
    BY <2>1 DEF SettledStays
  <2>3. \A v \in Workers : poll[v].pc # "commit"
    BY <2>1, FreeLock
  <2>4. /\ Elsewhere(w) /\ poll'[w].rows \subseteq Pending
        /\ \/ poll'[w].pc = "commit" /\ lock' = w
           \/ poll'[w] = NoPoll /\ lock' = lock
    BY <1>1, <1>2, CountsOK
  <2>5. CommitOK(w)'
    BY <2>1, <2>4, NoPollOK DEF CommitOK
  <2>6. \A v \in Workers \ {w} : poll'[v].pc # "commit"
    BY <2>3, <2>4 DEF Elsewhere
  <2> QED
    BY <2>2, <2>5, <2>6 DEF CommitOK
<1>3. CASE DispatchCommits(w)
  <2>1. poll[w].pc = "commit"
        /\ event' = [i \in Items |-> IF i \in poll[w].rows
                                     THEN [event[i] EXCEPT !.st = "dispatched", !.today = TRUE]
                                     ELSE event[i]]
    BY <1>3 DEF DispatchCommits
  <2>2. lock = w /\ poll[w].rows \subseteq Pending
    BY <2>1 DEF CommitInv, CommitOK
  <2>3. SettledStays
    BY <2>1, <2>2 DEF SettledStays, Pending
  <2>4. Elsewhere(w) /\ poll'[w] = NoPoll
    BY <1>1, <1>3, TickEndsOK
  <2>5. \A v \in Workers : poll'[v].pc # "commit"
    BY <2>2, <2>4, NoPollOK DEF Elsewhere, CommitInv, CommitOK
  <2> QED
    BY <2>3, <2>5 DEF CommitOK
<1>4. CASE Restart(w)
  <2>1. event' = event /\ Pending' = Pending
    BY <1>4 DEF Restart, Pending
  <2>2. SettledStays
    BY <2>1 DEF SettledStays
  <2>3. Elsewhere(w) /\ poll'[w] = NoPoll /\ lock' = IF lock = w THEN Nobody ELSE lock
    BY <1>1, <1>4, TickEndsOK
  <2>4. ASSUME NEW v \in Workers PROVE CommitOK(v)'
    <3>1. CASE v = w
      BY <2>3, <3>1, NoPollOK DEF CommitOK
    <3>2. CASE v # w
      BY <2>1, <2>3, <3>2 DEF CommitOK, CommitInv, Elsewhere
    <3> QED
      BY <3>1, <3>2
  <2> QED
    BY <2>2, <2>4
<1> QED
  BY <1>2, <1>3, <1>4

LEMMA CommitInit == Init => CommitInv
<1> SUFFICES ASSUME Init PROVE \A w \in Workers : CommitOK(w)
  BY TypeInit DEF CommitInv
<1> QED
  BY NoPollOK DEF Init, CommitOK

LEMMA CommitNext == CommitInv /\ [Next]_vars => CommitInv' /\ SettledStays
<1> SUFFICES ASSUME CommitInv, [Next]_vars
             PROVE  SettledStays /\ \A v \in Workers : CommitOK(v)'
  BY TypeNext DEF CommitInv
<1>1. CASE (\E i \in Items : Arrive(i)) \/ Second \/ (\E r \in Requests : ToggleReads(r))
  <2>1. UNCHANGED <<event, lock, poll>>
    BY <1>1 DEF Arrive, Second, ToggleReads, store
  <2> QED
    BY <2>1, CommitRests
<1>2. CASE UNCHANGED vars
  BY <1>2, CommitRests DEF vars, store
<1>3. CASE Midnight \/ (\E r \in Requests : ToggleWrites(r))
  BY <1>3, CommitWrites
<1>4. CASE \E w \in Workers : Works(w) \/ TokenExpires(w) \/ PollFails(w) \/ Restart(w)
  BY <1>4, CommitPolls, CommitWrites, CommitDispatch DEF Works
<1> QED
  BY <1>1, <1>2, <1>3, <1>4 DEF Next

\* With any number of workers, what a reactivation cancelled stays cancelled and a
\* mission that was started is not started again.
THEOREM SettledStaysSettled == Spec => [][SettledStays]_vars
<1>1. CommitInv /\ [Next]_vars => [SettledStays]_vars
  BY CommitNext
<1> QED
  BY <1>1, CommitInit, CommitNext, PTL DEF Spec

-----------------------------------------------------------------------------
(* One process runs the ticks, as it does unless multi-process is allowed.   *)
(* With two, a worker that read the row before a reactivation may write its  *)
(* cursor over the new one, and the poll of the other is no longer stale.    *)

OneWorker == \A v, w \in Workers : v = w

Reading(w) == poll[w].pc \in {"list", "enqueue", "read", "save"}

\* A cursor carries the number of the activation it was made in.
GenOK(w) == /\ poll[w].snap.gen <= rule.gen /\ poll[w].next.gen <= rule.gen
            /\ Reading(w) /\ rule.cursor = poll[w].snap => poll[w].gen = rule.gen
GenInv == TypeInv /\ rule.cursor.gen <= rule.gen /\ \A w \in Workers : GenOK(w)

LEMMA GenTypes ==
    ASSUME TypeInv, NEW w \in Workers
    PROVE  /\ rule.gen \in Nat /\ rule.gen >= 1 /\ rule.cursor.gen \in Nat
           /\ poll[w].snap.gen \in Nat /\ poll[w].next.gen \in Nat
           /\ NoCursor.gen <= rule.gen
BY NoPollOK DEF TypeInv, TypeOK, GensOK, Rules, Cursors, Polls, Gens

LEMMA GenRests ==
    ASSUME GenInv, rule' = rule, poll' = poll
    PROVE  rule'.cursor.gen <= rule'.gen /\ \A w \in Workers : GenOK(w)'
BY DEF GenInv, GenOK, Reading

\* An activation numbers its cursor above all those that polls have.
LEMMA GenSwitch ==
    ASSUME GenInv, NEW r \in Requests, ToggleWrites(r)
    PROVE  rule'.cursor.gen <= rule'.gen /\ \A w \in Workers : GenOK(w)'
<1>1. poll' = poll /\ (rule' = Restarted \/ rule' = rule
                       \/ rule' = [rule EXCEPT !.enabled = FALSE])
  BY DEF ToggleWrites
<1>2. rule \in Rules /\ rule.gen \in Nat
  BY DEF GenInv, TypeInv, TypeOK, Rules, Gens
<1>3. CASE rule' = Restarted
  <2>1. rule'.gen = rule.gen + 1 /\ rule'.cursor.gen = rule.gen + 1
    BY <1>3 DEF Restarted, FreshCursor
  <2>2. ASSUME NEW w \in Workers PROVE GenOK(w)'
    <3>1. /\ poll[w].snap.gen \in Nat /\ poll[w].next.gen \in Nat
          /\ poll[w].snap.gen <= rule.gen /\ poll[w].next.gen <= rule.gen
      BY GenTypes DEF GenInv, GenOK
    <3>2. poll[w].snap.gen < rule.gen + 1 /\ poll[w].next.gen <= rule.gen + 1
      BY <1>2, <3>1
    <3>3. rule'.cursor # poll[w].snap
      BY <1>2, <2>1, <3>1, <3>2
    <3> QED
      BY <1>1, <1>2, <2>1, <3>1, <3>2, <3>3 DEF GenOK
  <2> QED
    BY <1>2, <2>1, <2>2
<1>4. CASE rule' = rule
  BY <1>1, <1>4, GenRests
<1>5. CASE rule' = [rule EXCEPT !.enabled = FALSE]
  <2>1. rule'.gen = rule.gen /\ rule'.cursor = rule.cursor
    BY <1>2, <1>5 DEF Rules
  <2> QED
    BY <1>1, <2>1 DEF GenInv, GenOK, Reading
<1> QED
  BY <1>1, <1>3, <1>4, <1>5

LEMMA GenPolls ==
    ASSUME GenInv, NEW w \in Workers,
           TickStarts(w) \/ Lists(w) \/ TokenExpires(w)
           \/ (\E i \in Items : Enqueue(w, i)) \/ PollEnds(w) \/ PollFails(w)
    PROVE  rule' = rule /\ GenOK(w)'
<1>1. TypeOK /\ GensOK /\ TypeInv
  BY DEF GenInv, TypeInv
<1>2. /\ poll[w].snap.gen <= rule.gen /\ poll[w].next.gen <= rule.gen
      /\ rule.cursor.gen <= rule.gen /\ NoCursor.gen <= rule.gen
      /\ (Reading(w) /\ rule.cursor = poll[w].snap => poll[w].gen = rule.gen)
  BY <1>1, GenTypes DEF GenInv, GenOK
<1>3. rule' = rule
  BY DEF TickStarts, Lists, TokenExpires, Enqueue, PollEnds, PollFails, store
<1>4. CASE TickStarts(w)
  <2>1. \/ /\ poll'[w].snap = rule.cursor /\ poll'[w].gen = rule.gen
           /\ poll'[w].next = NoCursor
        \/ /\ poll'[w].pc = "dispatch"
           /\ poll'[w].snap = NoCursor /\ poll'[w].next = NoCursor
    BY <1>1, <1>4, TickStartsOK DEF Rests
  <2> QED
    BY <1>2, <1>3, <2>1 DEF GenOK, Reading
<1>5. CASE Lists(w)
  <2>1. PICK c, found, got, next :
           /\ Page(c, found, got, next) /\ c = Opened(poll[w].snap)
           /\ poll'[w].pc = "enqueue" /\ poll'[w].snap = poll[w].snap
           /\ poll'[w].gen = poll[w].gen /\ poll'[w].next = next
    BY <1>1, <1>5, ListsOK
  <2>2. c.gen = poll[w].snap.gen
    BY <1>1, <2>1, OpenedOK DEF TypeOK, Polls
  <2>3. next.gen = c.gen
    <3>1. c \in Cursors
      BY <2>1 DEF Page
    <3>2. c.until >= 1 => Closed(c).gen = c.gen
      BY <1>1, <3>1, ClosedOK
    <3>3. [c EXCEPT !.page = c.page \union got].gen = c.gen
      BY <3>1 DEF Cursors
    <3> QED
      BY <2>1, <3>2, <3>3 DEF Page
  <2>4. Reading(w)
    BY <1>5 DEF Lists, Reading
  <2> QED
    BY <1>2, <1>3, <2>1, <2>2, <2>3, <2>4 DEF GenOK
<1>6. CASE TokenExpires(w)
  <2>1. PICK c, next \in Cursors :
           /\ c = Opened(poll[w].snap) /\ next = [c EXCEPT !.sync = {}, !.page = {}]
           /\ poll'[w].pc = "read" /\ poll'[w].snap = poll[w].snap
           /\ poll'[w].gen = poll[w].gen /\ poll'[w].next = next
    BY <1>1, <1>6, TokenExpiresOK
  <2>2. c.gen = poll[w].snap.gen
    BY <1>1, <2>1, OpenedOK DEF TypeOK, Polls
  <2>3. next.gen = c.gen
    BY <2>1 DEF Cursors
  <2>4. Reading(w)
    BY <1>6 DEF TokenExpires, Reading
  <2> QED
    BY <1>2, <1>3, <2>1, <2>2, <2>3, <2>4 DEF GenOK
<1>7. CASE \E i \in Items : Enqueue(w, i)
  <2>1. /\ poll'[w].pc = poll[w].pc /\ poll'[w].snap = poll[w].snap
        /\ poll'[w].gen = poll[w].gen /\ poll'[w].next = poll[w].next
    BY <1>1, <1>7, EnqueueOK
  <2> QED
    BY <1>2, <1>3, <2>1 DEF GenOK, Reading
<1>8. CASE PollEnds(w)
  <2>1. /\ poll'[w].snap = poll[w].snap /\ poll'[w].gen = poll[w].gen
        /\ poll'[w].next = poll[w].next /\ Reading(w)
    BY <1>1, <1>8, PollEndsOK DEF PollEnds, Reading
  <2> QED
    BY <1>2, <1>3, <2>1 DEF GenOK
<1>9. CASE PollFails(w)
  <2>1. /\ poll'[w].snap = poll[w].snap /\ poll'[w].gen = poll[w].gen
        /\ poll'[w].next = NoCursor /\ Reading(w)
    BY <1>1, <1>9, PollFailsOK DEF PollFails, Reading
  <2> QED
    BY <1>2, <1>3, <2>1 DEF GenOK
<1> QED
  BY <1>3, <1>4, <1>5, <1>6, <1>7, <1>8, <1>9

LEMMA GenDispatch ==
    ASSUME GenInv, NEW w \in Workers,
           ReadsBack(w) \/ Saves(w) \/ DispatchCounts(w) \/ DispatchCommits(w) \/ Restart(w)
    PROVE  rule'.cursor.gen <= rule'.gen /\ GenOK(w)'
<1>1. TypeOK /\ TypeInv
  BY DEF GenInv, TypeInv
<1>2. /\ poll[w].snap.gen <= rule.gen /\ poll[w].next.gen <= rule.gen
      /\ rule.cursor.gen <= rule.gen /\ NoCursor.gen <= rule.gen
      /\ (Reading(w) /\ rule.cursor = poll[w].snap => poll[w].gen = rule.gen)
  BY <1>1, GenTypes DEF GenInv, GenOK
<1>3. CASE ReadsBack(w)
  <2>1. \/ /\ poll'[w].snap = poll[w].snap /\ poll'[w].gen = poll[w].gen
           /\ poll'[w].next = poll[w].next
        \/ /\ poll'[w].pc = "dispatch"
           /\ poll'[w].snap = NoCursor /\ poll'[w].next = NoCursor
    BY <1>1, <1>3, ReadsBackOK DEF Rests
  <2>2. rule' = rule /\ Reading(w)
    BY <1>3 DEF ReadsBack, Reading, store
  <2> QED
    BY <1>2, <2>1, <2>2 DEF GenOK, Reading
<1>4. CASE Saves(w)
  <2>1. /\ poll'[w].pc = "dispatch" /\ poll'[w].snap = NoCursor /\ poll'[w].next = NoCursor
        /\ rule'.gen = rule.gen
        /\ rule'.cursor = rule.cursor \/ rule'.cursor = poll[w].next
    BY <1>1, <1>4, SavesOK DEF Rests
  <2> QED
    BY <1>2, <2>1 DEF GenOK, Reading
<1>5. CASE DispatchCounts(w)
  <2>1. \/ /\ poll'[w].pc = "commit" /\ poll'[w].snap = poll[w].snap
           /\ poll'[w].next = poll[w].next
        \/ poll'[w] = NoPoll
    BY <1>1, <1>5, CountsOK
  <2>2. rule' = rule
    BY <1>5 DEF DispatchCounts
  <2> QED
    BY <1>2, <2>1, <2>2, NoPollOK DEF GenOK, Reading
<1>6. CASE DispatchCommits(w) \/ Restart(w)
  <2>1. poll'[w] = NoPoll /\ rule' = rule
    BY <1>1, <1>6, TickEndsOK DEF DispatchCommits, Restart
  <2> QED
    BY <1>2, <2>1, NoPollOK DEF GenOK, Reading
<1> QED
  BY <1>3, <1>4, <1>5, <1>6

LEMMA GenInit == Init => GenInv
<1> SUFFICES ASSUME Init
             PROVE  rule.cursor.gen <= rule.gen /\ \A w \in Workers : GenOK(w)
  BY TypeInit DEF GenInv
<1>1. rule.cursor.gen = 1 /\ rule.gen = 1
  BY DEF Init, FreshCursor
<1>2. \A w \in Workers : poll[w] = NoPoll
  BY DEF Init
<1> QED
  BY <1>1, <1>2, NoPollOK DEF GenOK, Reading

LEMMA GenNext == OneWorker /\ GenInv /\ [Next]_vars => GenInv' /\ StalePollIsMute
<1> SUFFICES ASSUME OneWorker, GenInv, [Next]_vars
             PROVE  GenInv' /\ StalePollIsMute
  OBVIOUS
<1>1. rule'.cursor.gen <= rule'.gen /\ \A w \in Workers : GenOK(w)'
  <2>1. CASE \/ (\E i \in Items : Arrive(i)) \/ Second \/ Midnight
             \/ (\E r \in Requests : ToggleReads(r)) \/ UNCHANGED vars
    <3>1. UNCHANGED <<rule, poll>>
      BY <2>1 DEF Arrive, Second, Midnight, ToggleReads, vars, store
    <3> QED
      BY <3>1, GenRests
  <2>2. CASE \E r \in Requests : ToggleWrites(r)
    BY <2>2, GenSwitch
  <2>3. CASE \E w \in Workers : Works(w) \/ TokenExpires(w) \/ PollFails(w) \/ Restart(w)
    <3>1. PICK w \in Workers : Works(w) \/ TokenExpires(w) \/ PollFails(w) \/ Restart(w)
      BY <2>3
    <3>2. rule'.cursor.gen <= rule'.gen /\ GenOK(w)'
      BY <3>1, GenPolls, GenDispatch DEF Works, GenInv
    <3>3. \A v \in Workers : v = w
      BY DEF OneWorker
    <3> QED
      BY <3>2, <3>3
  <2> QED
    BY <2>1, <2>2, <2>3 DEF Next
<1>2. StalePollIsMute
  <2> SUFFICES ASSUME NEW w \in Workers, NEW i \in Items, Enqueue(w, i), event'[i] # event[i]
               PROVE  poll[w].gen = rule.gen
    BY DEF StalePollIsMute
  <2>1. Reading(w) /\ rule.cursor = poll[w].snap
    BY DEF Enqueue, Queues, Reading
  <2> QED
    BY <2>1 DEF GenInv, GenOK
<1>3. TypeInv'
  BY TypeNext DEF GenInv
<1> QED
  BY <1>1, <1>2, <1>3 DEF GenInv

\* While one process runs the ticks, what is settled stays so, and a poll that began
\* before the rule was switched off and on again queues nothing.
THEOREM NothingComesBack == ASSUME OneWorker PROVE Spec => NothingIsRevived
<1>1. GenInv /\ [Next]_vars => GenInv'
  BY GenNext
<1>2. CommitInv /\ GenInv /\ [Next]_vars => [SettledStays /\ StalePollIsMute]_vars
  BY GenNext, CommitNext
<1> QED
  BY <1>1, <1>2, GenInit, CommitInit, CommitNext, PTL DEF Spec, NothingIsRevived

-----------------------------------------------------------------------------
(* The cursor passes nothing.  A cursor looks back: its window has begun and *)
(* its page and its token hold what has come.  What a poll will store passes *)
(* only what is queued or still in its hands, as long as the poll is live,   *)
(* that is, as long as the row still holds the cursor that it started from.  *)

Shape(c) == /\ c.until <= now /\ (c.since <= rule.act \/ c.since < now)
            /\ c.page \subseteq Arrived /\ c.sync \subseteq Arrived
            /\ c.sync # {} => /\ source = "calendar"
                              /\ \A i \in Arrived : at[i] < c.since => i \in c.sync
Covers(c) == \A i \in Items : Owed(i) /\ Passed(c, i) => i \in Rows

Live(w) == Reading(w) /\ rule.enabled /\ rule.cursor = poll[w].snap

WorldOK  == rule.act <= now /\ \A i \in Items : promised[i] <= rule.gen
Queuing(w) == poll[w].pc = "enqueue" /\ Live(w) =>
    \A i \in Items : Owed(i) /\ Passed(poll[w].next, i) => i \in Rows \union poll[w].todo
Stores(w) == poll[w].pc = "save" \/ (poll[w].pc = "read" /\ Live(w)) => Covers(poll[w].next)
PollOK(w) == Shape(poll[w].snap) /\ Shape(poll[w].next) /\ Queuing(w) /\ Stores(w)
SkipInv  == /\ GenInv /\ WorldOK /\ Shape(rule.cursor) /\ Covers(rule.cursor)
            /\ \A w \in Workers : PollOK(w)

LEMMA SkipTypes ==
    ASSUME TypeInv
    PROVE  /\ now \in Nat /\ now >= 1 /\ rule \in Rules /\ rule.cursor \in Cursors
           /\ rule.act \in Nat /\ rule.gen \in Nat
           /\ \A i \in Items : at[i] \in Nat /\ promised[i] \in Nat
           /\ \A c \in Cursors : c.since \in Nat /\ c.until \in Nat
           /\ \A w \in Workers : poll[w].snap \in Cursors /\ poll[w].next \in Cursors
<1>1. Times \subseteq Nat /\ Gens \subseteq Nat
  BY Constants DEF Times, Gens
<1> QED
  BY <1>1 DEF TypeInv, TypeOK, GensOK, Rules, Cursors, Polls

LEMMA RowsGrow ==
    ASSUME TypeInv, [Next]_vars
    PROVE  Rows \subseteq Rows'
<1> SUFFICES ASSUME NEW i \in Items, event[i].st # "none"
             PROVE  event'[i].st # "none"
  BY DEF Rows
<1>1. event \in [Items -> Events]
  BY DEF TypeInv, TypeOK
<1>2. CASE event' = event
  BY <1>2
<1>3. CASE Midnight
  <2>1. \A e \in Events : [e EXCEPT !.today = FALSE].st = e.st
    BY DEF Events
  <2> QED
    BY <1>1, <1>3, <2>1 DEF Midnight
<1>4. CASE \E r \in Requests : ToggleWrites(r)
  <2>1. \A e \in Events : [e EXCEPT !.st = "cancelled"].st = "cancelled"
    BY DEF Events
  <2> QED
    BY <1>1, <1>4, <2>1 DEF ToggleWrites
<1>5. CASE \E w \in Workers, j \in Items : Enqueue(w, j)
  BY <1>1, <1>5 DEF Enqueue
<1>6. CASE \E w \in Workers : DispatchCommits(w)
  <2>1. \A e \in Events : [e EXCEPT !.st = "dispatched", !.today = TRUE].st = "dispatched"
    BY DEF Events
  <2> QED
    BY <1>1, <1>6, <2>1 DEF DispatchCommits
<1>7. \/ event' = event \/ Midnight \/ (\E r \in Requests : ToggleWrites(r))
      \/ (\E w \in Workers, j \in Items : Enqueue(w, j))
      \/ (\E w \in Workers : DispatchCommits(w))
  BY DEF Next, Arrive, Second, ToggleReads, Works, TickStarts, Lists, TokenExpires, PollEnds,
         PollFails, ReadsBack, Saves, DispatchCounts, Restart, vars, store
<1> QED
  BY <1>2, <1>3, <1>4, <1>5, <1>6, <1>7

\* What a step does to the items and to the activation.
Calm == /\ UNCHANGED <<source, at, promised>> /\ rule'.gen = rule.gen
        /\ rule'.act = rule.act /\ now' \in Nat /\ now' >= now
Activation == UNCHANGED world /\ rule' = Restarted

LEMMA StepWorld ==
    ASSUME TypeInv, [Next]_vars
    PROVE  Calm \/ Activation \/ \E i \in Items : Arrive(i)
<1>1. rule \in Rules /\ now \in Nat /\ TypeOK
  BY SkipTypes DEF TypeInv
<1>2. CASE rule' = rule /\ UNCHANGED world
  BY <1>1, <1>2 DEF world, Calm
<1>3. CASE Second
  BY <1>1, <1>3 DEF Second, store, Calm
<1>4. CASE \E r \in Requests : ToggleWrites(r)
  <2>1. [rule EXCEPT !.enabled = FALSE].gen = rule.gen
        /\ [rule EXCEPT !.enabled = FALSE].act = rule.act
    BY <1>1 DEF Rules
  <2>2. UNCHANGED world /\ (rule' = Restarted \/ rule' = rule
                            \/ rule' = [rule EXCEPT !.enabled = FALSE])
    BY <1>4 DEF ToggleWrites
  <2>3. rule' = Restarted \/ (rule'.gen = rule.gen /\ rule'.act = rule.act)
    BY <2>1, <2>2
  <2> QED
    BY <1>1, <2>2, <2>3 DEF world, Calm, Activation
<1>5. CASE \E w \in Workers : Saves(w)
  <2>1. rule'.gen = rule.gen /\ rule'.act = rule.act
    BY <1>1, <1>5, SavesOK
  <2>2. UNCHANGED world
    BY <1>5 DEF Saves
  <2> QED
    BY <1>1, <2>1, <2>2 DEF world, Calm
<1>6. \/ (rule' = rule /\ UNCHANGED world) \/ Second
      \/ (\E r \in Requests : ToggleWrites(r)) \/ (\E w \in Workers : Saves(w))
      \/ (\E i \in Items : Arrive(i))
  BY DEF Next, Midnight, ToggleReads, Works, TickStarts, Lists, TokenExpires, Enqueue,
         PollEnds, PollFails, ReadsBack, DispatchCounts, DispatchCommits, Restart, vars, store
<1> QED
  BY <1>2, <1>3, <1>4, <1>5, <1>6

LEMMA RestartedOK ==
    ASSUME TypeInv, rule' = Restarted
    PROVE  /\ rule'.gen = rule.gen + 1 /\ rule'.act = now
           /\ rule'.cursor.gen = rule.gen + 1 /\ rule'.cursor.since = now
           /\ rule'.cursor.until = 0 /\ rule'.cursor.page = {} /\ rule'.cursor.sync = {}
BY DEF Restarted, FreshCursor

\* An item that comes is at the hour, or for a document the second before.
LEMMA ArriveOK ==
    ASSUME TypeInv, NEW i \in Items, Arrive(i)
    PROVE  /\ UNCHANGED <<now, source, rule, event, poll>>
           /\ at[i] = 0 /\ at'[i] \in Nat /\ at'[i] > 0
           /\ at'[i] = now \/ source = "file"
           /\ (promised'[i] = rule.gen /\ at'[i] > rule.act) \/ promised'[i] = 0
           /\ \A j \in Items \ {i} : at'[j] = at[j] /\ promised'[j] = promised[j]
<1>1. PICK t \in {now} \union (IF source = "file" THEN {now - 1} ELSE {}) :
         /\ t > 0 /\ at' = [at EXCEPT ![i] = t]
         /\ promised' = [promised EXCEPT
              ![i] = IF rule.enabled /\ t > rule.act THEN rule.gen ELSE 0]
  BY DEF Arrive
<1>2. t \in Nat /\ (t = now \/ source = "file")
  BY <1>1, SkipTypes
<1>3. at \in [Items -> Times] /\ promised \in [Items -> Gens]
  BY DEF TypeInv, TypeOK
<1>4. UNCHANGED <<now, source, rule, event, poll>> /\ at[i] = 0
  BY DEF Arrive, store
<1> QED
  BY <1>1, <1>2, <1>3, <1>4

\* A shape is kept by every step: time goes by, and what comes is not before it.
LEMMA ShapeStays ==
    ASSUME TypeInv, WorldOK, [Next]_vars, NEW c \in Cursors, Shape(c)
    PROVE  Shape(c)'
<1>1. now \in Nat /\ rule.act \in Nat /\ c.since \in Nat /\ c.until \in Nat
  BY SkipTypes
<1>2. CASE Calm
  <2>1. c.until <= now' /\ (c.since <= rule'.act \/ c.since < now')
    BY <1>1, <1>2 DEF Calm, Shape
  <2>2. Arrived' = Arrived
    BY <1>2 DEF Calm, Arrived
  <2> QED
    BY <1>2, <2>1, <2>2 DEF Calm, Shape
<1>3. CASE Activation
  <2>1. c.until <= now' /\ c.since <= rule'.act
    BY <1>1, <1>3, RestartedOK DEF Activation, world, Shape, WorldOK
  <2>2. Arrived' = Arrived /\ at' = at /\ source' = source
    BY <1>3 DEF Activation, world, Arrived
  <2> QED
    BY <2>1, <2>2 DEF Shape
<1>4. CASE \E i \in Items : Arrive(i)
  <2>1. PICK i \in Items : Arrive(i)
    BY <1>4
  <2>2. /\ UNCHANGED <<now, source, rule>>
        /\ at[i] = 0 /\ at'[i] \in Nat /\ at'[i] > 0
        /\ at'[i] = now \/ source = "file"
        /\ \A j \in Items \ {i} : at'[j] = at[j]
    BY <2>1, ArriveOK
  <2>3. Arrived \subseteq Arrived' /\ \A j \in Arrived' \ {i} : j \in Arrived /\ at'[j] = at[j]
    BY <2>2 DEF Arrived
  <2>4. c.sync # {} => ~(at'[i] < c.since)
    BY <1>1, <2>2 DEF Shape, WorldOK
  <2> QED
    BY <2>2, <2>3, <2>4 DEF Shape
<1> QED
  BY <1>2, <1>3, <1>4, StepWorld

\* No step makes a cursor pass what is owed: what comes, comes after its window.
LEMMA PassedStays ==
    ASSUME TypeInv, WorldOK, [Next]_vars, NEW c \in Cursors, Shape(c),
           NEW i \in Items, Owed(i)', Passed(c, i)'
    PROVE  Owed(i) /\ Passed(c, i)
<1>1. now \in Nat /\ rule.act \in Nat /\ c.since \in Nat /\ at[i] \in Nat
      /\ promised[i] \in Nat /\ rule.gen \in Nat
  BY SkipTypes
<1>2. CASE Calm
  BY <1>2 DEF Calm, Owed, Passed
<1>3. CASE Activation
  <2>1. promised'[i] <= rule.gen /\ rule'.gen = rule.gen + 1 /\ promised'[i] \in Nat
    BY <1>1, <1>3, RestartedOK DEF Activation, world, WorldOK
  <2> QED
    BY <1>1, <2>1 DEF Owed
<1>4. CASE \E j \in Items : Arrive(j)
  <2>1. PICK j \in Items : Arrive(j)
    BY <1>4
  <2>2. /\ UNCHANGED <<now, source, rule>>
        /\ at[j] = 0 /\ at'[j] \in Nat /\ at'[j] > 0
        /\ at'[j] = now \/ source = "file"
        /\ (promised'[j] = rule.gen /\ at'[j] > rule.act) \/ promised'[j] = 0
        /\ \A k \in Items \ {j} : at'[k] = at[k] /\ promised'[k] = promised[k]
    BY <2>1, ArriveOK
  <2>3. CASE i # j
    BY <2>2, <2>3 DEF Owed, Passed
  <2>4. CASE i = j
    <3>1. at'[i] > rule.act
      BY <2>2, <2>4 DEF Owed
    <3>2. i \notin c.page /\ i \notin c.sync
      BY <2>2, <2>4 DEF Shape, Arrived
    <3>3. (source = "gmail" /\ at'[i] <= c.since) \/ (source = "calendar" /\ at'[i] < c.since)
      BY <2>2, <3>2 DEF Passed
    <3>4. at'[i] = now /\ at'[i] <= c.since /\ at'[i] \in Nat
      BY <1>1, <2>2, <2>4, <3>3
    <3> QED
      BY <1>1, <3>1, <3>4 DEF Shape
  <2> QED
    BY <2>3, <2>4
<1> QED
  BY <1>2, <1>3, <1>4, StepWorld

LEMMA CoversStays ==
    ASSUME TypeInv, WorldOK, [Next]_vars, NEW c \in Cursors, Shape(c), Covers(c)
    PROVE  Covers(c)'
<1> SUFFICES ASSUME NEW i \in Items, Owed(i)', Passed(c, i)'
             PROVE  i \in Rows'
  BY DEF Covers
<1> QED
  BY PassedStays, RowsGrow DEF Covers

LEMMA WorldStays ==
    ASSUME TypeInv, WorldOK, [Next]_vars
    PROVE  WorldOK'
<1>1. now \in Nat /\ rule.act \in Nat /\ rule.gen \in Nat
      /\ \A i \in Items : promised[i] \in Nat
  BY SkipTypes
<1>2. CASE Calm
  BY <1>1, <1>2 DEF Calm, WorldOK
<1>3. CASE Activation
  BY <1>1, <1>3, RestartedOK DEF Activation, world, WorldOK
<1>4. CASE \E i \in Items : Arrive(i)
  <2>1. PICK i \in Items : Arrive(i)
    BY <1>4
  <2> QED
    BY <1>1, <2>1, ArriveOK DEF WorldOK
<1> QED
  BY <1>2, <1>3, <1>4, StepWorld

LEMMA NoCursorShape ==
    ASSUME TypeInv
    PROVE  Shape(NoCursor) /\ Covers(NoCursor)
<1>1. /\ now \in Nat /\ now >= 1 /\ rule.act \in Nat /\ \A i \in Items : at[i] \in Nat
  BY SkipTypes
<1>2. /\ NoCursor.since = 0 /\ NoCursor.until = 0
      /\ NoCursor.page = {} /\ NoCursor.sync = {}
  BY NoPollOK
<1>3. Shape(NoCursor)
  BY <1>1, <1>2 DEF Shape
<1>4. \A i \in Items : ~Passed(NoCursor, i)
  BY <1>1, <1>2 DEF Passed
<1> QED
  BY <1>3, <1>4 DEF Covers

\* The window of a poll ends now; what it passes does not depend on that.
LEMMA OpenedShape ==
    ASSUME TypeInv, NEW c \in Cursors, Shape(c)
    PROVE  Shape(Opened(c)) /\ \A i \in Items : Passed(Opened(c), i) <=> Passed(c, i)
<1>1. /\ Opened(c).since = c.since /\ Opened(c).page = c.page /\ Opened(c).sync = c.sync
      /\ Opened(c).until = c.until \/ Opened(c).until = now
  BY OpenedOK DEF TypeInv
<1>2. now \in Nat
  BY SkipTypes
<1> QED
  BY <1>1, <1>2 DEF Shape, Passed

LEMMA FoundArrived ==
    ASSUME NEW c, NEW found \in Found(c), source \in {"gmail", "calendar", "file"}
    PROVE  /\ found \subseteq Arrived
           /\ source = "gmail" =>
                \A i \in Arrived : at[i] > c.since /\ at[i] < c.until => i \in found
           /\ source = "calendar" /\ c.sync = {} =>
                \A i \in Arrived : at[i] >= c.since => i \in found
           /\ source = "calendar" /\ c.sync # {} => found = Arrived \ c.sync
<1>1. CASE source = "file"
  BY <1>1 DEF Found
<1>2. CASE source = "calendar"
  BY <1>2 DEF Found
<1>3. CASE source = "gmail"
  BY <1>3 DEF Found
<1> QED
  BY <1>1, <1>2, <1>3

LEMMA PageShape ==
    ASSUME TypeInv, NEW c, NEW found, NEW got, NEW next, Page(c, found, got, next), Shape(c)
    PROVE  Shape(next)
<1>1. now \in Nat /\ rule.act \in Nat /\ c \in Cursors /\ c.until \in Nat
      /\ \A i \in Items : at[i] \in Nat
  BY SkipTypes DEF Page
<1>2. source \in {"gmail", "calendar", "file"} /\ TypeOK
  BY FeedAssumption DEF TypeInv, TypeOK
<1>3. CASE next = c
  BY <1>3
<1>4. CASE c.until >= 1 /\ next = Closed(c)
  <2>1. /\ next.since = c.until - 1 /\ next.until = 0 /\ next.page = {}
        /\ next.sync = IF source = "calendar" THEN Arrived ELSE {}
    BY <1>1, <1>2, <1>4, ClosedOK
  <2>2. next.until <= now /\ next.since < now
    BY <1>1, <1>4, <2>1 DEF Shape
  <2> QED
    BY <2>1, <2>2 DEF Shape
<1>5. CASE next = [c EXCEPT !.page = c.page \union got]
  <2>1. /\ next.since = c.since /\ next.until = c.until /\ next.sync = c.sync
        /\ next.page = c.page \union got
    BY <1>1, <1>5 DEF Cursors
  <2>2. got \subseteq Arrived
    BY <1>2, FoundArrived DEF Page
  <2> QED
    BY <2>1, <2>2 DEF Shape
<1> QED
  BY <1>3, <1>4, <1>5 DEF Page

\* What the cursor of a page passes was passed before, or is on the page.
LEMMA PageCovers ==
    ASSUME TypeInv, NEW c, NEW found, NEW got, NEW next, Page(c, found, got, next), Shape(c),
           NEW i \in Items, Passed(next, i)
    PROVE  Passed(c, i) \/ i \in got
<1>1. now \in Nat /\ c \in Cursors /\ c.until \in Nat /\ c.since \in Nat /\ at[i] \in Nat
  BY SkipTypes DEF Page
<1>2. source \in {"gmail", "calendar", "file"} /\ TypeOK
  BY FeedAssumption DEF TypeInv, TypeOK
<1>3. CASE next = c
  BY <1>3
<1>4. CASE got = found \ c.page /\ c.until >= 1 /\ next = Closed(c)
  <2>1. /\ next.since = c.until - 1 /\ next.page = {}
        /\ next.sync = IF source = "calendar" THEN Arrived ELSE {}
    BY <1>1, <1>2, <1>4, ClosedOK
  <2>2. i \in found => Passed(c, i) \/ i \in got
    BY <1>4 DEF Passed
  <2>3. CASE source = "gmail"
    <3>1. at[i] > 0 /\ at[i] <= c.until - 1
      BY <2>1, <2>3 DEF Passed
    <3>2. i \in Arrived /\ at[i] < c.until
      BY <1>1, <1>4, <3>1 DEF Arrived
    <3>3. at[i] > c.since => i \in found
      BY <1>2, <2>3, <3>2, FoundArrived DEF Page
    <3>4. at[i] <= c.since => Passed(c, i)
      BY <2>3, <3>1 DEF Passed
    <3> QED
      BY <1>1, <2>2, <3>3, <3>4
  <2>4. CASE source = "calendar"
    <3>1. i \in Arrived
      BY <2>1, <2>4 DEF Passed, Arrived
    <3>2. CASE c.sync = {}
      <4>1. at[i] >= c.since => i \in found
        BY <1>2, <2>4, <3>1, <3>2, FoundArrived DEF Page
      <4>2. at[i] < c.since => Passed(c, i)
        BY <2>4, <3>1, <3>2 DEF Passed, Arrived
      <4> QED
        BY <1>1, <2>2, <4>1, <4>2
    <3>3. CASE c.sync # {}
      <4>1. i \in c.sync \/ i \in found
        BY <1>2, <2>4, <3>1, <3>3, FoundArrived DEF Page
      <4> QED
        BY <2>2, <4>1 DEF Passed
    <3> QED
      BY <3>2, <3>3
  <2>5. CASE source = "file"
    BY <2>1, <2>5 DEF Passed
  <2> QED
    BY <1>2, <2>3, <2>4, <2>5
<1>5. CASE next = [c EXCEPT !.page = c.page \union got]
  <2>1. /\ next.since = c.since /\ next.sync = c.sync
        /\ next.page = c.page \union got
    BY <1>1, <1>5 DEF Cursors
  <2> QED
    BY <2>1 DEF Passed
<1> QED
  BY <1>3, <1>4, <1>5 DEF Page

\* Without its token, a calendar is read again from the watermark, and the token
\* held all that came before it.
LEMMA TokenCovers ==
    ASSUME TypeInv, NEW c \in Cursors, Shape(c), c.sync # {},
           NEW next, next = [c EXCEPT !.sync = {}, !.page = {}]
    PROVE  Shape(next) /\ \A i \in Items : Passed(next, i) => Passed(c, i)
<1>1. /\ next.since = c.since /\ next.until = c.until
      /\ next.sync = {} /\ next.page = {}
  BY DEF Cursors
<1>2. source = "calendar" /\ \A i \in Arrived : at[i] < c.since => i \in c.sync
  BY DEF Shape
<1>3. Shape(next)
  BY <1>1 DEF Shape
<1>4. ASSUME NEW i \in Items, Passed(next, i) PROVE Passed(c, i)
  <2>1. at[i] > 0 /\ at[i] < c.since
    BY <1>1, <1>2, <1>4 DEF Passed
  <2>2. i \in c.sync
    BY <1>2, <2>1 DEF Arrived
  <2> QED
    BY <2>2 DEF Passed
<1> QED
  BY <1>3, <1>4

\* The cursor of the row.
LEMMA CursorStays ==
    ASSUME SkipInv, [Next]_vars
    PROVE  Shape(rule.cursor)' /\ Covers(rule.cursor)'
<1>1. TypeInv /\ WorldOK /\ rule \in Rules /\ TypeOK
  BY SkipTypes DEF SkipInv, GenInv, TypeInv
<1>2. ASSUME NEW c \in Cursors, Shape(c), Covers(c), rule'.cursor = c
      PROVE  Shape(rule.cursor)' /\ Covers(rule.cursor)'
  <2>1. Shape(c)' /\ Covers(c)'
    BY <1>1, <1>2, ShapeStays, CoversStays
  <2> QED
    BY <1>2, <2>1 DEF Shape, Covers, Passed
<1>3. CASE rule'.cursor = rule.cursor
  <2>1. PICK c \in Cursors : c = rule.cursor
    BY <1>1 DEF Rules
  <2>2. Shape(c) /\ Covers(c)
    BY <2>1 DEF SkipInv
  <2> QED
    BY <1>2, <1>3, <2>1, <2>2
<1>4. CASE \E w \in Workers : Saves(w)
  <2>1. PICK w \in Workers : Saves(w)
    BY <1>4
  <2>2. CASE rule'.cursor = poll[w].next
    <3>1. PICK c \in Cursors : c = poll[w].next
      BY <1>1, SkipTypes
    <3>2. Shape(c) /\ Covers(c)
      BY <2>1, <3>1 DEF SkipInv, PollOK, Stores, Saves
    <3> QED
      BY <1>2, <2>2, <3>1, <3>2
  <2> QED
    BY <1>1, <1>3, <2>1, <2>2, SavesOK
<1>5. CASE \E r \in Requests : ToggleWrites(r)
  <2>1. UNCHANGED world /\ (rule' = Restarted \/ rule' = rule
                            \/ rule' = [rule EXCEPT !.enabled = FALSE])
    BY <1>5 DEF ToggleWrites
  <2>2. [rule EXCEPT !.enabled = FALSE].cursor = rule.cursor
    BY <1>1 DEF Rules
  <2>3. CASE rule' = Restarted
    <3>1. /\ rule'.gen = rule.gen + 1 /\ rule'.act = now
          /\ rule'.cursor.since = now /\ rule'.cursor.until = 0
          /\ rule'.cursor.page = {} /\ rule'.cursor.sync = {}
      BY <1>1, <2>3, RestartedOK
    <3>2. now \in Nat /\ rule.gen \in Nat /\ \A i \in Items : promised[i] \in Nat
      BY <1>1, SkipTypes
    <3>3. Shape(rule.cursor)'
      BY <2>1, <3>1, <3>2 DEF Shape, world
    <3>4. ASSUME NEW i \in Items PROVE ~Owed(i)'
      <4>1. promised'[i] <= rule.gen
        BY <1>1, <2>1 DEF WorldOK, world
      <4> QED
        BY <2>1, <3>1, <3>2, <4>1 DEF Owed, world
    <3> QED
      BY <3>3, <3>4 DEF Covers
  <2>4. CASE rule' = [rule EXCEPT !.enabled = FALSE]
    BY <1>3, <2>2, <2>4
  <2> QED
    BY <1>3, <2>1, <2>3, <2>4
<1>6. \/ rule' = rule \/ (\E w \in Workers : Saves(w))
      \/ (\E r \in Requests : ToggleWrites(r))
  BY DEF Next, Arrive, Second, Midnight, ToggleReads, Works, TickStarts, Lists, TokenExpires,
         Enqueue, PollEnds, PollFails, ReadsBack, DispatchCounts, DispatchCommits, Restart,
         vars, store
<1> QED
  BY <1>3, <1>4, <1>5, <1>6

\* A poll that has lost the row never has it back: a reactivation numbers a new
\* cursor, and only the poll itself could write another.
LEMMA LiveStays ==
    ASSUME SkipInv, [Next]_vars, \A v \in Workers : ~Saves(v),
           NEW w \in Workers, poll'[w].snap = poll[w].snap, Reading(w), Live(w)'
    PROVE  Live(w)
<1>1. rule \in Rules /\ rule.gen \in Nat /\ poll[w].snap.gen \in Nat
      /\ poll[w].snap.gen <= rule.gen /\ TypeInv
  BY SkipTypes, GenTypes DEF SkipInv, GenInv, GenOK
<1>2. CASE rule' = rule
  BY <1>2 DEF Live
<1>3. CASE \E r \in Requests : ToggleWrites(r)
  <2>1. rule' = Restarted \/ rule' = rule \/ rule' = [rule EXCEPT !.enabled = FALSE]
    BY <1>3 DEF ToggleWrites
  <2>2. rule' = Restarted => rule'.cursor.gen = rule.gen + 1
    BY <1>1, RestartedOK
  <2>3. rule' # Restarted
    BY <1>1, <2>2 DEF Live
  <2>4. [rule EXCEPT !.enabled = FALSE].enabled = FALSE
    BY <1>1 DEF Rules
  <2>5. rule' # [rule EXCEPT !.enabled = FALSE]
    BY <2>4 DEF Live
  <2> QED
    BY <1>2, <2>1, <2>3, <2>5
<1>4. rule' = rule \/ (\E r \in Requests : ToggleWrites(r))
  BY DEF Next, Arrive, Second, Midnight, ToggleReads, Works, TickStarts, Lists, TokenExpires,
         Enqueue, PollEnds, PollFails, ReadsBack, DispatchCounts, DispatchCommits, Restart,
         vars, store
<1> QED
  BY <1>2, <1>3, <1>4

\* What a poll has keeps its shape when the poll is left alone by the step.
LEMMA PollStays ==
    ASSUME SkipInv, [Next]_vars, \A v \in Workers : ~Saves(v),
           NEW w \in Workers, poll'[w] = poll[w]
    PROVE  PollOK(w)'
<1>1. TypeInv /\ WorldOK /\ PollOK(w)
  BY DEF SkipInv, GenInv
<1>2. PICK s \in Cursors : s = poll[w].snap
  BY <1>1, SkipTypes
<1>3. PICK n \in Cursors : n = poll[w].next
  BY <1>1, SkipTypes
<1>4. Shape(s) /\ Shape(n)
  BY <1>1, <1>2, <1>3 DEF PollOK
<1>5. Shape(s)' /\ Shape(n)'
  BY <1>1, <1>4, ShapeStays
<1>6. Live(w)' => Live(w)
  BY LiveStays DEF Live, Reading
<1>7. Queuing(w)'
  <2> SUFFICES ASSUME poll[w].pc = "enqueue", Live(w)', NEW i \in Items,
                      Owed(i)', Passed(n, i)'
               PROVE  i \in Rows' \union poll[w].todo
    BY <1>3 DEF Queuing, Passed
  <2>1. Owed(i) /\ Passed(n, i)
    BY <1>1, <1>4, PassedStays
  <2>2. i \in Rows \union poll[w].todo
    BY <1>1, <1>3, <1>6, <2>1 DEF PollOK, Queuing
  <2> QED
    BY <1>1, <2>2, RowsGrow
<1>8. Stores(w)'
  <2> SUFFICES ASSUME poll[w].pc = "save" \/ (poll[w].pc = "read" /\ Live(w)')
               PROVE  Covers(n)'
    BY <1>3 DEF Stores, Covers, Passed
  <2>1. Covers(n)
    BY <1>1, <1>3, <1>6 DEF PollOK, Stores
  <2> QED
    BY <1>1, <1>4, <2>1, CoversStays
<1>9. Shape(poll[w].snap)' /\ Shape(poll[w].next)'
  BY <1>2, <1>3, <1>5 DEF Shape
<1> QED
  BY <1>7, <1>8, <1>9 DEF PollOK

\* A worker whose poll is over, or has not begun.
LEMMA PollRests ==
    ASSUME TypeInv, WorldOK, [Next]_vars, NEW w \in Workers,
           poll'[w].snap = NoCursor, poll'[w].next = NoCursor,
           poll'[w].pc \in {"dispatch", "commit", "idle"}
    PROVE  PollOK(w)'
<1>1. PICK n \in Cursors : n = NoCursor
  BY NoPollOK
<1>2. Shape(n)'
  BY <1>1, NoCursorShape, ShapeStays
<1> QED
  BY <1>1, <1>2 DEF PollOK, Queuing, Stores, Live, Reading, Shape, NoCursor, FreshCursor

\* The steps of a poll change neither the items nor the rule.
LEMMA PollMoves ==
    ASSUME SkipInv, [Next]_vars, \A v \in Workers : ~Saves(v),
           NEW w \in Workers, NEW s \in Cursors, Shape(s), poll'[w].snap = s,
           NEW n \in Cursors, Shape(n), poll'[w].next = n,
           Queuing(w)', Stores(w)'
    PROVE  PollOK(w)'
<1>1. Shape(s)' /\ Shape(n)'
  BY ShapeStays DEF SkipInv, GenInv
<1>2. Shape(poll[w].snap)' /\ Shape(poll[w].next)'
  BY <1>1 DEF Shape
<1> QED
  BY <1>2 DEF PollOK

\* The page is read, or cannot be.
LEMMA SkipReads ==
    ASSUME SkipInv, [Next]_vars, \A v \in Workers : ~Saves(v), NEW w \in Workers,
           TickStarts(w) \/ Lists(w) \/ TokenExpires(w) \/ PollFails(w)
    PROVE  PollOK(w)'
<1>1. TypeInv /\ WorldOK /\ PollOK(w) /\ TypeOK /\ GensOK
  BY DEF SkipInv, GenInv, TypeInv
<1>2. PICK s \in Cursors : s = poll[w].snap
  BY <1>1, SkipTypes
<1>3. Shape(s)
  BY <1>1, <1>2 DEF PollOK
<1>4. CASE TickStarts(w)
  <2>1. CASE poll'[w].pc = "dispatch" /\ Rests(w)
    BY <1>1, <2>1, PollRests DEF Rests
  <2>2. CASE poll'[w].pc = "list" /\ poll'[w].snap = rule.cursor /\ poll'[w].next = NoCursor
    <3>1. rule.cursor \in Cursors /\ Shape(rule.cursor)
      BY <1>1, SkipTypes DEF SkipInv
    <3>2. NoCursor \in Cursors /\ Shape(NoCursor)
      BY <1>1, NoPollOK, NoCursorShape
    <3>3. Queuing(w)' /\ Stores(w)'
      BY <2>2 DEF Queuing, Stores
    <3> QED
      BY <2>2, <3>1, <3>2, <3>3, PollMoves
  <2> QED
    BY <1>1, <1>4, <2>1, <2>2, TickStartsOK
<1>5. CASE Lists(w)
  <2>1. PICK c, found, got, next :
           /\ Page(c, found, got, next) /\ c = Opened(poll[w].snap)
           /\ poll'[w].pc = "enqueue" /\ poll'[w].snap = poll[w].snap
           /\ poll'[w].next = next /\ poll'[w].todo = got
    BY <1>1, <1>5, ListsOK
  <2>2. Shape(c) /\ \A i \in Items : Passed(c, i) <=> Passed(s, i)
    BY <1>1, <1>2, <1>3, <2>1, OpenedShape
  <2>3. Shape(next) /\ next \in Cursors
    <3>1. Shape(next)
      BY <1>1, <2>1, <2>2, PageShape
    <3>2. next \in Cursors
      BY <2>1 DEF Page
    <3> QED
      BY <3>1, <3>2
  <2>4. Reading(w)
    BY <1>5 DEF Lists, Reading
  <2>5. Queuing(w)'
    <3> SUFFICES ASSUME Live(w)', NEW i \in Items, Owed(i)', Passed(next, i)'
                 PROVE  i \in Rows' \union got
      BY <2>1 DEF Queuing, Passed
    <3>1. Owed(i) /\ Passed(next, i)
      BY <1>1, <2>3, PassedStays
    <3>2. Live(w)
      BY <2>1, <2>4, LiveStays
    <3>3. Passed(c, i) \/ i \in got
      BY <1>1, <2>1, <2>2, <3>1, PageCovers
    <3>4. Passed(s, i) => i \in Rows
      BY <1>2, <3>1, <3>2 DEF SkipInv, Covers, Live
    <3> QED
      BY <1>1, <2>2, <3>3, <3>4, RowsGrow
  <2>6. Stores(w)'
    BY <2>1 DEF Stores
  <2> QED
    BY <1>2, <1>3, <2>1, <2>3, <2>5, <2>6, PollMoves
<1>6. CASE TokenExpires(w)
  <2>1. PICK c, next \in Cursors :
           /\ c = Opened(poll[w].snap) /\ next = [c EXCEPT !.sync = {}, !.page = {}]
           /\ poll'[w].pc = "read" /\ poll'[w].snap = poll[w].snap
           /\ poll'[w].next = next
    BY <1>1, <1>6, TokenExpiresOK
  <2>2. Shape(c) /\ (\A i \in Items : Passed(c, i) <=> Passed(s, i)) /\ c.sync = s.sync
    BY <1>1, <1>2, <1>3, <2>1, OpenedShape, OpenedOK
  <2>3. s.sync # {} /\ Reading(w)
    BY <1>2, <1>6 DEF TokenExpires, Reading
  <2>4. Shape(next) /\ \A i \in Items : Passed(next, i) => Passed(c, i)
    BY <1>1, <2>1, <2>2, <2>3, TokenCovers
  <2>5. Queuing(w)'
    BY <2>1 DEF Queuing
  <2>6. Stores(w)'
    <3> SUFFICES ASSUME Live(w)' PROVE Covers(next)'
      BY <2>1 DEF Stores, Covers, Passed
    <3>1. Live(w)
      BY <2>1, <2>3, LiveStays
    <3>2. Covers(s)
      BY <1>2, <3>1 DEF SkipInv, Live
    <3>3. Covers(next)
      BY <2>2, <2>4, <3>2 DEF Covers
    <3> QED
      BY <1>1, <2>4, <3>3, CoversStays
  <2> QED
    BY <1>2, <1>3, <2>1, <2>4, <2>5, <2>6, PollMoves
<1>7. CASE PollFails(w)
  <2>1. /\ poll'[w].pc = "read" /\ poll'[w].snap = poll[w].snap
        /\ poll'[w].next = NoCursor
    BY <1>1, <1>7, PollFailsOK
  <2>2. PICK n \in Cursors : n = NoCursor
    BY NoPollOK
  <2>3. Shape(n) /\ Covers(n)
    BY <1>1, <2>2, NoCursorShape
  <2>4. Covers(n)'
    BY <1>1, <2>3, CoversStays
  <2>5. Queuing(w)'
    BY <2>1 DEF Queuing
  <2>6. Stores(w)'
    BY <2>1, <2>2, <2>4 DEF Stores, Covers, Passed
  <2> QED
    BY <1>2, <1>3, <2>1, <2>2, <2>3, <2>5, <2>6, PollMoves
<1> QED
  BY <1>4, <1>5, <1>6, <1>7

\* The items of the page go to the queue one by one.
LEMMA SkipQueues ==
    ASSUME SkipInv, [Next]_vars, \A v \in Workers : ~Saves(v), NEW w \in Workers,
           (\E i \in Items : Enqueue(w, i)) \/ PollEnds(w) \/ ReadsBack(w)
    PROVE  PollOK(w)'
<1>1. TypeInv /\ WorldOK /\ PollOK(w) /\ TypeOK /\ GensOK
  BY DEF SkipInv, GenInv, TypeInv
<1>2. PICK s \in Cursors : s = poll[w].snap
  BY <1>1, SkipTypes
<1>3. PICK n \in Cursors : n = poll[w].next
  BY <1>1, SkipTypes
<1>4. Shape(s) /\ Shape(n)
  BY <1>1, <1>2, <1>3 DEF PollOK
<1>5. CASE \E j \in Items : Enqueue(w, j)
  <2>1. PICK j \in Items : Enqueue(w, j)
    BY <1>5
  <2>2. /\ poll'[w].pc = "enqueue" /\ poll'[w].snap = poll[w].snap
        /\ poll'[w].next = n /\ poll'[w].todo = poll[w].todo \ {j}
        /\ poll[w].pc = "enqueue" /\ Reading(w)
    BY <1>1, <1>3, <2>1, EnqueueOK DEF Enqueue, Reading
  <2>3. Queuing(w)'
    <3> SUFFICES ASSUME Live(w)', NEW i \in Items, Owed(i)', Passed(n, i)'
                 PROVE  i \in Rows' \union (poll[w].todo \ {j})
      BY <2>2 DEF Queuing, Passed
    <3>1. Owed(i) /\ Passed(n, i)
      BY <1>1, <1>4, PassedStays
    <3>2. Live(w)
      BY <2>2, LiveStays
    <3>3. i \in Rows \union poll[w].todo
      BY <1>1, <1>3, <2>2, <3>1, <3>2 DEF PollOK, Queuing
    <3>4. j \in Rows'
      <4>1. CASE j \in Rows
        BY <1>1, <4>1, RowsGrow
      <4>2. CASE j \notin Rows
        <5>1. event' = [event EXCEPT ![j] = [st |-> "pending", today |-> FALSE,
                                             rank |-> Cardinality(Rows) + 1]]
          BY <2>1, <3>2, <4>2 DEF Enqueue, Queues, Live
        <5>2. event'[j].st = "pending"
          BY <1>1, <5>1 DEF TypeOK
        <5> QED
          BY <5>2 DEF Rows
      <4> QED
        BY <4>1, <4>2
    <3> QED
      BY <1>1, <3>3, <3>4, RowsGrow
  <2>4. Stores(w)'
    BY <2>2 DEF Stores
  <2> QED
    BY <1>2, <1>4, <2>2, <2>3, <2>4, PollMoves
<1>6. CASE PollEnds(w)
  <2>1. /\ poll'[w].pc = "read" /\ poll'[w].snap = poll[w].snap
        /\ poll'[w].next = n
        /\ poll[w].pc = "enqueue" /\ poll[w].todo = {} /\ Reading(w)
    BY <1>1, <1>3, <1>6, PollEndsOK DEF PollEnds, Reading
  <2>2. Queuing(w)'
    BY <2>1 DEF Queuing
  <2>3. Stores(w)'
    <3> SUFFICES ASSUME Live(w)' PROVE Covers(n)'
      BY <2>1 DEF Stores, Covers, Passed
    <3>1. Live(w)
      BY <2>1, LiveStays
    <3>2. Covers(n)
      BY <1>1, <1>3, <2>1, <3>1 DEF PollOK, Queuing, Covers
    <3> QED
      BY <1>1, <1>4, <3>2, CoversStays
  <2> QED
    BY <1>2, <1>4, <2>1, <2>2, <2>3, PollMoves
<1>7. CASE ReadsBack(w)
  <2>1. CASE poll'[w].pc = "dispatch" /\ Rests(w)
    BY <1>1, <2>1, PollRests DEF Rests
  <2>2. CASE /\ rule.enabled /\ rule.cursor = poll[w].snap /\ poll'[w].pc = "save"
             /\ poll'[w].snap = poll[w].snap /\ poll'[w].next = poll[w].next
    <3>1. poll[w].pc = "read" /\ Live(w)
      BY <1>7, <2>2 DEF ReadsBack, Live, Reading
    <3>2. Covers(n)
      BY <1>1, <1>3, <3>1 DEF PollOK, Stores
    <3>3. Covers(n)'
      BY <1>1, <1>4, <3>2, CoversStays
    <3>4. Queuing(w)'
      BY <2>2 DEF Queuing
    <3>5. Stores(w)'
      BY <1>3, <2>2, <3>3 DEF Stores, Covers, Passed
    <3> QED
      BY <1>2, <1>3, <1>4, <2>2, <3>4, <3>5, PollMoves
  <2> QED
    BY <1>1, <1>7, <2>1, <2>2, ReadsBackOK
<1> QED
  BY <1>5, <1>6, <1>7

LEMMA SkipDispatch ==
    ASSUME SkipInv, [Next]_vars, NEW w \in Workers,
           Saves(w) \/ DispatchCounts(w) \/ DispatchCommits(w) \/ Restart(w),
           Saves(w) \/ \A v \in Workers : ~Saves(v)
    PROVE  PollOK(w)'
<1>1. TypeInv /\ WorldOK /\ PollOK(w) /\ TypeOK
  BY DEF SkipInv, GenInv, TypeInv
<1>2. CASE Saves(w)
  <2>1. poll'[w].pc = "dispatch" /\ Rests(w)
    BY <1>1, <1>2, SavesOK
  <2> QED
    BY <1>1, <2>1, PollRests DEF Rests
<1>3. CASE poll'[w] = NoPoll
  BY <1>1, <1>3, NoPollOK, PollRests
<1>4. CASE DispatchCounts(w) /\ ~Saves(w)
  <2>1. CASE /\ poll'[w].pc = "commit"
             /\ poll'[w].snap = poll[w].snap /\ poll'[w].next = poll[w].next
    <3>1. PICK s, n \in Cursors : s = poll[w].snap /\ n = poll[w].next
      BY <1>1, SkipTypes
    <3>2. Shape(s) /\ Shape(n)
      BY <1>1, <3>1 DEF PollOK
    <3>3. Queuing(w)' /\ Stores(w)'
      BY <2>1 DEF Queuing, Stores
    <3> QED
      BY <1>4, <2>1, <3>1, <3>2, <3>3, PollMoves
  <2> QED
    BY <1>1, <1>3, <1>4, <2>1, CountsOK
<1> QED
  BY <1>1, <1>2, <1>3, <1>4, TickEndsOK

LEMMA SkipInit == Init => SkipInv
<1> SUFFICES ASSUME Init
             PROVE  /\ WorldOK /\ Shape(rule.cursor) /\ Covers(rule.cursor)
                    /\ \A w \in Workers : PollOK(w)
  BY GenInit DEF SkipInv
<1>1. TypeInv
  BY TypeInit
<1>2. WorldOK
  BY DEF Init, WorldOK
<1>3. \A i \in Items : ~Owed(i)
  BY DEF Init, Owed
<1>4. Shape(rule.cursor)
  <2>1. /\ rule.cursor.since = 1 /\ rule.cursor.until = 0 /\ rule.act = 1 /\ now = 1
        /\ rule.cursor.page = {} /\ rule.cursor.sync = {}
    BY DEF Init, FreshCursor
  <2> QED
    BY <2>1 DEF Shape
<1>5. \A w \in Workers : poll[w] = NoPoll
  BY DEF Init
<1>6. \A w \in Workers : PollOK(w)
  BY <1>1, <1>5, NoPollOK, NoCursorShape DEF PollOK, Queuing, Stores, Live, Reading
<1> QED
  BY <1>2, <1>3, <1>4, <1>6 DEF Covers

LEMMA SkipNext == OneWorker /\ SkipInv /\ [Next]_vars => SkipInv'
<1> SUFFICES ASSUME OneWorker, SkipInv, [Next]_vars PROVE SkipInv'
  OBVIOUS
<1>1. TypeInv /\ WorldOK /\ GenInv /\ TypeOK
  BY DEF SkipInv, GenInv, TypeInv
<1>2. GenInv' /\ WorldOK' /\ Shape(rule.cursor)' /\ Covers(rule.cursor)'
  BY <1>1, GenNext, WorldStays, CursorStays
<1>3. ASSUME NEW w \in Workers PROVE PollOK(w)'
  <2>1. \A v \in Workers : v = w
    BY DEF OneWorker
  <2>2. CASE \/ (\E i \in Items : Arrive(i)) \/ Second \/ Midnight \/ UNCHANGED vars
             \/ (\E r \in Requests : ToggleReads(r) \/ ToggleWrites(r))
    <3>1. poll' = poll
      BY <2>2 DEF Arrive, Second, Midnight, ToggleReads, ToggleWrites, vars, store
    <3>2. \A v \in Workers : ~Saves(v)
      <4> SUFFICES ASSUME NEW v \in Workers, Saves(v) PROVE FALSE
        OBVIOUS
      <4>1. poll[v].pc = "save" /\ poll'[v].pc = "dispatch"
        BY <1>1, SavesOK DEF Saves
      <4> QED
        BY <3>1, <4>1
    <3> QED
      BY <3>1, <3>2, PollStays
  <2>3. CASE Saves(w)
    BY <2>3, SkipDispatch
  <2>4. CASE (Works(w) \/ TokenExpires(w) \/ PollFails(w) \/ Restart(w)) /\ ~Saves(w)
    <3>1. \A v \in Workers : ~Saves(v)
      BY <2>1, <2>4
    <3> QED
      BY <2>4, <3>1, SkipReads, SkipQueues, SkipDispatch DEF Works
  <2> QED
    BY <2>1, <2>2, <2>3, <2>4 DEF Next
<1> QED
  BY <1>2, <1>3 DEF SkipInv

\* While one process runs the ticks, what came while the rule was on is in the queue
\* before the cursor is past it, whatever pages, expired tokens, failed readings,
\* restarts and uses of the switch there were.
THEOREM CursorNeverPasses == ASSUME OneWorker PROVE Spec => []NothingIsSkipped
<1>1. SkipInv /\ [Next]_vars => SkipInv'
  BY SkipNext
<1>2. SkipInv => NothingIsSkipped
  BY DEF SkipInv, Covers, NothingIsSkipped
<1> QED
  BY <1>1, <1>2, SkipInit, PTL DEF Spec

=============================================================================
