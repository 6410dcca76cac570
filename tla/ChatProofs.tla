------------------------------- MODULE ChatProofs -------------------------------
(***************************************************************************)
(* Theorems about ChatTurn for any number of pages, sockets and messages,  *)
(* any cap on the runs, and any number of stops, validations and faults.   *)
(***************************************************************************)
EXTENDS ChatTurn, FiniteSets, SequenceTheorems, FiniteSetTheorems, TLAPS

-----------------------------------------------------------------------------
(* The records.                                                            *)

LEMMA IdleOK ==
    /\ Idle \in Handler
    /\ Idle.pc = "idle" /\ Idle.of = 0 /\ Idle.stop = FALSE /\ Idle.watch = FALSE
    /\ [Idle EXCEPT !.pc = "closed"] \in Handler
    /\ [Idle EXCEPT !.pc = "none"] \in Handler
BY DEF Idle, Handler, Steps

LEMMA BackOK ==
    ASSUME NEW r \in Handler, NEW ok \in BOOLEAN
    PROVE  /\ Back(r, ok) \in Handler
           /\ Back(r, ok).pc = "idle" /\ Back(r, ok).of = 0
           /\ Back(r, ok).stop = FALSE /\ Back(r, ok).watch = r.watch
BY DEF Back, Idle, Handler, Steps

LEMMA SetOK ==
    ASSUME NEW c \in Conns, NEW r \in Handler, h \in [Conns -> Handler],
           h' = [h EXCEPT ![c] = r]
    PROVE  h' \in [Conns -> Handler] /\ h'[c] = r /\ \A d \in Conns \ {c} : h'[d] = h[d]
OBVIOUS

LEMMA TakenOK ==
    ASSUME NEW c \in Conns, NEW ok \in Taken(c)
    PROVE  ok \in BOOLEAN
BY DEF Taken

LEMMA PostsOK ==
    ASSUME NEW c \in Conns, NEW ok \in BOOLEAN, NEW frames \in Seq(Frame),
           outbox \in [Conns -> Seq(Frame)], Posts(c, ok, frames)
    PROVE  outbox' \in [Conns -> Seq(Frame)]
BY DEF Posts

LEMMA FansOK ==
    ASSUME NEW kind \in Kinds, outbox \in [Conns -> Seq(Frame)], Fans(kind)
    PROVE  outbox' \in [Conns -> Seq(Frame)]
<1>1. F(kind, 0) \in Frame
  BY DEF F, Frame
<1>2. \A c \in Conns : Append(outbox[c], F(kind, 0)) \in Seq(Frame)
  BY <1>1, AppendProperties
<1> QED
  BY <1>2 DEF Fans

LEMMA FramesOK ==
    ASSUME NEW kind \in Kinds, NEW m \in Msgs \union {0}, NEW other \in Kinds
    PROVE  <<F(kind, m)>> \in Seq(Frame) /\ <<F(kind, m), F(other, 0)>> \in Seq(Frame)
           /\ <<F(other, 0), F(kind, m)>> \in Seq(Frame)
BY DEF F, Frame

LEMMA NowOK ==
    ASSUME msg \in [Msgs -> Message], NEW m \in Msgs,
           NEW where \in {"new", "wire", "kept"} \union Ends
    PROVE  Now(m, where) \in [Msgs -> Message]
<1>1. [msg[m] EXCEPT !.at = where] \in Message
  BY DEF Message
<1> QED
  BY <1>1 DEF Now

LEMMA NowElse ==
    ASSUME msg \in [Msgs -> Message], NEW m \in Msgs, NEW where
    PROVE  /\ Now(m, where)[m] = [msg[m] EXCEPT !.at = where]
           /\ \A n \in Msgs \ {m} : Now(m, where)[n] = msg[n]
BY DEF Now

LEMMA LostOK ==
    ASSUME msg \in [Msgs -> Message], NEW S
    PROVE  Lost(S) \in [Msgs -> Message]
BY DEF Lost, Message, Ends

-----------------------------------------------------------------------------
(* Types.                                                                  *)

\* The handlers that hold a slot, and the slots that are left.
Running == {c \in Conns : h[c].pc = "run"}
SlotsOK == IsFiniteSet(Running) /\ Cardinality(Running) + slots = MaxRuns

LEMMA SeveredType ==
    ASSUME TypeOK, NEW c \in Conns, Severed(c)
    PROVE  /\ wire' \in [Conns -> {"none", "up", "cut"}] /\ outbox' \in [Conns -> Seq(Frame)]
           /\ inbox' \in [Conns -> Seq(0..MaxAsks)] /\ msg' \in [Msgs -> Message]
<1>1. wire' \in [Conns -> {"none", "up", "cut"}] /\ outbox' \in [Conns -> Seq(Frame)]
  BY DEF TypeOK, Severed
<1>2. CASE UNCHANGED <<inbox, msg>>
  BY <1>1, <1>2 DEF TypeOK
<1>3. CASE inbox' = [inbox EXCEPT ![c] = <<>>] /\ msg' = Lost(Unread(c))
  BY <1>1, <1>3, LostOK DEF TypeOK
<1> QED
  BY <1>2, <1>3 DEF Severed

LEMMA PagesType ==
    ASSUME TypeOK, NEW p \in Pages,
           Connects(p) \/ Types(p) \/ ClicksStop(p) \/ Shows(p) \/ WatchdogFires(p) \/ Reloads(p)
    PROVE  TypeOK'
<1> USE ChatAssumption DEF TypeOK, pages, wires, gate, bounds
<1>1. CASE Connects(p)
  <2>1. PICK c \in Conns : /\ sock' = [sock EXCEPT ![p] = c]
                           /\ wire' = [wire EXCEPT ![c] = "up"]
                           /\ h' = [h EXCEPT ![c] = Idle]
    BY <1>1 DEF Connects
  <2>2. h' \in [Conns -> Handler]
    BY <2>1, IdleOK
  <2> QED
    BY <1>1, <2>1, <2>2 DEF Connects
<1>2. CASE Types(p)
  <2> DEFINE c == sock[p]
             m == asked + 1
             r == [at |-> IF wire[c] = "up" THEN "wire" ELSE "lost", on |-> c,
                   clean |-> awaiting[p] = {}, stop |-> FALSE, broken |-> FALSE]
  <2>1. c \in Conns /\ m \in Msgs /\ m \in 0..MaxAsks /\ asked' \in 0..MaxAsks
    BY <1>2 DEF Types, Msgs
  <2>2. r \in Message
    BY <2>1 DEF Message, Ends
  <2>3. msg' = [msg EXCEPT ![m] = r] /\ awaiting' = [awaiting EXCEPT ![p] = @ \union {m}]
    BY <1>2 DEF Types
  <2>4. inbox' \in [Conns -> Seq(0..MaxAsks)]
    BY <1>2, <2>1, AppendProperties DEF Types
  <2>5. UNCHANGED <<sock, loading, wire, outbox, h, gate, bounds>>
    BY <1>2 DEF Types
  <2> HIDE DEF r, m, c
  <2>6. msg' \in [Msgs -> Message] /\ awaiting' \in [Pages -> SUBSET Msgs]
    BY <2>1, <2>2, <2>3
  <2> QED
    BY <2>1, <2>4, <2>5, <2>6
<1>3. CASE ClicksStop(p)
  <2>1. msg' \in [Msgs -> Message]
    BY <1>3 DEF ClicksStop, Message
  <2>2. inbox' \in [Conns -> Seq(0..MaxAsks)]
    BY <1>3, AppendProperties DEF ClicksStop, Stop
  <2>3. stops' \in 0..MaxStops
    BY <1>3 DEF ClicksStop
  <2>4. UNCHANGED <<pages, wire, outbox, h, gate, asked, approvals, faults>>
    BY <1>3 DEF ClicksStop
  <2> QED
    BY <2>1, <2>2, <2>3, <2>4
<1>4. CASE Receives(p)
  <2>1. sock[p] \in Conns /\ outbox[sock[p]] # <<>>
    BY <1>4 DEF Receives
  <2>2. outbox' \in [Conns -> Seq(Frame)]
    BY <1>4, <2>1, HeadTailProperties DEF Receives
  <2>3. loading' \in [Pages -> BOOLEAN]
    BY <1>4 DEF Receives
  <2>4. awaiting' \in [Pages -> SUBSET Msgs]
    BY <1>4 DEF Receives
  <2> QED
    BY <1>4, <2>2, <2>3, <2>4 DEF Receives
<1>5. CASE SeesClose(p)
  BY <1>5 DEF SeesClose
<1>6. CASE WatchdogFires(p)
  BY <1>6 DEF WatchdogFires
<1>7. CASE Reloads(p)
  <2>1. /\ wire' \in [Conns -> {"none", "up", "cut"}] /\ outbox' \in [Conns -> Seq(Frame)]
        /\ inbox' \in [Conns -> Seq(0..MaxAsks)] /\ msg' \in [Msgs -> Message]
    BY <1>7, SeveredType DEF Reloads
  <2>3. sock' \in [Pages -> Conns \union {None}] /\ loading' \in [Pages -> BOOLEAN]
    BY <1>7 DEF Reloads
  <2>4. faults' \in 0..MaxFaults
    BY <1>7 DEF Reloads
  <2> QED
    BY <1>7, <2>1, <2>3, <2>4 DEF Reloads
<1> QED
  BY <1>1, <1>2, <1>3, <1>4, <1>5, <1>6, <1>7 DEF Shows

\* What the step of a handler does to its record and to what it had to read, and what
\* it writes.
LEMMA DropsHead ==
    ASSUME NEW c \in Conns, inbox \in [Conns -> Seq(0..MaxAsks)], inbox[c] # <<>>,
           inbox' = [inbox EXCEPT ![c] = Tail(@)]
    PROVE  /\ inbox' \in [Conns -> Seq(0..MaxAsks)]
           /\ Head(inbox[c]) \in 0..MaxAsks /\ Head(inbox[c]) = inbox[c][1]
           /\ Len(inbox[c]) \in Nat \ {0} /\ Len(inbox'[c]) = Len(inbox[c]) - 1
           /\ \A i \in 1..Len(inbox'[c]) : i + 1 \in 1..Len(inbox[c])
                                           /\ inbox'[c][i] = inbox[c][i + 1]
           /\ \A d \in Conns \ {c} : inbox'[d] = inbox[d]
<1>1. /\ Head(inbox[c]) \in 0..MaxAsks /\ Tail(inbox[c]) \in Seq(0..MaxAsks)
      /\ Len(Tail(inbox[c])) = Len(inbox[c]) - 1
      /\ \A i \in 1..Len(Tail(inbox[c])) : Tail(inbox[c])[i] = inbox[c][i + 1]
  BY HeadTailProperties
<1>2. Len(inbox[c]) \in Nat \ {0} /\ Head(inbox[c]) = inbox[c][1]
  BY EmptySeq, LenProperties
<1>3. inbox'[c] = Tail(inbox[c])
  OBVIOUS
<1> QED
  BY <1>1, <1>2, <1>3

LEMMA AcksStopType ==
    ASSUME TypeOK, NEW c \in Conns, AcksStop(c)
    PROVE  /\ inbox' \in [Conns -> Seq(0..MaxAsks)] /\ outbox' \in [Conns -> Seq(Frame)]
           /\ h' \in [Conns -> Handler] /\ h'[c].pc = "idle" /\ h'[c].of = h[c].of
           /\ h'[c].stop = h[c].stop /\ h'[c].watch = h[c].watch
           /\ \A d \in Conns \ {c} : h'[d] = h[d]
<1>1. PICK ok \in Taken(c) : Posts(c, ok, <<F("done", 0)>>) /\ h' = [h EXCEPT ![c].gone = ~ok]
  BY DEF AcksStop
<1>2. ok \in BOOLEAN /\ h[c] \in Handler
  BY <1>1, TakenOK DEF TypeOK
<1>3. outbox' \in [Conns -> Seq(Frame)]
  BY <1>1, <1>2, FramesOK, PostsOK DEF TypeOK, Kinds
<1>4. [h[c] EXCEPT !.gone = ~ok] \in Handler
  BY <1>2 DEF Handler
<1>5. h' \in [Conns -> Handler] /\ h'[c] = [h[c] EXCEPT !.gone = ~ok]
      /\ \A d \in Conns \ {c} : h'[d] = h[d]
  BY <1>1, <1>4 DEF TypeOK
<1>6. h[c].pc = "idle" /\ inbox' \in [Conns -> Seq(0..MaxAsks)]
  BY DropsHead DEF AcksStop, Reads, At, TypeOK
<1> QED
  BY <1>2, <1>3, <1>5, <1>6 DEF Handler

LEMMA TakesHead ==
    ASSUME TypeOK, NEW c \in Conns, Reads(c), Head(inbox[c]) # Stop,
           inbox' = [inbox EXCEPT ![c] = Tail(@)]
    PROVE  /\ h[c].pc = "idle" /\ inbox' \in [Conns -> Seq(0..MaxAsks)]
           /\ Head(inbox[c]) \in Msgs
<1>1. h[c].pc = "idle" /\ inbox[c] # <<>>
  BY DEF Reads, At
<1>2. inbox' \in [Conns -> Seq(0..MaxAsks)] /\ Head(inbox[c]) \in 0..MaxAsks
  BY <1>1, DropsHead DEF TypeOK
<1> QED
  BY <1>1, <1>2, ChatAssumption DEF Msgs, Stop

LEMMA TakesType ==
    ASSUME TypeOK, NEW c \in Conns, Takes(c)
    PROVE  /\ Head(inbox[c]) \in Msgs /\ h[c].pc = "idle"
           /\ inbox' \in [Conns -> Seq(0..MaxAsks)] /\ outbox' \in [Conns -> Seq(Frame)]
           /\ msg' \in [Msgs -> Message] /\ queue' \in Seq(Conns)
           /\ h' \in [Conns -> Handler] /\ h'[c].pc = "queue" /\ h'[c].of = Head(inbox[c])
           /\ h'[c].stop = h[c].stop /\ h'[c].watch = h[c].watch
           /\ \A d \in Conns \ {c} : h'[d] = h[d]
<1>1. PICK ok \in Taken(c) : /\ Posts(c, ok, <<F("start", 0)>>)
                             /\ h' = [h EXCEPT ![c] = [@ EXCEPT !.pc = "queue",
                                          !.of = Head(inbox[c]), !.gone = ~ok]]
  BY DEF Takes
<1>2. ok \in BOOLEAN /\ h[c] \in Handler
  BY <1>1, TakenOK DEF TypeOK
<1>3. outbox' \in [Conns -> Seq(Frame)]
  BY <1>1, <1>2, FramesOK, PostsOK DEF TypeOK, Kinds
<1>4. h[c].pc = "idle" /\ inbox' \in [Conns -> Seq(0..MaxAsks)] /\ Head(inbox[c]) \in Msgs
  BY TakesHead DEF Takes
<1>5. [h[c] EXCEPT !.pc = "queue", !.of = Head(inbox[c]), !.gone = ~ok] \in Handler
  BY <1>2, <1>4 DEF Handler, Steps
<1>6. /\ h' \in [Conns -> Handler]
      /\ h'[c] = [h[c] EXCEPT !.pc = "queue", !.of = Head(inbox[c]), !.gone = ~ok]
      /\ \A d \in Conns \ {c} : h'[d] = h[d]
  BY <1>1, <1>5 DEF TypeOK
<1>7. msg' \in [Msgs -> Message] /\ queue' \in Seq(Conns)
  BY <1>4, NowOK, AppendProperties DEF Takes, TypeOK
<1> QED
  BY <1>2, <1>3, <1>4, <1>6, <1>7 DEF Handler

LEMMA RefusesType ==
    ASSUME TypeOK, NEW c \in Conns, Refuses(c)
    PROVE  /\ Head(inbox[c]) \in Msgs /\ h[c].pc = "idle"
           /\ inbox' \in [Conns -> Seq(0..MaxAsks)] /\ outbox' \in [Conns -> Seq(Frame)]
           /\ msg' \in [Msgs -> Message] /\ faults' \in 0..MaxFaults
           /\ h' \in [Conns -> Handler] /\ h'[c].pc = "idle" /\ h'[c].of = 0
           /\ h'[c].stop = FALSE /\ h'[c].watch = h[c].watch
           /\ \A d \in Conns \ {c} : h'[d] = h[d]
<1>1. PICK ok \in Taken(c) :
           /\ Posts(c, ok, <<F("start", 0), F("error", Head(inbox[c]))>>)
           /\ h' = [h EXCEPT ![c] = Back(@, ok)]
  BY DEF Refuses
<1>2. ok \in BOOLEAN /\ h[c] \in Handler
  BY <1>1, TakenOK DEF TypeOK
<1>3. h[c].pc = "idle" /\ inbox' \in [Conns -> Seq(0..MaxAsks)] /\ Head(inbox[c]) \in Msgs
  BY TakesHead DEF Refuses
<1>4. outbox' \in [Conns -> Seq(Frame)]
  <2>1. <<F("start", 0), F("error", Head(inbox[c]))>> \in Seq(Frame)
    BY <1>3, FramesOK DEF Kinds
  <2> QED
    BY <1>1, <1>2, <2>1, PostsOK DEF TypeOK
<1>5. /\ Back(h[c], ok) \in Handler
      /\ Back(h[c], ok).pc = "idle" /\ Back(h[c], ok).of = 0
      /\ Back(h[c], ok).stop = FALSE /\ Back(h[c], ok).watch = h[c].watch
  BY <1>2, BackOK
<1>6. /\ h' \in [Conns -> Handler] /\ h'[c] = Back(h[c], ok)
      /\ \A d \in Conns \ {c} : h'[d] = h[d]
  BY <1>1, <1>5 DEF TypeOK
<1>7. msg' \in [Msgs -> Message]
  BY <1>3, NowOK DEF Refuses, TypeOK, Ends
<1>8. faults' \in 0..MaxFaults
  BY ChatAssumption DEF Refuses, TypeOK
<1> QED
  BY <1>3, <1>4, <1>5, <1>6, <1>7, <1>8

\* A turn that is over: the handler is back to reading.
LEMMA EndsType ==
    ASSUME TypeOK, NEW c \in Conns, EndsEmpty(c) \/ Delivers(c)
    PROVE  /\ h[c].pc = "over" /\ outbox' \in [Conns -> Seq(Frame)]
           /\ msg' \in [Msgs -> Message]
           /\ h' \in [Conns -> Handler] /\ h'[c].pc = "idle" /\ h'[c].of = 0
           /\ h'[c].stop = FALSE /\ h'[c].watch = h[c].watch
           /\ \A d \in Conns \ {c} : h'[d] = h[d]
<1>1. PICK ok \in Taken(c), kind \in {"stopped", "answer"},
           where \in {"empty", "delivered", "pushed"} :
           /\ Posts(c, ok, <<F(kind, h[c].of), F("done", 0)>>)
           /\ h' = [h EXCEPT ![c] = Back(@, ok)]
           /\ msg' = Now(h[c].of, where)
  BY DEF EndsEmpty, Delivers, Told
<1>2. ok \in BOOLEAN /\ h[c] \in Handler /\ h[c].pc = "over" /\ h[c].of \in Msgs \union {0}
  <2>1. h[c] \in Handler
    BY DEF TypeOK
  <2>2. h[c].of \in Msgs \union {0}
    BY <2>1 DEF Handler
  <2>3. h[c].pc = "over"
    BY DEF EndsEmpty, Delivers, At
  <2> QED
    BY <1>1, <2>1, <2>2, <2>3, TakenOK
<1>3. outbox' \in [Conns -> Seq(Frame)]
  <2>1. <<F(kind, h[c].of), F("done", 0)>> \in Seq(Frame)
    BY <1>2, FramesOK DEF Kinds
  <2> QED
    BY <1>1, <1>2, <2>1, PostsOK DEF TypeOK
<1>4. /\ Back(h[c], ok) \in Handler
      /\ Back(h[c], ok).pc = "idle" /\ Back(h[c], ok).of = 0
      /\ Back(h[c], ok).stop = FALSE /\ Back(h[c], ok).watch = h[c].watch
  BY <1>2, BackOK
<1>5. /\ h' \in [Conns -> Handler] /\ h'[c] = Back(h[c], ok)
      /\ \A d \in Conns \ {c} : h'[d] = h[d]
  BY <1>1, <1>4 DEF TypeOK
<1>6. msg' \in [Msgs -> Message]
  <2>1. CASE h[c].of \in Msgs
    BY <1>1, <2>1, NowOK DEF TypeOK, Ends
  <2>2. CASE h[c].of \notin Msgs
    BY <1>1, <2>2 DEF TypeOK, Now
  <2> QED
    BY <2>1, <2>2
<1> QED
  BY <1>2, <1>3, <1>4, <1>5, <1>6

\* A step of a run that leaves the turn where it is.
LEMMA GoesOnType ==
    ASSUME TypeOK, NEW c \in Conns,
           SeesGone(c) \/ Streams(c) \/ AsksHuman(c) \/ HumanAnswers(c)
    PROVE  /\ outbox' \in [Conns -> Seq(Frame)]
           /\ h' \in [Conns -> Handler] /\ h'[c].pc = h[c].pc /\ h'[c].of = h[c].of
           /\ h'[c].stop = h[c].stop /\ (h'[c].watch => h[c].watch)
           /\ \A d \in Conns \ {c} : h'[d] = h[d]
<1>1. h[c] \in Handler
  BY DEF TypeOK
<1>2. CASE SeesGone(c)
  <2>1. Deaf(h[c]) \in Handler /\ h' = [h EXCEPT ![c] = Deaf(@)]
    BY <1>1, <1>2 DEF Deaf, Handler, SeesGone
  <2>2. UNCHANGED outbox
    BY <1>2 DEF SeesGone, wires
  <2> QED
    BY <1>1, <2>1, <2>2 DEF TypeOK, Deaf, Handler
<1>3. CASE Streams(c)
  <2>1. PICK ok \in Taken(c) : h' = [h EXCEPT ![c].text = TRUE, ![c].gone = ~ok]
    BY <1>3 DEF Streams
  <2>2. [h[c] EXCEPT !.text = TRUE, !.gone = ~ok] \in Handler
    BY <1>1, <2>1, TakenOK DEF Handler
  <2>3. h'[c] = [h[c] EXCEPT !.text = TRUE, !.gone = ~ok] /\ h' \in [Conns -> Handler]
        /\ \A d \in Conns \ {c} : h'[d] = h[d]
    BY <2>1, <2>2 DEF TypeOK
  <2>4. UNCHANGED outbox
    BY <1>3 DEF Streams, wires
  <2> QED
    BY <1>1, <2>3, <2>4 DEF TypeOK, Handler
<1>4. CASE AsksHuman(c) \/ HumanAnswers(c)
  <2>1. PICK b \in BOOLEAN : h' = [h EXCEPT ![c].asks = b]
    BY <1>4 DEF AsksHuman, HumanAnswers
  <2>2. [h[c] EXCEPT !.asks = b] \in Handler
    BY <1>1 DEF Handler
  <2>3. h'[c] = [h[c] EXCEPT !.asks = b] /\ h' \in [Conns -> Handler]
        /\ \A d \in Conns \ {c} : h'[d] = h[d]
    BY <2>1, <2>2 DEF TypeOK
  <2>4. outbox' \in [Conns -> Seq(Frame)]
    BY <1>4, FansOK DEF AsksHuman, HumanAnswers, TypeOK, Kinds
  <2> QED
    BY <1>1, <2>3, <2>4 DEF Handler
<1> QED
  BY <1>2, <1>3, <1>4

\* The agent has left its loop.
LEMMA LeavesType ==
    ASSUME TypeOK, NEW c \in Conns, RunEnds(c) \/ Breaks(c)
    PROVE  /\ h[c].pc = "run" /\ msg' \in [Msgs -> Message]
           /\ h' \in [Conns -> Handler] /\ h'[c].pc = "over" /\ h'[c].of = h[c].of
           /\ h'[c].stop = TRUE /\ h'[c].watch = FALSE
           /\ \A d \in Conns \ {c} : h'[d] = h[d]
<1>1. PICK t \in BOOLEAN :
           h' = [h EXCEPT ![c] = [Unwatched(@) EXCEPT !.pc = "over", !.text = t]]
  <2>1. CASE RunEnds(c)
    BY <2>1 DEF RunEnds, TypeOK, Handler
  <2>2. CASE Breaks(c)
    <3>1. h[c] \in Handler /\ h' = [h EXCEPT ![c] = [Unwatched(@) EXCEPT !.pc = "over"]]
      BY <2>2 DEF Breaks, TypeOK
    <3>2. [Unwatched(h[c]) EXCEPT !.pc = "over"]
            = [Unwatched(h[c]) EXCEPT !.pc = "over", !.text = h[c].text]
      BY <3>1 DEF Unwatched, Handler
    <3> QED
      BY <3>1, <3>2 DEF Handler
  <2> QED
    BY <2>1, <2>2
<1>2. h[c] \in Handler /\ h[c].pc = "run"
  BY DEF TypeOK, RunEnds, Breaks, At
<1>3. [Unwatched(h[c]) EXCEPT !.pc = "over", !.text = t] \in Handler
  BY <1>2 DEF Handler, Steps, Unwatched
<1>4. /\ h' \in [Conns -> Handler] /\ \A d \in Conns \ {c} : h'[d] = h[d]
      /\ h'[c] = [Unwatched(h[c]) EXCEPT !.pc = "over", !.text = t]
  BY <1>1, <1>3 DEF TypeOK
<1>5. msg' \in [Msgs -> Message]
  <2>1. CASE RunEnds(c)
    BY <2>1 DEF RunEnds, TypeOK
  <2>2. CASE Breaks(c)
    <3>1. msg' = [msg EXCEPT ![h[c].of].broken = TRUE]
      BY <2>2 DEF Breaks
    <3> QED
      BY <3>1 DEF TypeOK, Message
  <2> QED
    BY <2>1, <2>2
<1> QED
  BY <1>2, <1>4, <1>5 DEF Handler, Unwatched

LEMMA AcquiresType ==
    ASSUME TypeOK, NEW c \in Conns, Acquires(c)
    PROVE  /\ h[c].pc = "queue" /\ slots > 0 /\ slots' = slots - 1
           /\ slots' \in 0..MaxRuns /\ queue' \in Seq(Conns)
           /\ h' \in [Conns -> Handler] /\ h'[c].pc = "run" /\ h'[c].of = h[c].of
           /\ h'[c].stop = h[c].stop
           /\ \A d \in Conns \ {c} : h'[d] = h[d]
<1>1. h[c] \in Handler /\ h[c].pc = "queue"
  BY DEF TypeOK, Acquires, At
<1>2. [h[c] EXCEPT !.pc = "run", !.watch = TRUE] \in Handler
  BY <1>1 DEF Handler, Steps
<1>3. /\ h' \in [Conns -> Handler] /\ \A d \in Conns \ {c} : h'[d] = h[d]
      /\ h'[c] = [h[c] EXCEPT !.pc = "run", !.watch = TRUE]
  BY <1>2 DEF Acquires, TypeOK
<1>4. slots > 0 /\ slots' = slots - 1 /\ slots' \in 0..MaxRuns
  BY ChatAssumption DEF Acquires, TypeOK
<1>5. queue' \in Seq(Conns)
  <2>1. CASE queue = <<>>
    BY <2>1 DEF Acquires, TypeOK
  <2>2. CASE queue # <<>>
    BY <2>2, HeadTailProperties DEF Acquires, TypeOK
  <2> QED
    BY <2>1, <2>2
<1> QED
  BY <1>1, <1>3, <1>4, <1>5 DEF Handler

LEMMA HearsType ==
    ASSUME TypeOK, NEW c \in Conns, Hears(c)
    PROVE  /\ h[c].watch
           /\ inbox[c] # <<>> /\ inbox' = [inbox EXCEPT ![c] = Tail(@)]
           /\ inbox' \in [Conns -> Seq(0..MaxAsks)] /\ msg' \in [Msgs -> Message]
           /\ awaiting' \in [Pages -> SUBSET Msgs]
           /\ h' \in [Conns -> Handler] /\ h'[c].pc = h[c].pc /\ h'[c].of = h[c].of
           /\ (h'[c].watch => h[c].watch)
           /\ \A d \in Conns \ {c} : h'[d] = h[d]
<1>1. /\ h[c] \in Handler /\ h[c].watch /\ inbox[c] # <<>>
      /\ inbox' = [inbox EXCEPT ![c] = Tail(@)]
  BY DEF TypeOK, Hears
<1>2. inbox' \in [Conns -> Seq(0..MaxAsks)] /\ Head(inbox[c]) \in 0..MaxAsks
  BY <1>1, DropsHead DEF TypeOK
<1>3. CASE Head(inbox[c]) = Stop
  <2>1. h' = [h EXCEPT ![c].stop = TRUE, ![c].watch = FALSE] /\ UNCHANGED <<awaiting, msg>>
    BY <1>3 DEF Hears
  <2>2. [h[c] EXCEPT !.stop = TRUE, !.watch = FALSE] \in Handler
    BY <1>1 DEF Handler
  <2>3. /\ h' \in [Conns -> Handler] /\ \A d \in Conns \ {c} : h'[d] = h[d]
        /\ h'[c] = [h[c] EXCEPT !.stop = TRUE, !.watch = FALSE]
    BY <2>1, <2>2 DEF TypeOK
  <2> QED
    BY <1>1, <1>2, <2>1, <2>3 DEF TypeOK, Handler
<1>4. CASE Head(inbox[c]) # Stop
  <2>1. /\ msg' = Now(Head(inbox[c]), "swallowed") /\ UNCHANGED h
        /\ awaiting' = [p \in Pages |-> awaiting[p] \ {Head(inbox[c])}]
    BY <1>4 DEF Hears
  <2>2. Head(inbox[c]) \in Msgs
    BY <1>2, <1>4, ChatAssumption DEF Msgs, Stop
  <2>3. msg' \in [Msgs -> Message]
    BY <2>1, <2>2, NowOK DEF TypeOK, Ends
  <2>4. awaiting' \in [Pages -> SUBSET Msgs]
    BY <2>1 DEF TypeOK
  <2> QED
    BY <1>1, <1>2, <2>1, <2>3, <2>4 DEF TypeOK
<1> QED
  BY <1>3, <1>4

LEMMA ClosesType ==
    ASSUME TypeOK, NEW c \in Conns, Closes(c)
    PROVE  /\ inbox' \in [Conns -> Seq(0..MaxAsks)] /\ inbox'[c] = <<>>
           /\ \A d \in Conns \ {c} : inbox'[d] = inbox[d]
           /\ wire' \in [Conns -> {"none", "up", "cut"}] /\ wire'[c] = "cut"
           /\ \A d \in Conns \ {c} : wire'[d] = wire[d]
           /\ h' \in [Conns -> Handler] /\ h'[c].pc = "closed"
           /\ h'[c].stop = FALSE /\ h'[c].watch = FALSE
           /\ \A d \in Conns \ {c} : h'[d] = h[d]
<1>1. [Idle EXCEPT !.pc = "closed"] \in Handler
      /\ [Idle EXCEPT !.pc = "closed"].pc = "closed"
      /\ [Idle EXCEPT !.pc = "closed"].stop = FALSE
      /\ [Idle EXCEPT !.pc = "closed"].watch = FALSE
  BY DEF Idle, Handler, Steps
<1>2. /\ h' \in [Conns -> Handler] /\ h'[c] = [Idle EXCEPT !.pc = "closed"]
      /\ \A d \in Conns \ {c} : h'[d] = h[d]
  BY <1>1 DEF Closes, TypeOK
<1>3. /\ inbox' \in [Conns -> Seq(0..MaxAsks)] /\ inbox'[c] = <<>>
      /\ \A d \in Conns \ {c} : inbox'[d] = inbox[d]
      /\ wire' \in [Conns -> {"none", "up", "cut"}] /\ wire'[c] = "cut"
      /\ \A d \in Conns \ {c} : wire'[d] = wire[d]
  BY DEF Closes, TypeOK
<1> QED
  BY <1>1, <1>2, <1>3

\* The handler ends by an exception: what it served, or was about to, is its end.
LEMMA RaisesType ==
    ASSUME TypeOK, NEW c \in Conns, Raises(c)
    PROVE  /\ outbox' \in [Conns -> Seq(Frame)] /\ msg' \in [Msgs -> Message]
           /\ faults' \in 0..MaxFaults
<1>1. PICK m \in Msgs, where \in {"lost", "failed", "untold"} :
           /\ msg' = [Lost(Unread(c)) EXCEPT ![m].at = where]
           /\ \/ Posts(c, ~h[c].gone, <<F("error", m)>>)
              \/ Posts(c, ~h[c].gone, <<F("start", 0), F("error", m)>>)
  BY DEF Raises
<1>2. /\ (~h[c].gone) \in BOOLEAN /\ <<F("error", m)>> \in Seq(Frame)
      /\ <<F("start", 0), F("error", m)>> \in Seq(Frame)
  BY FramesOK DEF Kinds
<1>3. outbox' \in [Conns -> Seq(Frame)]
  BY <1>1, <1>2, PostsOK DEF TypeOK
<1>4. Lost(Unread(c)) \in [Msgs -> Message]
  BY LostOK DEF TypeOK
<1>5. [Lost(Unread(c))[m] EXCEPT !.at = where] \in Message
  BY <1>4 DEF Message, Ends
<1>6. msg' \in [Msgs -> Message]
  BY <1>1, <1>4, <1>5
<1>7. faults' \in 0..MaxFaults
  BY ChatAssumption DEF Raises, TypeOK
<1> QED
  BY <1>3, <1>6, <1>7

LEMMA RunFailsType ==
    ASSUME TypeOK, NEW c \in Conns, RunFails(c)
    PROVE  /\ h[c].pc = "run" /\ slots' = slots + 1
           /\ outbox' \in [Conns -> Seq(Frame)] /\ msg' \in [Msgs -> Message]
           /\ faults' \in 0..MaxFaults
<1>1. h[c].of \in Msgs \union {0} /\ h[c].pc = "run" /\ slots' = slots + 1
  BY DEF TypeOK, Handler, RunFails, At, Released
<1>2. PICK ok \in BOOLEAN : Posts(c, ok /\ ~h[c].gone, <<F("error", h[c].of)>>)
  BY DEF RunFails
<1>3. (ok /\ ~h[c].gone) \in BOOLEAN /\ <<F("error", h[c].of)>> \in Seq(Frame)
  BY <1>1, FramesOK DEF Kinds
<1>4. outbox' \in [Conns -> Seq(Frame)]
  BY <1>2, <1>3, PostsOK DEF TypeOK
<1>5. Lost(Unread(c)) \in [Msgs -> Message]
  BY LostOK DEF TypeOK
<1>6. msg' \in [Msgs -> Message]
  <2>1. msg' = [Lost(Unread(c)) EXCEPT ![h[c].of].at = "failed"]
    BY DEF RunFails
  <2>2. CASE h[c].of \in Msgs
    <3>1. [Lost(Unread(c))[h[c].of] EXCEPT !.at = "failed"] \in Message
      BY <1>5, <2>2 DEF Message, Ends
    <3> QED
      BY <1>5, <2>1, <3>1
  <2>3. CASE h[c].of \notin Msgs
    BY <1>5, <2>1, <2>3
  <2> QED
    BY <2>2, <2>3
<1>7. faults' \in 0..MaxFaults
  BY ChatAssumption DEF RunFails, TypeOK
<1> QED
  BY <1>1, <1>4, <1>6, <1>7

\* The slots that are left, and the handlers that hold the others.
LEMMA SlotTaken ==
    ASSUME TypeOK, SlotsOK, NEW c \in Conns, h[c].pc # "run", h'[c].pc = "run",
           \A d \in Conns \ {c} : h'[d] = h[d], slots' = slots - 1
    PROVE  SlotsOK'
<1>1. Running' = Running \union {c} /\ c \notin Running
  BY DEF Running
<1>2. IsFiniteSet(Running') /\ Cardinality(Running') = Cardinality(Running) + 1
  BY <1>1, FS_AddElement DEF SlotsOK
<1>3. Cardinality(Running) \in Nat
  BY FS_CardinalityType DEF SlotsOK
<1> QED
  BY <1>2, <1>3, ChatAssumption DEF SlotsOK, TypeOK

LEMMA SlotGiven ==
    ASSUME TypeOK, SlotsOK, NEW c \in Conns, h[c].pc = "run", h'[c].pc # "run",
           \A d \in Conns \ {c} : h'[d] = h[d], slots' = slots + 1
    PROVE  SlotsOK' /\ slots' \in 0..MaxRuns
<1>1. Running' = Running \ {c} /\ c \in Running
  BY DEF Running
<1>2. IsFiniteSet(Running') /\ Cardinality(Running') = Cardinality(Running) - 1
  BY <1>1, FS_RemoveElement DEF SlotsOK
<1>3. Cardinality(Running) \in Nat /\ Cardinality(Running') \in Nat
  BY <1>2, FS_CardinalityType DEF SlotsOK
<1> QED
  BY <1>2, <1>3, ChatAssumption DEF SlotsOK, TypeOK

LEMMA SlotKept ==
    ASSUME SlotsOK, \A d \in Conns : h'[d].pc = "run" <=> h[d].pc = "run", UNCHANGED slots
    PROVE  SlotsOK'
<1>1. Running' = Running
  BY DEF Running
<1> QED
  BY <1>1 DEF SlotsOK

LEMMA WorksType ==
    ASSUME TypeOK, SlotsOK, NEW c \in Conns, Works(c)
    PROVE  TypeOK' /\ SlotsOK'
<1> USE DEF pages, wires, gate, bounds
<1>1. CASE AcksStop(c)
  <2>1. UNCHANGED <<pages, wire, gate, msg, asked, bounds>> /\ h[c].pc = "idle"
    BY <1>1 DEF AcksStop, Reads, At
  <2>2. SlotsOK'
    BY <1>1, <2>1, AcksStopType, SlotKept
  <2> QED
    BY <1>1, <2>1, <2>2, AcksStopType DEF TypeOK
<1>2. CASE Takes(c)
  <2>1. UNCHANGED <<pages, wire, slots, asked, bounds>>
    BY <1>2 DEF Takes
  <2>2. SlotsOK'
    BY <1>2, <2>1, TakesType, SlotKept
  <2> QED
    BY <1>2, <2>1, <2>2, TakesType DEF TypeOK
<1>3. CASE Acquires(c)
  <2>1. UNCHANGED <<pages, wires, msg, asked, bounds>>
    BY <1>3 DEF Acquires
  <2>2. SlotsOK'
    BY <1>3, AcquiresType, SlotTaken
  <2> QED
    BY <1>3, <2>1, <2>2, AcquiresType DEF TypeOK
<1>4. CASE RunEnds(c) \/ Breaks(c)
  <2>1. UNCHANGED <<pages, wires, queue, asked, bounds>> /\ slots' = slots + 1
    BY <1>4 DEF RunEnds, Breaks, Released
  <2>2. SlotsOK' /\ slots' \in 0..MaxRuns
    <3>1. h[c].pc = "run" /\ h'[c].pc # "run" /\ \A d \in Conns \ {c} : h'[d] = h[d]
      BY <1>4, LeavesType
    <3> QED
      BY <2>1, <3>1, SlotGiven
  <2> QED
    BY <1>4, <2>1, <2>2, LeavesType DEF TypeOK
<1>5. CASE HumanAnswers(c)
  <2>1. UNCHANGED <<pages, wire, inbox, gate, msg, asked, bounds>>
    BY <1>5 DEF HumanAnswers
  <2>2. SlotsOK'
    BY <1>5, <2>1, GoesOnType, SlotKept
  <2> QED
    BY <1>5, <2>1, <2>2, GoesOnType DEF TypeOK
<1>6. CASE EndsEmpty(c) \/ Delivers(c)
  <2>1. UNCHANGED <<pages, wire, inbox, gate, asked, bounds>>
    BY <1>6 DEF EndsEmpty, Delivers
  <2>2. SlotsOK'
    BY <1>6, <2>1, EndsType, SlotKept
  <2> QED
    BY <1>6, <2>1, <2>2, EndsType DEF TypeOK
<1>7. CASE HandlerEnds(c)
  <2>1. /\ UNCHANGED <<pages, outbox, gate, asked, bounds>>
        /\ Closes(c) /\ msg' = Lost(Unread(c)) /\ h[c].pc = "idle"
    BY <1>7 DEF HandlerEnds, At
  <2>2. SlotsOK'
    BY <2>1, ClosesType, SlotKept
  <2>3. msg' \in [Msgs -> Message]
    BY <2>1, LostOK DEF TypeOK
  <2> QED
    BY <2>1, <2>2, <2>3, ClosesType DEF TypeOK
<1> QED
  BY <1>1, <1>2, <1>3, <1>4, <1>5, <1>6, <1>7 DEF Works

LEMMA ConnsType ==
    ASSUME TypeOK, SlotsOK, NEW c \in Conns,
           \/ Watches(c) \/ Streams(c) \/ AsksHuman(c) \/ Refuses(c) \/ RunFails(c)
           \/ Raises(c) \/ Cut(c)
    PROVE  TypeOK' /\ SlotsOK'
<1> USE DEF pages, wires, gate, bounds
<1>1. CASE Hears(c)
  <2>1. UNCHANGED <<sock, loading, wire, outbox, gate, asked, bounds>>
    BY <1>1 DEF Hears
  <2>2. SlotsOK'
    BY <1>1, <2>1, HearsType, SlotKept
  <2> QED
    BY <1>1, <2>1, <2>2, HearsType DEF TypeOK
<1>2. CASE SeesGone(c) \/ Streams(c)
  <2>1. UNCHANGED <<pages, wires, gate, msg, asked, bounds>>
    BY <1>2 DEF SeesGone, Streams
  <2>2. SlotsOK'
    BY <1>2, <2>1, GoesOnType, SlotKept
  <2> QED
    BY <1>2, <2>1, <2>2, GoesOnType DEF TypeOK
<1>3. CASE AsksHuman(c)
  <2>1. UNCHANGED <<pages, wire, inbox, gate, msg, asked, stops, faults>>
    BY <1>3 DEF AsksHuman
  <2>2. SlotsOK'
    BY <1>3, <2>1, GoesOnType, SlotKept
  <2>3. approvals' \in 0..MaxApprovals
    BY <1>3, ChatAssumption DEF AsksHuman, TypeOK
  <2> QED
    BY <1>3, <2>1, <2>2, <2>3, GoesOnType DEF TypeOK
<1>4. CASE Refuses(c)
  <2>1. UNCHANGED <<pages, wire, gate, asked, stops, approvals>>
    BY <1>4 DEF Refuses
  <2>2. SlotsOK'
    BY <1>4, <2>1, RefusesType, SlotKept
  <2> QED
    BY <1>4, <2>1, <2>2, RefusesType DEF TypeOK
<1>5. CASE RunFails(c)
  <2>1. UNCHANGED <<pages, queue, asked, stops, approvals>> /\ Closes(c)
    BY <1>5 DEF RunFails
  <2>2. SlotsOK' /\ slots' \in 0..MaxRuns
    <3>1. /\ h[c].pc = "run" /\ slots' = slots + 1 /\ h'[c].pc # "run"
          /\ \A d \in Conns \ {c} : h'[d] = h[d]
      BY <1>5, <2>1, RunFailsType, ClosesType
    <3> QED
      BY <3>1, SlotGiven
  <2> QED
    BY <1>5, <2>1, <2>2, RunFailsType, ClosesType DEF TypeOK
<1>6. CASE Raises(c)
  <2>1. /\ UNCHANGED <<pages, gate, asked, stops, approvals>> /\ Closes(c)
        /\ h[c].pc # "run"
    BY <1>6 DEF Raises, Reads, At
  <2>2. SlotsOK'
    BY <2>1, ClosesType, SlotKept
  <2> QED
    BY <1>6, <2>1, <2>2, RaisesType, ClosesType DEF TypeOK
<1>7. CASE Cut(c)
  <2>1. UNCHANGED <<pages, h, gate, asked, stops, approvals>> /\ Severed(c)
    BY <1>7 DEF Cut
  <2>2. faults' \in 0..MaxFaults
    BY <1>7, ChatAssumption DEF Cut, TypeOK
  <2>3. SlotsOK'
    BY <2>1, SlotKept
  <2> QED
    BY <2>1, <2>2, <2>3, SeveredType DEF TypeOK
<1> QED
  BY <1>1, <1>2, <1>3, <1>4, <1>5, <1>6, <1>7 DEF Watches

LEMMA PagesSlots ==
    ASSUME TypeOK, SlotsOK, NEW p \in Pages,
           Connects(p) \/ Types(p) \/ ClicksStop(p) \/ Shows(p) \/ WatchdogFires(p) \/ Reloads(p)
    PROVE  SlotsOK'
<1>1. UNCHANGED slots
  BY DEF gate, bounds, wires, Connects, Types, ClicksStop, Shows, Receives, SeesClose,
         WatchdogFires, Reloads
<1>2. \A d \in Conns : h'[d].pc = "run" <=> h[d].pc = "run"
  <2>1. CASE Connects(p)
    <3>1. PICK c \in Conns : h[c].pc = "none" /\ h' = [h EXCEPT ![c] = Idle]
      BY <2>1 DEF Connects
    <3> QED
      BY <3>1, IdleOK DEF TypeOK
  <2>2. CASE ~Connects(p)
    BY <2>2 DEF Types, ClicksStop, Shows, Receives, SeesClose, WatchdogFires, Reloads
  <2> QED
    BY <2>1, <2>2
<1> QED
  BY <1>1, <1>2, SlotKept

LEMMA TypeStep == TypeOK /\ SlotsOK /\ [Next]_vars => TypeOK' /\ SlotsOK'
<1> SUFFICES ASSUME TypeOK, SlotsOK, [Next]_vars PROVE TypeOK' /\ SlotsOK'
  OBVIOUS
<1>1. CASE \E p \in Pages : Connects(p) \/ Types(p) \/ ClicksStop(p) \/ Shows(p)
                            \/ WatchdogFires(p) \/ Reloads(p)
  BY <1>1, PagesType, PagesSlots
<1>2. CASE \E c \in Conns : Works(c)
  BY <1>2, WorksType
<1>3. CASE \E c \in Conns : Watches(c) \/ Streams(c) \/ AsksHuman(c) \/ Refuses(c)
                            \/ RunFails(c) \/ Raises(c) \/ Cut(c)
  BY <1>3, ConnsType
<1>4. CASE UNCHANGED vars
  BY <1>4 DEF vars, pages, wires, gate, bounds, TypeOK, SlotsOK, Running
<1> QED
  BY <1>1, <1>2, <1>3, <1>4 DEF Next

LEMMA TypeInit == Init => TypeOK /\ SlotsOK
<1> SUFFICES ASSUME Init PROVE TypeOK /\ SlotsOK
  OBVIOUS
<1>1. /\ sock \in [Pages -> Conns \union {None}]
      /\ loading \in [Pages -> BOOLEAN] /\ awaiting \in [Pages -> SUBSET Msgs]
      /\ wire \in [Conns -> {"none", "up", "cut"}]
      /\ inbox \in [Conns -> Seq(0..MaxAsks)] /\ outbox \in [Conns -> Seq(Frame)]
      /\ queue \in Seq(Conns)
  BY DEF Init
<1>2. h \in [Conns -> Handler] /\ \A c \in Conns : h[c].pc = "none"
  BY DEF Init, Idle, Handler, Steps
<1>3. msg \in [Msgs -> Message]
  BY DEF Init, Message
<1>4. /\ slots = MaxRuns /\ slots \in 0..MaxRuns /\ asked \in 0..MaxAsks
      /\ stops \in 0..MaxStops
      /\ approvals \in 0..MaxApprovals /\ faults \in 0..MaxFaults
  BY ChatAssumption DEF Init
<1>5. Running = {}
  BY <1>2 DEF Running
<1>6. SlotsOK
  BY <1>4, <1>5, FS_EmptySet, ChatAssumption DEF SlotsOK
<1> QED
  BY <1>1, <1>2, <1>3, <1>4, <1>6 DEF TypeOK

\* The types, and the slots of the cap: those that are free and those that a run holds
\* are always all of them, so none is given back twice nor kept by a run that ended.
THEOREM TypeCorrect == Spec => [](TypeOK /\ SlotsOK)
BY TypeInit, TypeStep, PTL DEF Spec

-----------------------------------------------------------------------------
(* The messages of a socket.                                               *)

Serving == {"queue", "run", "over"}

\* No handler, no reading.
LinkOK(c) == h[c].pc \in {"none", "closed"} => inbox[c] = <<>> /\ wire[c] # "up"

\* A page is served, and shares its socket with no other.
SockOK(c) == \A p \in Pages : sock[p] = c =>
                /\ h[c].pc # "none"
                /\ \A q \in Pages : sock[q] = c => q = p

\* What a handler serves, and what its watcher reads for.
ServingOK(c) == /\ h[c].pc \in Serving => /\ h[c].of \in Msgs
                                          /\ msg[h[c].of].at = "kept"
                                          /\ msg[h[c].of].on = c
                /\ h[c].watch => h[c].pc = "run"
                /\ h[c].stop => h[c].pc \in {"run", "over"}

\* What it has not read: each message once, sent on this socket, and on its way.
InboxOK(c) == \A i \in 1..Len(inbox[c]) : inbox[c][i] # Stop =>
                /\ msg[inbox[c][i]].at = "wire" /\ msg[inbox[c][i]].on = c
                /\ \A j \in 1..Len(inbox[c]) : inbox[c][j] = inbox[c][i] => j = i

\* A stop that is still to be read was clicked after the messages before it, and after
\* the one that is served.
StopsLate(c) == \A i, j \in 1..Len(inbox[c]) :
                  j < i /\ inbox[c][i] = Stop /\ inbox[c][j] # Stop => msg[inbox[c][j]].stop
StopHeard(c) ==
    /\ \A i \in 1..Len(inbox[c]) :
          inbox[c][i] = Stop /\ h[c].pc \in {"queue", "run"} => msg[h[c].of].stop
    /\ h[c].pc = "run" /\ h[c].stop => msg[h[c].of].stop

\* A message typed with nothing else awaited is the first one to be read, and nothing
\* is served before it.
CleanFirst(c) == \A i, j \in 1..Len(inbox[c]) :
                   j < i /\ inbox[c][i] # Stop /\ msg[inbox[c][i]].clean => inbox[c][j] = Stop
CleanIdle(c) == \A i \in 1..Len(inbox[c]) :
                  inbox[c][i] # Stop /\ msg[inbox[c][i]].clean => h[c].pc \notin Serving

\* The page awaits all that is served or is to be read on its socket.
AwaitOK(c) == \A p \in Pages : sock[p] = c =>
                /\ h[c].pc \in Serving => h[c].of \in awaiting[p]
                /\ \A i \in 1..Len(inbox[c]) : inbox[c][i] # Stop => inbox[c][i] \in awaiting[p]

SocketOK(c) == /\ LinkOK(c) /\ SockOK(c) /\ ServingOK(c) /\ InboxOK(c)
               /\ StopsLate(c) /\ StopHeard(c)
               /\ CleanFirst(c) /\ CleanIdle(c) /\ AwaitOK(c)

\* A frame that ends the wait for a message is sent when the message is settled.
EndKinds == {"answer", "stopped", "error"}
FramesAreTrue == \A c \in Conns : \A i \in 1..Len(outbox[c]) :
    outbox[c][i].kind \in EndKinds =>
        outbox[c][i].of \in Msgs /\ msg[outbox[c][i].of].at \in Ends

NewOK == \A m \in Msgs : m > asked => msg[m].at = "new"

ChatInv == /\ \A c \in Conns : SocketOK(c)
           /\ FramesAreTrue /\ NewOK
           /\ OnlyStopBreaks /\ TypedAfterEndIsTaken

\* What the step of another socket leaves alone.
Elsewhere(d) ==
    /\ h'[d].pc = h[d].pc /\ h'[d].of = h[d].of /\ h'[d].stop = h[d].stop
    /\ h'[d].watch => h[d].watch
    /\ inbox'[d] = inbox[d] /\ (wire'[d] = "up" => wire[d] = "up")
    /\ \A m \in Msgs : msg[m].on = d /\ msg[m].at \in {"wire", "kept"} => msg'[m] = msg[m]
    /\ \A p \in Pages : sock'[p] = d =>
          /\ sock[p] = d
          /\ \A m \in awaiting[p] : msg[m].at \in {"wire", "kept"} /\ msg[m].on = d
                                       => m \in awaiting'[p]

LEMMA InboxTyped ==
    ASSUME TypeOK, NEW d \in Conns, NEW i \in 1..Len(inbox[d]), inbox[d][i] # Stop
    PROVE  inbox[d][i] \in Msgs
<1>1. inbox[d] \in Seq(0..MaxAsks)
  BY DEF TypeOK
<1>2. inbox[d][i] \in 0..MaxAsks
  BY <1>1, ElementOfSeq
<1> QED
  BY <1>2, ChatAssumption DEF Msgs, Stop

LEMMA ElsewhereOK ==
    ASSUME TypeOK, NEW d \in Conns, SocketOK(d), Elsewhere(d)
    PROVE  SocketOK(d)'
<1>1. /\ h'[d].pc = h[d].pc /\ h'[d].of = h[d].of /\ h'[d].stop = h[d].stop
      /\ h'[d].watch => h[d].watch
      /\ inbox'[d] = inbox[d] /\ (wire'[d] = "up" => wire[d] = "up")
  BY DEF Elsewhere
<1>2. h[d].pc \in Serving =>
        /\ h[d].of \in Msgs /\ msg'[h[d].of] = msg[h[d].of]
        /\ msg[h[d].of].on = d /\ msg[h[d].of].at = "kept"
  BY DEF Elsewhere, SocketOK, ServingOK
<1>3. \A i \in 1..Len(inbox[d]) : inbox[d][i] # Stop =>
        /\ inbox[d][i] \in Msgs /\ msg'[inbox[d][i]] = msg[inbox[d][i]]
        /\ msg[inbox[d][i]].on = d /\ msg[inbox[d][i]].at = "wire"
  BY InboxTyped DEF Elsewhere, SocketOK, InboxOK
<1>4. \A p \in Pages : sock'[p] = d =>
          /\ sock[p] = d
          /\ \A m \in awaiting[p] : msg[m].at \in {"wire", "kept"} /\ msg[m].on = d
                                       => m \in awaiting'[p]
  BY DEF Elsewhere
<1>5. LinkOK(d)'
  BY <1>1 DEF SocketOK, LinkOK
<1>6. SockOK(d)'
  BY <1>1, <1>4 DEF SocketOK, SockOK
<1>7. ServingOK(d)'
  BY <1>1, <1>2 DEF SocketOK, ServingOK
<1>8. InboxOK(d)'
  BY <1>1, <1>3 DEF SocketOK, InboxOK
<1>9. StopsLate(d)'
  BY <1>1, <1>3 DEF SocketOK, StopsLate
<1>10. StopHeard(d)'
  BY <1>1, <1>2 DEF SocketOK, StopHeard, Serving
<1>11. CleanFirst(d)'
  BY <1>1, <1>3 DEF SocketOK, CleanFirst
<1>12. CleanIdle(d)'
  BY <1>1, <1>3 DEF SocketOK, CleanIdle
<1>13. AwaitOK(d)'
  BY <1>1, <1>2, <1>3, <1>4 DEF SocketOK, AwaitOK
<1> QED
  BY <1>5, <1>6, <1>7, <1>8, <1>9, <1>10, <1>11, <1>12, <1>13 DEF SocketOK

LEMMA AloneOK ==
    ASSUME NEW c \in Conns,
           \A d \in Conns \ {c} : /\ h'[d] = h[d] /\ inbox'[d] = inbox[d]
                                  /\ wire'[d] = wire[d],
           \A m \in Msgs : msg[m].on # c => msg'[m] = msg[m],
           UNCHANGED <<sock, awaiting>>
    PROVE  \A d \in Conns \ {c} : Elsewhere(d)
BY DEF Elsewhere

\* The handler has read the first frame.
LEMMA ReadsOn ==
    ASSUME TypeOK, NEW c \in Conns, SocketOK(c), inbox[c] # <<>>,
           inbox' = [inbox EXCEPT ![c] = Tail(@)],
           \A m \in Msgs \ {Head(inbox[c])} : msg'[m] = msg[m]
    PROVE  /\ InboxOK(c)' /\ StopsLate(c)' /\ CleanFirst(c)'
           /\ 1 \in 1..Len(inbox[c]) /\ Head(inbox[c]) = inbox[c][1]
           /\ \A i \in 1..Len(inbox'[c]) :
                 /\ i + 1 \in 1..Len(inbox[c]) /\ 1 < i + 1
                 /\ inbox'[c][i] = inbox[c][i + 1]
                 /\ inbox'[c][i] # Stop => /\ inbox'[c][i] \in Msgs
                                           /\ msg'[inbox'[c][i]] = msg[inbox'[c][i]]
<1>1. /\ Head(inbox[c]) = inbox[c][1] /\ 1 \in 1..Len(inbox[c])
      /\ \A i \in 1..Len(inbox'[c]) : i + 1 \in 1..Len(inbox[c]) /\ 1 < i + 1
                                      /\ inbox'[c][i] = inbox[c][i + 1]
  BY DropsHead DEF TypeOK
<1>2. \A i \in 1..Len(inbox'[c]) : inbox'[c][i] # Stop =>
          /\ inbox'[c][i] \in Msgs /\ inbox'[c][i] # inbox[c][1]
          /\ msg'[inbox'[c][i]] = msg[inbox'[c][i]]
  <2> SUFFICES ASSUME NEW i \in 1..Len(inbox'[c]), inbox'[c][i] # Stop
               PROVE  /\ inbox'[c][i] \in Msgs /\ inbox'[c][i] # inbox[c][1]
                      /\ msg'[inbox'[c][i]] = msg[inbox'[c][i]]
    OBVIOUS
  <2>1. i + 1 \in 1..Len(inbox[c]) /\ inbox'[c][i] = inbox[c][i + 1] /\ i + 1 # 1
    BY <1>1
  <2>2. inbox[c][i + 1] \in Msgs
    BY <2>1, InboxTyped
  <2>3. inbox[c][i + 1] # inbox[c][1]
    BY <1>1, <2>1 DEF SocketOK, InboxOK
  <2> QED
    BY <1>1, <2>1, <2>2, <2>3
<1>3. InboxOK(c)'
  <2> SUFFICES ASSUME NEW i \in 1..Len(inbox'[c]), inbox'[c][i] # Stop
               PROVE  /\ msg'[inbox'[c][i]].at = "wire" /\ msg'[inbox'[c][i]].on = c
                      /\ \A j \in 1..Len(inbox'[c]) : inbox'[c][j] = inbox'[c][i] => j = i
    BY DEF InboxOK
  <2>1. /\ msg[inbox[c][i + 1]].at = "wire" /\ msg[inbox[c][i + 1]].on = c
        /\ \A j \in 1..Len(inbox[c]) : inbox[c][j] = inbox[c][i + 1] => j = i + 1
    BY <1>1 DEF SocketOK, InboxOK
  <2>2. ASSUME NEW j \in 1..Len(inbox'[c]), inbox'[c][j] = inbox'[c][i] PROVE j = i
    <3>1. j + 1 = i + 1
      BY <1>1, <2>1, <2>2
    <3>2. i \in Int /\ j \in Int
      OBVIOUS
    <3> QED
      BY <3>1, <3>2
  <2> QED
    BY <1>1, <1>2, <2>1, <2>2
<1>4. StopsLate(c)'
  <2> SUFFICES ASSUME NEW i \in 1..Len(inbox'[c]), NEW j \in 1..Len(inbox'[c]),
                      j < i, inbox'[c][i] = Stop, inbox'[c][j] # Stop
               PROVE  msg'[inbox'[c][j]].stop
    BY DEF StopsLate
  <2>1. j + 1 < i + 1
    OBVIOUS
  <2>2. msg[inbox[c][j + 1]].stop
    BY <1>1, <2>1 DEF SocketOK, StopsLate
  <2> QED
    BY <1>1, <1>2, <2>2
<1>5. CleanFirst(c)'
  <2> SUFFICES ASSUME NEW i \in 1..Len(inbox'[c]), NEW j \in 1..Len(inbox'[c]),
                      j < i, inbox'[c][i] # Stop, msg'[inbox'[c][i]].clean
               PROVE  inbox'[c][j] = Stop
    BY DEF CleanFirst
  <2>1. j + 1 < i + 1
    OBVIOUS
  <2>2. msg[inbox[c][i + 1]].clean
    BY <1>1, <1>2
  <2> QED
    BY <1>1, <2>1, <2>2 DEF SocketOK, CleanFirst
<1> QED
  BY <1>1, <1>2, <1>3, <1>4, <1>5

\* Nothing is read, and the messages on their way stay so.
LEMMA ReadsNothing ==
    ASSUME TypeOK, NEW c \in Conns, SocketOK(c), inbox'[c] = inbox[c],
           \A m \in Msgs : msg[m].at = "wire" => msg'[m] = msg[m]
    PROVE  /\ InboxOK(c)' /\ StopsLate(c)' /\ CleanFirst(c)'
           /\ \A i \in 1..Len(inbox'[c]) : inbox'[c][i] # Stop =>
                 msg'[inbox'[c][i]] = msg[inbox'[c][i]]
<1>1. \A i \in 1..Len(inbox[c]) : inbox[c][i] # Stop =>
         /\ inbox[c][i] \in Msgs /\ msg'[inbox[c][i]] = msg[inbox[c][i]]
  BY InboxTyped DEF SocketOK, InboxOK
<1>2. InboxOK(c)'
  BY <1>1 DEF SocketOK, InboxOK
<1>3. StopsLate(c)'
  BY <1>1 DEF SocketOK, StopsLate
<1>4. CleanFirst(c)'
  BY <1>1 DEF SocketOK, CleanFirst
<1> QED
  BY <1>1, <1>2, <1>3, <1>4

LEMMA IdleAfter ==
    ASSUME NEW c \in Conns, SocketOK(c), h'[c].pc = "idle", ~h'[c].watch, ~h'[c].stop,
           h[c].pc # "none", UNCHANGED <<sock, awaiting>>,
           InboxOK(c)', StopsLate(c)', CleanFirst(c)',
           \A i \in 1..Len(inbox'[c]) : \E j \in 1..Len(inbox[c]) : inbox'[c][i] = inbox[c][j]
    PROVE  SocketOK(c)'
<1>1. LinkOK(c)' /\ SockOK(c)'
  BY DEF SocketOK, LinkOK, SockOK
<1>2. ServingOK(c)' /\ StopHeard(c)' /\ CleanIdle(c)'
  BY DEF ServingOK, StopHeard, CleanIdle, Serving
<1>3. AwaitOK(c)'
  BY DEF SocketOK, AwaitOK, Serving
<1> QED
  BY <1>1, <1>2, <1>3 DEF SocketOK

LEMMA ClosedAfter ==
    ASSUME TypeOK, NEW c \in Conns, SocketOK(c), Closes(c), h[c].pc # "none", UNCHANGED sock
    PROVE  SocketOK(c)'
<1>1. /\ h'[c].pc = "closed" /\ ~h'[c].stop /\ ~h'[c].watch
      /\ inbox'[c] = <<>> /\ wire'[c] = "cut"
  BY ClosesType
<1>2. 1..Len(inbox'[c]) = {}
  BY <1>1
<1> QED
  BY <1>1, <1>2 DEF SocketOK, LinkOK, SockOK, ServingOK, InboxOK, StopsLate, StopHeard,
              CleanFirst, CleanIdle, AwaitOK, Serving

LEMMA LostMessages ==
    ASSUME TypeOK, NEW c \in Conns
    PROVE  \A m \in Msgs : /\ m \notin Unread(c) => Lost(Unread(c))[m] = msg[m]
                           /\ m \in Unread(c) => msg[m].on = c /\ msg[m].at = "wire"
                           /\ m \in Unread(c) => Lost(Unread(c))[m] = [msg[m] EXCEPT !.at = "lost"]
BY DEF Lost, Unread

LEMMA AcksStopSockets ==
    ASSUME TypeOK, \A d \in Conns : SocketOK(d), NEW c \in Conns, AcksStop(c)
    PROVE  \A d \in Conns : SocketOK(d)'
<1>1. /\ UNCHANGED <<sock, awaiting, wire, msg>> /\ h[c].pc = "idle" /\ inbox[c] # <<>>
      /\ inbox' = [inbox EXCEPT ![c] = Tail(@)]
  BY DEF AcksStop, Reads, At, pages
<1>2. /\ h'[c].pc = "idle" /\ h'[c].stop = h[c].stop /\ h'[c].watch = h[c].watch
      /\ \A d \in Conns \ {c} : h'[d] = h[d]
  BY AcksStopType
<1>3. \A d \in Conns \ {c} : Elsewhere(d)
  BY <1>1, <1>2, AloneOK DEF TypeOK
<1>4. ~h'[c].watch /\ ~h'[c].stop
  BY <1>1, <1>2 DEF SocketOK, ServingOK
<1>5. /\ InboxOK(c)' /\ StopsLate(c)' /\ CleanFirst(c)'
      /\ \A i \in 1..Len(inbox'[c]) : \E j \in 1..Len(inbox[c]) : inbox'[c][i] = inbox[c][j]
  BY <1>1, ReadsOn
<1>6. SocketOK(c)'
  BY <1>1, <1>2, <1>4, <1>5, IdleAfter
<1> QED
  BY <1>3, <1>6, ElsewhereOK

LEMMA TakesSockets ==
    ASSUME TypeOK, \A d \in Conns : SocketOK(d), NEW c \in Conns, Takes(c)
    PROVE  \A d \in Conns : SocketOK(d)'
<1> DEFINE m == Head(inbox[c])
<1>1. /\ UNCHANGED <<sock, awaiting, wire>> /\ h[c].pc = "idle" /\ inbox[c] # <<>>
      /\ inbox' = [inbox EXCEPT ![c] = Tail(@)] /\ msg' = Now(m, "kept") /\ m # Stop
  BY DEF Takes, Reads, At, pages
<1>2. /\ h'[c].pc = "queue" /\ h'[c].of = m /\ m \in Msgs
      /\ h'[c].stop = h[c].stop /\ h'[c].watch = h[c].watch
      /\ \A d \in Conns \ {c} : h'[d] = h[d]
  BY TakesType
<1> HIDE DEF m
<1>3. msg'[m] = [msg[m] EXCEPT !.at = "kept"] /\ \A n \in Msgs \ {m} : msg'[n] = msg[n]
  BY <1>1, <1>2, NowElse DEF TypeOK
<1>4. /\ InboxOK(c)' /\ StopsLate(c)' /\ CleanFirst(c)'
      /\ 1 \in 1..Len(inbox[c]) /\ m = inbox[c][1]
      /\ \A i \in 1..Len(inbox'[c]) :
            /\ i + 1 \in 1..Len(inbox[c]) /\ 1 < i + 1 /\ inbox'[c][i] = inbox[c][i + 1]
            /\ inbox'[c][i] # Stop => msg'[inbox'[c][i]] = msg[inbox'[c][i]]
  BY <1>1, <1>3, ReadsOn DEF m
<1>5. msg[m] \in Message /\ msg[m].on = c
  BY <1>1, <1>2, <1>4 DEF SocketOK, InboxOK, TypeOK
<1>6. /\ msg'[m].at = "kept" /\ msg'[m].on = c /\ msg'[m].stop = msg[m].stop
  BY <1>3, <1>5 DEF Message
<1>7. \A d \in Conns \ {c} : Elsewhere(d)
  <2>1. \A n \in Msgs : msg[n].on # c => msg'[n] = msg[n]
    BY <1>3, <1>5
  <2> QED
    BY <1>1, <1>2, <2>1, AloneOK DEF TypeOK
<1>8. LinkOK(c)' /\ SockOK(c)'
  BY <1>1, <1>2 DEF SocketOK, LinkOK, SockOK
<1>9. ServingOK(c)'
  BY <1>1, <1>2, <1>6 DEF SocketOK, ServingOK
<1>10. StopHeard(c)'
  BY <1>1, <1>2, <1>4, <1>6 DEF SocketOK, StopHeard, StopsLate
<1>11. CleanIdle(c)'
  <2> SUFFICES ASSUME NEW i \in 1..Len(inbox'[c]), inbox'[c][i] # Stop,
                      msg'[inbox'[c][i]].clean
               PROVE  FALSE
    BY DEF CleanIdle
  <2>1. i + 1 \in 1..Len(inbox[c]) /\ inbox[c][i + 1] # Stop /\ msg[inbox[c][i + 1]].clean
    BY <1>4
  <2>2. inbox[c][1] = Stop
    BY <1>4, <2>1 DEF SocketOK, CleanFirst
  <2> QED
    BY <1>1, <1>4, <2>2
<1>12. AwaitOK(c)'
  BY <1>1, <1>2, <1>4 DEF SocketOK, AwaitOK
<1>13. SocketOK(c)'
  BY <1>4, <1>8, <1>9, <1>10, <1>11, <1>12 DEF SocketOK
<1> QED
  BY <1>7, <1>13, ElsewhereOK

LEMMA RefusesSockets ==
    ASSUME TypeOK, \A d \in Conns : SocketOK(d), NEW c \in Conns, Refuses(c)
    PROVE  \A d \in Conns : SocketOK(d)'
<1> DEFINE m == Head(inbox[c])
<1>1. /\ UNCHANGED <<sock, awaiting, wire>> /\ h[c].pc = "idle" /\ inbox[c] # <<>>
      /\ inbox' = [inbox EXCEPT ![c] = Tail(@)] /\ msg' = Now(m, "refused") /\ m # Stop
  BY DEF Refuses, Reads, At, pages
<1>2. /\ h'[c].pc = "idle" /\ m \in Msgs
      /\ h'[c].stop = FALSE /\ h'[c].watch = h[c].watch
      /\ \A d \in Conns \ {c} : h'[d] = h[d]
  BY RefusesType
<1> HIDE DEF m
<1>3. \A n \in Msgs \ {m} : msg'[n] = msg[n]
  BY <1>1, <1>2 DEF Now, TypeOK
<1>4. /\ InboxOK(c)' /\ StopsLate(c)' /\ CleanFirst(c)'
      /\ 1 \in 1..Len(inbox[c]) /\ m = inbox[c][1]
      /\ \A i \in 1..Len(inbox'[c]) : \E j \in 1..Len(inbox[c]) : inbox'[c][i] = inbox[c][j]
  BY <1>1, <1>3, ReadsOn DEF m
<1>5. msg[m].on = c
  BY <1>1, <1>2, <1>4 DEF SocketOK, InboxOK
<1>6. \A d \in Conns \ {c} : Elsewhere(d)
  <2>1. \A n \in Msgs : msg[n].on # c => msg'[n] = msg[n]
    BY <1>3, <1>5
  <2> QED
    BY <1>1, <1>2, <2>1, AloneOK DEF TypeOK
<1>7. ~h'[c].watch /\ ~h'[c].stop
  BY <1>1, <1>2 DEF SocketOK, ServingOK
<1>8. SocketOK(c)'
  BY <1>1, <1>2, <1>4, <1>7, IdleAfter
<1> QED
  BY <1>6, <1>8, ElsewhereOK

LEMMA AcquiresSockets ==
    ASSUME TypeOK, \A d \in Conns : SocketOK(d), NEW c \in Conns, Acquires(c)
    PROVE  \A d \in Conns : SocketOK(d)'
<1>1. UNCHANGED <<sock, awaiting, wire, inbox, msg>>
  BY DEF Acquires, pages, wires
<1>2. /\ h[c].pc = "queue" /\ h'[c].pc = "run" /\ h'[c].of = h[c].of
      /\ h'[c].stop = h[c].stop /\ \A d \in Conns \ {c} : h'[d] = h[d]
  BY AcquiresType
<1>3. \A d \in Conns \ {c} : Elsewhere(d)
  BY <1>1, <1>2, AloneOK
<1>4. LinkOK(c)' /\ SockOK(c)' /\ ServingOK(c)'
  BY <1>1, <1>2 DEF SocketOK, LinkOK, SockOK, ServingOK, Serving
<1>5. InboxOK(c)' /\ StopsLate(c)' /\ CleanFirst(c)'
  BY <1>1 DEF SocketOK, InboxOK, StopsLate, CleanFirst
<1>6. StopHeard(c)'
  <2>1. ~h'[c].stop
    BY <1>2 DEF SocketOK, ServingOK
  <2> QED
    BY <1>1, <1>2, <2>1 DEF SocketOK, StopHeard
<1>7. CleanIdle(c)' /\ AwaitOK(c)'
  BY <1>1, <1>2 DEF SocketOK, CleanIdle, AwaitOK, Serving
<1>8. SocketOK(c)'
  BY <1>4, <1>5, <1>6, <1>7 DEF SocketOK
<1> QED
  BY <1>3, <1>8, ElsewhereOK

LEMMA LeavesSockets ==
    ASSUME TypeOK, \A d \in Conns : SocketOK(d), NEW c \in Conns, RunEnds(c) \/ Breaks(c)
    PROVE  \A d \in Conns : SocketOK(d)'
<1>1. UNCHANGED <<sock, awaiting, wire, inbox>>
  BY DEF RunEnds, Breaks, pages, wires
<1>2. /\ h[c].pc = "run" /\ h'[c].pc = "over" /\ h'[c].of = h[c].of
      /\ ~h'[c].watch /\ \A d \in Conns \ {c} : h'[d] = h[d]
  BY LeavesType
<1>3. h[c].of \in Msgs /\ msg[h[c].of].at = "kept" /\ msg[h[c].of].on = c
  BY <1>2 DEF SocketOK, ServingOK, Serving
<1>4. /\ \A m \in Msgs \ {h[c].of} : msg'[m] = msg[m]
      /\ msg'[h[c].of].at = "kept" /\ msg'[h[c].of].on = c
  <2>1. CASE RunEnds(c)
    BY <1>3, <2>1 DEF RunEnds
  <2>2. CASE Breaks(c)
    <3>1. msg' = [msg EXCEPT ![h[c].of].broken = TRUE] /\ msg[h[c].of] \in Message
      BY <1>3, <2>2 DEF Breaks, TypeOK
    <3> QED
      BY <1>3, <3>1 DEF TypeOK, Message
  <2> QED
    BY <2>1, <2>2
<1>5. \A d \in Conns \ {c} : Elsewhere(d)
  <2>1. \A n \in Msgs : msg[n].on # c => msg'[n] = msg[n]
    BY <1>3, <1>4
  <2> QED
    BY <1>1, <1>2, <2>1, AloneOK
<1>6. LinkOK(c)' /\ SockOK(c)' /\ ServingOK(c)'
  BY <1>1, <1>2, <1>3, <1>4 DEF SocketOK, LinkOK, SockOK, ServingOK, Serving
<1>7. /\ InboxOK(c)' /\ StopsLate(c)' /\ CleanFirst(c)'
      /\ \A i \in 1..Len(inbox'[c]) : inbox'[c][i] # Stop =>
            msg'[inbox'[c][i]] = msg[inbox'[c][i]]
  <2>1. \A m \in Msgs : msg[m].at = "wire" => msg'[m] = msg[m]
    BY <1>3, <1>4
  <2> QED
    BY <1>1, <2>1, ReadsNothing
<1>8. StopHeard(c)'
  BY <1>2 DEF StopHeard
<1>9. CleanIdle(c)'
  BY <1>1, <1>2, <1>7 DEF SocketOK, CleanIdle, Serving
<1>10. AwaitOK(c)'
  BY <1>1, <1>2 DEF SocketOK, AwaitOK, Serving
<1>11. SocketOK(c)'
  BY <1>6, <1>7, <1>8, <1>9, <1>10 DEF SocketOK
<1> QED
  BY <1>5, <1>11, ElsewhereOK

LEMMA EndsSockets ==
    ASSUME TypeOK, \A d \in Conns : SocketOK(d), NEW c \in Conns, EndsEmpty(c) \/ Delivers(c)
    PROVE  \A d \in Conns : SocketOK(d)'
<1>1. UNCHANGED <<sock, awaiting, wire, inbox>>
  BY DEF EndsEmpty, Delivers, pages
<1>2. /\ h[c].pc = "over" /\ h'[c].pc = "idle"
      /\ h'[c].stop = FALSE /\ h'[c].watch = h[c].watch
      /\ \A d \in Conns \ {c} : h'[d] = h[d]
  BY EndsType
<1>3. h[c].of \in Msgs /\ msg[h[c].of].at = "kept" /\ msg[h[c].of].on = c
  BY <1>2 DEF SocketOK, ServingOK, Serving
<1>4. \A m \in Msgs \ {h[c].of} : msg'[m] = msg[m]
  <2>1. \E where : msg' = Now(h[c].of, where)
    BY DEF EndsEmpty, Delivers
  <2> QED
    BY <1>3, <2>1 DEF Now, TypeOK
<1>5. \A d \in Conns \ {c} : Elsewhere(d)
  <2>1. \A n \in Msgs : msg[n].on # c => msg'[n] = msg[n]
    BY <1>3, <1>4
  <2> QED
    BY <1>1, <1>2, <2>1, AloneOK
<1>6. InboxOK(c)' /\ StopsLate(c)' /\ CleanFirst(c)'
  <2>1. \A m \in Msgs : msg[m].at = "wire" => msg'[m] = msg[m]
    BY <1>3, <1>4
  <2> QED
    BY <1>1, <2>1, ReadsNothing
<1>7. ~h'[c].watch /\ ~h'[c].stop
  BY <1>2 DEF SocketOK, ServingOK
<1>8. SocketOK(c)'
  BY <1>1, <1>2, <1>6, <1>7, IdleAfter
<1> QED
  BY <1>5, <1>8, ElsewhereOK

\* A step of the run that reads nothing, or of a page that types nothing.
LEMMA GoesOnSockets ==
    ASSUME TypeOK, \A d \in Conns : SocketOK(d), NEW c \in Conns,
           SeesGone(c) \/ Streams(c) \/ AsksHuman(c) \/ HumanAnswers(c)
    PROVE  \A d \in Conns : SocketOK(d)'
<1>1. UNCHANGED <<sock, awaiting, wire, inbox, msg>>
  BY DEF SeesGone, Streams, AsksHuman, HumanAnswers, pages, wires
<1>2. /\ h'[c].pc = h[c].pc /\ h'[c].of = h[c].of
      /\ h'[c].stop = h[c].stop /\ (h'[c].watch => h[c].watch)
      /\ \A d \in Conns \ {c} : h'[d] = h[d]
  BY GoesOnType
<1>3. \A d \in Conns : Elsewhere(d)
  BY <1>1, <1>2 DEF Elsewhere
<1> QED
  BY <1>3, ElsewhereOK

LEMMA HandlerEndsSockets ==
    ASSUME TypeOK, \A d \in Conns : SocketOK(d), NEW c \in Conns,
           HandlerEnds(c) \/ RunFails(c) \/ Raises(c)
    PROVE  \A d \in Conns : SocketOK(d)'
<1>1. /\ UNCHANGED <<sock, awaiting>> /\ Closes(c) /\ h[c].pc # "none"
  BY DEF HandlerEnds, RunFails, Raises, Reads, At, pages
<1>2. \A d \in Conns \ {c} : h'[d] = h[d] /\ inbox'[d] = inbox[d] /\ wire'[d] = wire[d]
  BY <1>1, ClosesType
<1>3. \A n \in Msgs : msg[n].on # c => msg'[n] = msg[n]
  <2>1. \A n \in Msgs : msg[n].on # c => Lost(Unread(c))[n] = msg[n]
    BY LostMessages
  <2>2. Lost(Unread(c)) \in [Msgs -> Message]
    BY LostOK DEF TypeOK
  <2>3. CASE HandlerEnds(c)
    BY <2>1, <2>3 DEF HandlerEnds
  <2>4. CASE RunFails(c)
    <3>1. h[c].of \in Msgs /\ msg[h[c].of].on = c
      BY <2>4 DEF RunFails, At, SocketOK, ServingOK, Serving
    <3>2. \A n \in Msgs \ {h[c].of} : msg'[n] = Lost(Unread(c))[n]
      BY <2>2, <2>4 DEF RunFails
    <3> QED
      BY <2>1, <3>1, <3>2
  <2>5. CASE Raises(c)
    <3>1. PICK m \in Msgs, where \in {"lost", "failed", "untold"}, ran \in BOOLEAN :
             /\ IF ran THEN At(c, "over") /\ h[c].text /\ m = h[c].of
                ELSE Reads(c) /\ m = Head(inbox[c])
             /\ msg' = [Lost(Unread(c)) EXCEPT ![m].at = where]
      BY <2>5 DEF Raises
    <3>2. \A n \in Msgs \ {m} : msg'[n] = Lost(Unread(c))[n]
      BY <2>2, <3>1
    <3>3. msg[m].on = c
      <4>1. CASE ~ran
        <5>1. m = inbox[c][1] /\ 1 \in 1..Len(inbox[c])
          BY <3>1, <4>1, EmptySeq, LenProperties DEF Reads, TypeOK
        <5>2. m # Stop
          BY ChatAssumption DEF Msgs, Stop
        <5> QED
          BY <5>1, <5>2 DEF SocketOK, InboxOK
      <4>2. CASE ran
        BY <3>1, <4>2 DEF At, SocketOK, ServingOK, Serving
      <4> QED
        BY <4>1, <4>2
    <3> QED
      BY <2>1, <3>2, <3>3
  <2> QED
    BY <2>3, <2>4, <2>5
<1>4. \A d \in Conns \ {c} : Elsewhere(d)
  BY <1>1, <1>2, <1>3, AloneOK
<1>5. SocketOK(c)'
  BY <1>1, ClosedAfter
<1> QED
  BY <1>4, <1>5, ElsewhereOK

LEMMA HearsSockets ==
    ASSUME TypeOK, \A d \in Conns : SocketOK(d), NEW c \in Conns, Hears(c)
    PROVE  \A d \in Conns : SocketOK(d)'
<1> DEFINE f == Head(inbox[c])
<1>1. /\ UNCHANGED <<sock, wire>> /\ inbox[c] # <<>> /\ h[c].watch
      /\ inbox' = [inbox EXCEPT ![c] = Tail(@)]
  BY DEF Hears
<1>2. /\ h'[c].pc = h[c].pc /\ h'[c].of = h[c].of /\ (h'[c].watch => h[c].watch)
      /\ h[c].pc = "run" /\ \A d \in Conns \ {c} : h'[d] = h[d]
  <2>1. h[c].pc = "run"
    BY <1>1 DEF SocketOK, ServingOK
  <2> QED
    BY <2>1, HearsType
<1>3. h[c].of \in Msgs /\ msg[h[c].of].at = "kept" /\ msg[h[c].of].on = c
  BY <1>2 DEF SocketOK, ServingOK, Serving
<1>4. /\ 1 \in 1..Len(inbox[c]) /\ f = inbox[c][1]
      /\ inbox[c] \in Seq(0..MaxAsks) /\ \A d \in Conns \ {c} : inbox'[d] = inbox[d]
  BY <1>1, DropsHead DEF TypeOK
<1>5. f # Stop => f \in Msgs /\ msg[f].at = "wire" /\ msg[f].on = c
  BY <1>4, InboxTyped DEF SocketOK, InboxOK
<1>6. \A n \in Msgs \ {f} : msg'[n] = msg[n]
  BY <1>5 DEF Hears, Now, TypeOK
<1>7. \A p \in Pages : \A n \in awaiting[p] : n # f \/ f = Stop => n \in awaiting'[p]
  BY DEF Hears
<1>8. f = Stop => UNCHANGED <<msg, awaiting>>
  BY DEF Hears
<1>9. f # Stop => UNCHANGED h
  BY DEF Hears
<1> HIDE DEF f
<1>10. \A n \in Msgs : msg[n].on # c \/ msg[n].at # "wire" => msg'[n] = msg[n]
  BY <1>5, <1>6, <1>8
<1>11. ASSUME NEW d \in Conns \ {c} PROVE Elsewhere(d)
  <2>1. \A p \in Pages : \A n \in awaiting[p] : msg[n].on = d => n \in awaiting'[p]
    BY <1>5, <1>7
  <2> QED
    BY <1>1, <1>2, <1>4, <1>10, <2>1 DEF Elsewhere
<1>12. /\ InboxOK(c)' /\ StopsLate(c)' /\ CleanFirst(c)'
       /\ \A i \in 1..Len(inbox'[c]) :
             /\ i + 1 \in 1..Len(inbox[c]) /\ inbox'[c][i] = inbox[c][i + 1]
             /\ inbox'[c][i] # Stop => /\ inbox'[c][i] \in Msgs
                                       /\ msg'[inbox'[c][i]] = msg[inbox'[c][i]]
  BY <1>1, <1>6, ReadsOn DEF f
<1>13. LinkOK(c)' /\ SockOK(c)'
  BY <1>1, <1>2 DEF SocketOK, LinkOK, SockOK
<1>14. ServingOK(c)'
  BY <1>2, <1>3, <1>10 DEF ServingOK
<1>15. StopHeard(c)'
  <2>1. \A i \in 1..Len(inbox'[c]) : inbox'[c][i] = Stop => msg[h[c].of].stop
    BY <1>2, <1>12 DEF SocketOK, StopHeard
  <2>2. h'[c].stop => msg[h[c].of].stop
    <3>1. CASE f = Stop
      BY <1>2, <1>4, <3>1 DEF SocketOK, StopHeard
    <3>2. CASE f # Stop
      BY <1>2, <1>9, <3>2 DEF SocketOK, StopHeard
    <3> QED
      BY <3>1, <3>2
  <2> QED
    BY <1>2, <1>3, <1>10, <2>1, <2>2 DEF StopHeard
<1>16. CleanIdle(c)'
  <2>1. \A i \in 1..Len(inbox'[c]) : inbox'[c][i] # Stop => ~msg'[inbox'[c][i]].clean
    BY <1>2, <1>12 DEF SocketOK, CleanIdle, Serving
  <2> QED
    BY <2>1 DEF CleanIdle
<1>17. AwaitOK(c)'
  <2> SUFFICES ASSUME NEW p \in Pages, sock[p] = c
               PROVE  /\ h[c].of \in awaiting'[p]
                      /\ \A i \in 1..Len(inbox'[c]) : inbox'[c][i] # Stop
                                                     => inbox'[c][i] \in awaiting'[p]
    BY <1>1, <1>2 DEF AwaitOK
  <2>1. h[c].of \in awaiting[p] /\ h[c].of # f
    BY <1>2, <1>3, <1>5, ChatAssumption DEF SocketOK, AwaitOK, Serving, Msgs, Stop
  <2>2. ASSUME NEW i \in 1..Len(inbox'[c]), inbox'[c][i] # Stop
        PROVE  inbox'[c][i] \in awaiting[p] /\ inbox'[c][i] # f
    <3>1. i + 1 \in 1..Len(inbox[c]) /\ inbox'[c][i] = inbox[c][i + 1] /\ i + 1 # 1
      BY <1>12
    <3>2. inbox[c][i + 1] \in awaiting[p]
      BY <2>2, <3>1 DEF SocketOK, AwaitOK
    <3>3. inbox[c][i + 1] # inbox[c][1]
      BY <1>4, <2>2, <3>1 DEF SocketOK, InboxOK
    <3> QED
      BY <1>4, <3>1, <3>2, <3>3
  <2> QED
    BY <1>7, <2>1, <2>2
<1>18. SocketOK(c)'
  BY <1>12, <1>13, <1>14, <1>15, <1>16, <1>17 DEF SocketOK
<1> QED
  BY <1>11, <1>18, ElsewhereOK

LEMMA SeveredSockets ==
    ASSUME TypeOK, \A d \in Conns : SocketOK(d), NEW c \in Conns, Severed(c),
           UNCHANGED <<h, awaiting>>,
           \A p \in Pages, d \in Conns : sock'[p] = d => sock[p] = d
    PROVE  \A d \in Conns : SocketOK(d)'
<1>1. \A d \in Conns : wire'[d] = "up" => wire[d] = "up"
  BY DEF Severed, TypeOK
<1>2. CASE UNCHANGED <<inbox, msg>>
  <2>1. \A d \in Conns : Elsewhere(d)
    BY <1>1, <1>2 DEF Elsewhere
  <2> QED
    BY <2>1, ElsewhereOK
<1>3. CASE inbox' = [inbox EXCEPT ![c] = <<>>] /\ msg' = Lost(Unread(c))
  <2>1. /\ inbox'[c] = <<>> /\ \A d \in Conns \ {c} : inbox'[d] = inbox[d]
    BY <1>3 DEF TypeOK
  <2>2. 1..Len(inbox'[c]) = {}
    BY <2>1
  <2>3. \A n \in Msgs : msg[n].on # c \/ msg[n].at # "wire" => msg'[n] = msg[n]
    BY <1>3, LostMessages
  <2>4. \A d \in Conns \ {c} : Elsewhere(d)
    BY <1>1, <2>1, <2>3 DEF Elsewhere
  <2>5. ServingOK(c)' /\ StopHeard(c)'
    BY <2>2, <2>3 DEF SocketOK, ServingOK, StopHeard, Serving
  <2>6. LinkOK(c)' /\ SockOK(c)'
    BY <1>1, <2>1 DEF SocketOK, LinkOK, SockOK
  <2>7. InboxOK(c)' /\ StopsLate(c)' /\ CleanFirst(c)' /\ CleanIdle(c)'
    BY <2>2 DEF InboxOK, StopsLate, CleanFirst, CleanIdle
  <2>8. AwaitOK(c)'
    BY <2>2 DEF SocketOK, AwaitOK
  <2>9. SocketOK(c)'
    BY <2>5, <2>6, <2>7, <2>8 DEF SocketOK
  <2> QED
    BY <2>4, <2>9, ElsewhereOK
<1> QED
  BY <1>2, <1>3 DEF Severed

LEMMA LooksSockets ==
    ASSUME TypeOK, \A d \in Conns : SocketOK(d), FramesAreTrue, NEW p \in Pages,
           Shows(p) \/ WatchdogFires(p)
    PROVE  \A d \in Conns : SocketOK(d)'
<1>1. UNCHANGED <<h, wire, inbox, msg>>
  BY DEF Shows, Receives, SeesClose, WatchdogFires, wires
<1>2. \A q \in Pages, d \in Conns : sock'[q] = d => sock[q] = d
  BY ChatAssumption DEF Shows, Receives, SeesClose, WatchdogFires, TypeOK
<1>3. \A q \in Pages : \A m \in awaiting[q] :
         msg[m].at \in {"wire", "kept"} => m \in awaiting'[q]
  <2>1. CASE Receives(p)
    <3> DEFINE c == sock[p]
               f == Head(outbox[c])
    <3>1. c \in Conns /\ outbox[c] # <<>>
      BY <2>1 DEF Receives, TypeOK
    <3>2. f = outbox[c][1] /\ 1 \in 1..Len(outbox[c])
      BY <3>1, EmptySeq, LenProperties DEF TypeOK
    <3>3. f.kind \in EndKinds => f.of \in Msgs /\ msg[f.of].at \in Ends
      BY <3>1, <3>2 DEF FramesAreTrue
    <3>4. awaiting' = [awaiting EXCEPT ![p] = IF f.kind \in EndKinds THEN @ \ {f.of} ELSE @]
      BY <2>1 DEF Receives, EndKinds
    <3> HIDE DEF f
    <3> QED
      BY <3>3, <3>4 DEF Ends, TypeOK
  <2>2. CASE SeesClose(p) \/ WatchdogFires(p)
    BY <2>2 DEF SeesClose, WatchdogFires
  <2> QED
    BY <2>1, <2>2 DEF Shows
<1>4. \A d \in Conns : Elsewhere(d)
  BY <1>1, <1>2, <1>3 DEF Elsewhere
<1> QED
  BY <1>4, ElsewhereOK

LEMMA ConnectsSockets ==
    ASSUME TypeOK, \A d \in Conns : SocketOK(d), NEW p \in Pages, Connects(p)
    PROVE  \A d \in Conns : SocketOK(d)'
<1>1. PICK c \in Conns : /\ h[c].pc = "none"
                         /\ sock' = [sock EXCEPT ![p] = c]
                         /\ wire' = [wire EXCEPT ![c] = "up"]
                         /\ h' = [h EXCEPT ![c] = Idle]
  BY DEF Connects
<1>2. awaiting' = [awaiting EXCEPT ![p] = {}] /\ UNCHANGED <<inbox, msg>>
  BY DEF Connects
<1>3. /\ h'[c] = Idle /\ \A d \in Conns \ {c} : h'[d] = h[d] /\ wire'[d] = wire[d]
      /\ sock'[p] = c /\ \A q \in Pages \ {p} : sock'[q] = sock[q]
      /\ \A q \in Pages \ {p} : awaiting'[q] = awaiting[q]
  BY <1>1, <1>2 DEF TypeOK
<1>4. \A d \in Conns \ {c} : Elsewhere(d)
  BY <1>2, <1>3 DEF Elsewhere
<1>5. inbox'[c] = <<>> /\ 1..Len(inbox'[c]) = {}
  BY <1>1, <1>2 DEF SocketOK, LinkOK
<1>6. h'[c].pc = "idle" /\ ~h'[c].stop /\ ~h'[c].watch
  BY <1>3, IdleOK
<1>7. LinkOK(c)' /\ SockOK(c)'
  BY <1>1, <1>3, <1>6 DEF SocketOK, LinkOK, SockOK
<1>8. ServingOK(c)' /\ StopHeard(c)' /\ AwaitOK(c)'
  BY <1>5, <1>6 DEF ServingOK, StopHeard, AwaitOK, Serving
<1>9. InboxOK(c)' /\ StopsLate(c)' /\ CleanFirst(c)' /\ CleanIdle(c)'
  BY <1>5 DEF InboxOK, StopsLate, CleanFirst, CleanIdle
<1>10. SocketOK(c)'
  BY <1>7, <1>8, <1>9 DEF SocketOK
<1> QED
  BY <1>4, <1>10, ElsewhereOK

\* One more frame to read.
LEMMA Arrives ==
    ASSUME TypeOK, NEW c \in Conns, NEW f \in 0..MaxAsks,
           inbox' = [inbox EXCEPT ![c] = Append(@, f)]
    PROVE  /\ Len(inbox[c]) \in Nat /\ Len(inbox'[c]) = Len(inbox[c]) + 1
           /\ inbox'[c][Len(inbox[c]) + 1] = f
           /\ \A i \in 1..Len(inbox[c]) : inbox'[c][i] = inbox[c][i]
           /\ \A d \in Conns \ {c} : inbox'[d] = inbox[d]
<1>1. /\ inbox[c] \in Seq(0..MaxAsks) /\ inbox'[c] = Append(inbox[c], f)
      /\ \A d \in Conns \ {c} : inbox'[d] = inbox[d]
  BY DEF TypeOK
<1>2. /\ Len(Append(inbox[c], f)) = Len(inbox[c]) + 1
      /\ Append(inbox[c], f)[Len(inbox[c]) + 1] = f
      /\ \A i \in 1..Len(inbox[c]) : Append(inbox[c], f)[i] = inbox[c][i]
  BY <1>1, AppendProperties
<1> QED
  BY <1>1, <1>2, LenProperties

LEMMA TypesSockets ==
    ASSUME TypeOK, \A d \in Conns : SocketOK(d), NewOK, NEW p \in Pages, Types(p)
    PROVE  \A d \in Conns : SocketOK(d)'
<1>0. sock[p] \in Conns /\ asked + 1 \in Msgs
  BY ChatAssumption DEF Types, TypeOK, Msgs
<1>a. PICK c \in Conns, m \in Msgs : c = sock[p] /\ m = asked + 1
  BY <1>0
<1>1. /\ c \in Conns /\ m \in Msgs /\ m \in 0..MaxAsks /\ m # Stop
      /\ msg[m].at = "new" /\ UNCHANGED <<sock, wire, h>>
  BY <1>a, ChatAssumption DEF Types, TypeOK, NewOK, Msgs, Stop
<1>2. awaiting' = [awaiting EXCEPT ![p] = @ \union {m}]
  BY <1>a DEF Types
<1>3. /\ \A n \in Msgs \ {m} : msg'[n] = msg[n]
      /\ msg'[m] = [at |-> IF wire[c] = "up" THEN "wire" ELSE "lost", on |-> c,
                    clean |-> awaiting[p] = {}, stop |-> FALSE, broken |-> FALSE]
  BY <1>a, <1>1 DEF Types, TypeOK
<1>4. inbox' = IF wire[c] = "up" THEN [inbox EXCEPT ![c] = Append(@, m)] ELSE inbox
  BY <1>a DEF Types
<1>5. \A q \in Pages : awaiting[q] \subseteq awaiting'[q]
  BY <1>2 DEF TypeOK
<1>6. ASSUME NEW d \in Conns, inbox'[d] = inbox[d] PROVE Elsewhere(d)
  BY <1>1, <1>3, <1>5, <1>6 DEF Elsewhere
<1>7. CASE wire[c] # "up"
  BY <1>4, <1>6, <1>7, ElsewhereOK
<1>8. CASE wire[c] = "up"
  <2> DEFINE last == Len(inbox[c]) + 1
  <2>1. /\ Len(inbox[c]) \in Nat /\ Len(inbox'[c]) = last
        /\ inbox'[c][last] = m
        /\ \A i \in 1..Len(inbox[c]) : inbox'[c][i] = inbox[c][i]
        /\ \A d \in Conns \ {c} : inbox'[d] = inbox[d]
    <3>1. inbox' = [inbox EXCEPT ![c] = Append(@, m)]
      BY <1>4, <1>8
    <3> QED
      BY <1>1, <3>1, Arrives
  <2>2. \A i \in 1..Len(inbox'[c]) : i \in 1..Len(inbox[c]) \/ i = last
    BY <2>1
  <2>3. \A i \in 1..Len(inbox[c]) : inbox[c][i] # Stop =>
           /\ inbox[c][i] \in Msgs \ {m} /\ msg'[inbox[c][i]] = msg[inbox[c][i]]
           /\ msg[inbox[c][i]].at = "wire" /\ msg[inbox[c][i]].on = c
    BY <1>1, <1>3, InboxTyped DEF SocketOK, InboxOK
  <2>4. msg'[m].at = "wire" /\ msg'[m].on = c
    BY <1>3, <1>8
  <2>5. h[c].pc \in Serving => h[c].of \in Msgs /\ h[c].of # m /\ msg'[h[c].of] = msg[h[c].of]
    BY <1>1, <1>3 DEF SocketOK, ServingOK
  <2>6. msg'[m].clean => awaiting[p] = {}
    <3>1. msg'[m].clean = (awaiting[p] = {})
      BY <1>3
    <3> QED
      BY <3>1
  <2>7. sock[p] = c
    BY <1>a
  <2> HIDE DEF last
  <2>8. LinkOK(c)' /\ SockOK(c)'
    BY <1>1, <1>8 DEF SocketOK, LinkOK, SockOK
  <2>9. ServingOK(c)'
    BY <1>1, <2>5 DEF SocketOK, ServingOK
  <2>10. InboxOK(c)'
    <3>1. \A i \in 1..Len(inbox'[c]) : inbox'[c][i] # Stop =>
             msg'[inbox'[c][i]].at = "wire" /\ msg'[inbox'[c][i]].on = c
      BY <2>1, <2>2, <2>3, <2>4
    <3>2. ASSUME NEW i \in 1..Len(inbox'[c]), inbox'[c][i] # Stop,
                 NEW j \in 1..Len(inbox'[c]), inbox'[c][j] = inbox'[c][i]
          PROVE  j = i
      <4>1. CASE i = last
        BY <2>1, <2>2, <2>3, <3>2, <4>1
      <4>2. CASE j = last
        BY <2>1, <2>2, <2>3, <3>2, <4>2
      <4>3. CASE i \in 1..Len(inbox[c]) /\ j \in 1..Len(inbox[c])
        BY <2>1, <3>2, <4>3 DEF SocketOK, InboxOK
      <4> QED
        BY <2>2, <4>1, <4>2, <4>3
    <3> QED
      BY <3>1, <3>2 DEF InboxOK
  <2>11. StopsLate(c)'
    <3> SUFFICES ASSUME NEW i \in 1..Len(inbox'[c]), NEW j \in 1..Len(inbox'[c]), j < i,
                        inbox'[c][i] = Stop, inbox'[c][j] # Stop
                 PROVE  msg'[inbox'[c][j]].stop
      BY DEF StopsLate
    <3>1. i \in 1..Len(inbox[c])
      BY <1>1, <2>1, <2>2
    <3>2. j \in 1..Len(inbox[c])
      BY <2>1, <3>1
    <3> QED
      BY <2>1, <2>3, <3>1, <3>2 DEF SocketOK, StopsLate
  <2>12. StopHeard(c)'
    BY <1>1, <2>1, <2>2, <2>5 DEF SocketOK, StopHeard, Serving
  <2>13. CleanFirst(c)'
    <3> SUFFICES ASSUME NEW i \in 1..Len(inbox'[c]), NEW j \in 1..Len(inbox'[c]), j < i,
                        inbox'[c][i] # Stop, msg'[inbox'[c][i]].clean
                 PROVE  inbox'[c][j] = Stop
      BY DEF CleanFirst
    <3>1. j \in 1..Len(inbox[c])
      BY <2>1 DEF last
    <3>2. CASE i = last
      <4>1. awaiting[p] = {}
        BY <2>1, <2>6, <3>2
      <4> QED
        BY <2>1, <2>7, <3>1, <4>1 DEF SocketOK, AwaitOK
    <3>3. CASE i \in 1..Len(inbox[c])
      BY <2>1, <2>3, <3>1, <3>3 DEF SocketOK, CleanFirst
    <3> QED
      BY <2>2, <3>2, <3>3
  <2>14. CleanIdle(c)'
    <3> SUFFICES ASSUME NEW i \in 1..Len(inbox'[c]), inbox'[c][i] # Stop,
                        msg'[inbox'[c][i]].clean
                 PROVE  h[c].pc \notin Serving
      BY <1>1 DEF CleanIdle
    <3>1. CASE i = last
      <4>1. awaiting[p] = {}
        BY <2>1, <2>6, <3>1
      <4> QED
        BY <2>7, <4>1 DEF SocketOK, AwaitOK
    <3>2. CASE i \in 1..Len(inbox[c])
      BY <2>1, <2>3, <3>2 DEF SocketOK, CleanIdle
    <3> QED
      BY <2>2, <3>1, <3>2
  <2>15. AwaitOK(c)'
    <3>1. \A q \in Pages : sock[q] = c => q = p
      BY <1>1, <2>7 DEF SocketOK, SockOK
    <3>2. m \in awaiting'[p]
      BY <1>2 DEF TypeOK
    <3>3. h[c].pc \in Serving => h[c].of \in awaiting'[p]
      BY <1>5, <2>7 DEF SocketOK, AwaitOK
    <3>4. \A i \in 1..Len(inbox[c]) : inbox[c][i] # Stop => inbox[c][i] \in awaiting'[p]
      BY <1>5, <2>7 DEF SocketOK, AwaitOK
    <3> QED
      BY <1>1, <2>1, <2>2, <3>1, <3>2, <3>3, <3>4 DEF AwaitOK
  <2>16. SocketOK(c)'
    BY <2>8, <2>9, <2>10, <2>11, <2>12, <2>13, <2>14, <2>15 DEF SocketOK
  <2> QED
    BY <1>6, <2>1, <2>16, ElsewhereOK
<1> QED
  BY <1>7, <1>8

LEMMA ClicksStopSockets ==
    ASSUME TypeOK, \A d \in Conns : SocketOK(d), NEW p \in Pages, ClicksStop(p)
    PROVE  \A d \in Conns : SocketOK(d)'
<1>0. sock[p] \in Conns
  BY DEF ClicksStop, TypeOK
<1> PICK c \in Conns : c = sock[p]
  BY <1>0
<1> DEFINE last == Len(inbox[c]) + 1
<1>1. c \in Conns /\ UNCHANGED <<sock, awaiting, wire, h>>
  BY DEF ClicksStop, TypeOK, pages
<1>2. inbox' = IF wire[c] = "up" THEN [inbox EXCEPT ![c] = Append(@, Stop)] ELSE inbox
  BY DEF ClicksStop
<1>3. msg' = [m \in Msgs |-> IF msg[m].on = c /\ msg[m].at \notin Ends
                              THEN [msg[m] EXCEPT !.stop = TRUE] ELSE msg[m]]
  BY DEF ClicksStop
<1>4. \A m \in Msgs : msg[m].on # c => msg'[m] = msg[m]
  BY <1>3
<1>5. \A m \in Msgs : msg[m].on = c /\ msg[m].at \in {"wire", "kept"} =>
         /\ msg'[m].at = msg[m].at /\ msg'[m].on = c /\ msg'[m].clean = msg[m].clean
         /\ msg'[m].stop
  <2> SUFFICES ASSUME NEW m \in Msgs, msg[m].on = c, msg[m].at \in {"wire", "kept"}
               PROVE  /\ msg'[m].at = msg[m].at /\ msg'[m].on = c
                      /\ msg'[m].clean = msg[m].clean /\ msg'[m].stop
    OBVIOUS
  <2>1. msg[m] \in Message
    BY DEF TypeOK
  <2>2. msg'[m] = [msg[m] EXCEPT !.stop = TRUE]
    BY <1>3 DEF Ends
  <2> QED
    BY <2>1, <2>2 DEF Message
<1>6. Len(inbox[c]) \in Nat
  BY <1>1, LenProperties DEF TypeOK
<1>7. /\ \A d \in Conns \ {c} : inbox'[d] = inbox[d]
      /\ \A i \in 1..Len(inbox'[c]) :
           \/ i \in 1..Len(inbox[c]) /\ inbox'[c][i] = inbox[c][i]
           \/ i = last /\ inbox'[c][i] = Stop
  <2>1. CASE wire[c] = "up"
    <3>1. Stop \in 0..MaxAsks
      BY ChatAssumption DEF Stop
    <3>2. /\ Len(inbox'[c]) = last /\ inbox'[c][last] = Stop
          /\ \A i \in 1..Len(inbox[c]) : inbox'[c][i] = inbox[c][i]
          /\ \A d \in Conns \ {c} : inbox'[d] = inbox[d]
      BY <1>1, <1>2, <2>1, <3>1, Arrives
    <3>3. \A i \in 1..Len(inbox'[c]) : i \in 1..Len(inbox[c]) \/ i = last
      BY <1>6, <3>2
    <3> QED
      BY <3>2, <3>3
  <2>2. CASE wire[c] # "up"
    BY <1>2, <2>2
  <2> QED
    BY <2>1, <2>2
<1> HIDE DEF last
<1>8. \A i \in 1..Len(inbox'[c]) : inbox'[c][i] # Stop =>
         /\ i \in 1..Len(inbox[c]) /\ inbox'[c][i] = inbox[c][i]
         /\ inbox[c][i] \in Msgs
         /\ msg'[inbox[c][i]].at = "wire" /\ msg'[inbox[c][i]].on = c
         /\ msg'[inbox[c][i]].clean = msg[inbox[c][i]].clean
         /\ msg'[inbox[c][i]].stop
  <2>1. \A i \in 1..Len(inbox[c]) : inbox[c][i] # Stop =>
           /\ inbox[c][i] \in Msgs
           /\ msg[inbox[c][i]].at = "wire" /\ msg[inbox[c][i]].on = c
    BY InboxTyped DEF SocketOK, InboxOK
  <2> SUFFICES ASSUME NEW i \in 1..Len(inbox'[c]), inbox'[c][i] # Stop
               PROVE  /\ i \in 1..Len(inbox[c]) /\ inbox'[c][i] = inbox[c][i]
                      /\ inbox[c][i] \in Msgs
                      /\ msg'[inbox[c][i]].at = "wire" /\ msg'[inbox[c][i]].on = c
                      /\ msg'[inbox[c][i]].clean = msg[inbox[c][i]].clean
                      /\ msg'[inbox[c][i]].stop
    OBVIOUS
  <2>2. i \in 1..Len(inbox[c]) /\ inbox'[c][i] = inbox[c][i]
    BY <1>7
  <2> QED
    BY <1>5, <2>1, <2>2
<1>9. h[c].pc \in Serving =>
         /\ h[c].of \in Msgs
         /\ msg'[h[c].of].at = "kept" /\ msg'[h[c].of].on = c /\ msg'[h[c].of].stop
  BY <1>1, <1>5 DEF SocketOK, ServingOK
<1>10. \A d \in Conns \ {c} : Elsewhere(d)
  BY <1>1, <1>4, <1>7, AloneOK
<1>11. LinkOK(c)' /\ SockOK(c)'
  BY <1>1, <1>2 DEF SocketOK, LinkOK, SockOK
<1>12. ServingOK(c)'
  BY <1>1, <1>9 DEF SocketOK, ServingOK
<1>13. InboxOK(c)'
  <2> SUFFICES ASSUME NEW i \in 1..Len(inbox'[c]), inbox'[c][i] # Stop,
                      NEW j \in 1..Len(inbox'[c]), inbox'[c][j] = inbox'[c][i]
               PROVE  j = i
    BY <1>8 DEF InboxOK
  <2>1. /\ i \in 1..Len(inbox[c]) /\ j \in 1..Len(inbox[c])
        /\ inbox[c][j] = inbox[c][i] /\ inbox[c][i] # Stop
    BY <1>8
  <2> QED
    BY <1>1, <2>1 DEF SocketOK, InboxOK
<1>14. StopsLate(c)'
  BY <1>8 DEF StopsLate
<1>15. StopHeard(c)'
  BY <1>1, <1>9 DEF StopHeard, Serving
<1>16. CleanFirst(c)'
  <2> SUFFICES ASSUME NEW i \in 1..Len(inbox'[c]), NEW j \in 1..Len(inbox'[c]), j < i,
                      inbox'[c][i] # Stop, msg'[inbox'[c][i]].clean
               PROVE  inbox'[c][j] = Stop
    BY DEF CleanFirst
  <2>1. i \in 1..Len(inbox[c]) /\ inbox[c][i] # Stop /\ msg[inbox[c][i]].clean
    BY <1>8
  <2>2. j \in 1..Len(inbox[c])
    BY <1>6, <2>1
  <2>3. inbox[c][j] = Stop
    BY <1>1, <2>1, <2>2 DEF SocketOK, CleanFirst
  <2> QED
    BY <1>8, <2>3
<1>17. CleanIdle(c)'
  BY <1>1, <1>8 DEF SocketOK, CleanIdle
<1>18. AwaitOK(c)'
  BY <1>1, <1>8 DEF SocketOK, AwaitOK
<1>19. SocketOK(c)'
  BY <1>11, <1>12, <1>13, <1>14, <1>15, <1>16, <1>17, <1>18 DEF SocketOK
<1> QED
  BY <1>10, <1>19, ElsewhereOK

-----------------------------------------------------------------------------
(* What became of the messages.                                            *)

\* A step that moves messages on, and drops none that the handler would have read.
Quiet == \A m \in Msgs :
    \/ msg'[m] = msg[m]
    \/ /\ msg[m].at \in {"wire", "kept"}
       /\ \E where \in {"kept"} \union (Ends \ {"swallowed"}) :
             msg'[m] = [msg[m] EXCEPT !.at = where]

Settled == \A m \in Msgs : msg[m].at \in Ends => msg'[m].at \in Ends

MessagesOK == NewOK /\ OnlyStopBreaks /\ TypedAfterEndIsTaken

LEMMA QuietOK ==
    ASSUME TypeOK, MessagesOK, Quiet, asked' = asked
    PROVE  MessagesOK' /\ Settled
<1> SUFFICES ASSUME NEW m \in Msgs
             PROVE  /\ m > asked => msg'[m].at = "new"
                    /\ msg'[m].broken => msg'[m].stop
                    /\ msg'[m].at = "swallowed" => ~msg'[m].clean
                    /\ msg[m].at \in Ends => msg'[m].at \in Ends
  BY DEF MessagesOK, NewOK, OnlyStopBreaks, TypedAfterEndIsTaken, Settled
<1>1. CASE msg'[m] = msg[m]
  BY <1>1 DEF MessagesOK, NewOK, OnlyStopBreaks, TypedAfterEndIsTaken
<1>2. CASE msg[m].at \in {"wire", "kept"} /\ msg'[m] # msg[m]
  <2>1. PICK where \in {"kept"} \union (Ends \ {"swallowed"}) :
           msg'[m] = [msg[m] EXCEPT !.at = where]
    BY <1>2 DEF Quiet
  <2>2. msg[m] \in Message
    BY DEF TypeOK
  <2>3. /\ msg'[m].at = where /\ msg'[m].broken = msg[m].broken
        /\ msg'[m].stop = msg[m].stop
    BY <2>1, <2>2 DEF Message
  <2>4. msg'[m].broken => msg'[m].stop
    BY <2>3 DEF MessagesOK, OnlyStopBreaks
  <2>5. ~(m > asked) /\ msg[m].at \notin Ends
    BY <1>2 DEF MessagesOK, NewOK, Ends
  <2>6. msg'[m].at # "swallowed"
    BY <2>3
  <2> QED
    BY <2>4, <2>5, <2>6
<1> QED
  BY <1>1, <1>2 DEF Quiet

LEMMA LostQuiet ==
    ASSUME TypeOK, NEW c \in Conns, msg' = Lost(Unread(c))
    PROVE  Quiet
<1> SUFFICES ASSUME NEW m \in Msgs, msg'[m] # msg[m]
             PROVE  /\ msg[m].at \in {"wire", "kept"}
                    /\ \E where \in {"kept"} \union (Ends \ {"swallowed"}) :
                          msg'[m] = [msg[m] EXCEPT !.at = where]
  BY DEF Quiet
<1>1. msg[m].at = "wire" /\ msg'[m] = [msg[m] EXCEPT !.at = "lost"]
  BY LostMessages
<1>2. "lost" \in {"kept"} \union (Ends \ {"swallowed"})
  BY DEF Ends
<1> QED
  BY <1>1, <1>2

\* The handler ends with the message m.
LEMMA EndQuiet ==
    ASSUME TypeOK, NEW c \in Conns, NEW m \in Msgs, NEW where \in Ends \ {"swallowed"},
           msg[m].at \in {"wire", "kept"},
           msg'[m] = [Lost(Unread(c))[m] EXCEPT !.at = where],
           \A n \in Msgs \ {m} : msg'[n] = Lost(Unread(c))[n]
    PROVE  Quiet /\ msg'[m].at = where
<1>1. Lost(Unread(c)) \in [Msgs -> Message] /\ msg[m] \in Message
  BY LostOK DEF TypeOK
<1>2. /\ msg'[m] = [Lost(Unread(c))[m] EXCEPT !.at = where]
      /\ \A n \in Msgs \ {m} : msg'[n] = Lost(Unread(c))[n]
  OBVIOUS
<1>3. msg'[m] = [msg[m] EXCEPT !.at = where] /\ msg'[m].at = where
  <2>1. CASE m \in Unread(c)
    <3>1. Lost(Unread(c))[m] = [msg[m] EXCEPT !.at = "lost"]
      BY <2>1, LostMessages
    <3>2. [[msg[m] EXCEPT !.at = "lost"] EXCEPT !.at = where] = [msg[m] EXCEPT !.at = where]
      BY <1>1 DEF Message
    <3> QED
      BY <1>1, <1>2, <3>1, <3>2 DEF Message
  <2>2. CASE m \notin Unread(c)
    BY <1>1, <1>2, <2>2, LostMessages DEF Message
  <2> QED
    BY <2>1, <2>2
<1>4. ASSUME NEW n \in Msgs \ {m}
      PROVE  \/ msg'[n] = msg[n]
             \/ msg[n].at = "wire" /\ msg'[n] = [msg[n] EXCEPT !.at = "lost"]
  BY <1>2, LostMessages
<1> QED
  BY <1>3, <1>4 DEF Quiet, Ends

LEMMA NowQuiet ==
    ASSUME TypeOK, NEW m \in Msgs, NEW where \in {"kept"} \union (Ends \ {"swallowed"}),
           msg[m].at \in {"wire", "kept"}, msg' = Now(m, where)
    PROVE  Quiet /\ msg'[m].at = where
<1>1. msg'[m] = [msg[m] EXCEPT !.at = where] /\ \A n \in Msgs \ {m} : msg'[n] = msg[n]
  BY NowElse DEF TypeOK
<1>2. msg[m] \in Message
  BY DEF TypeOK
<1> QED
  BY <1>1, <1>2 DEF Quiet, Message

\* The first frame a handler reads is on its way; what it serves is kept.
LEMMA Served ==
    ASSUME TypeOK, NEW c \in Conns, SocketOK(c)
    PROVE  /\ inbox[c] # <<>> /\ Head(inbox[c]) # Stop =>
                Head(inbox[c]) \in Msgs /\ msg[Head(inbox[c])].at = "wire"
           /\ h[c].pc \in Serving => h[c].of \in Msgs /\ msg[h[c].of].at = "kept"
<1>1. ASSUME inbox[c] # <<>>, Head(inbox[c]) # Stop
      PROVE  Head(inbox[c]) \in Msgs /\ msg[Head(inbox[c])].at = "wire"
  <2>1. Head(inbox[c]) = inbox[c][1] /\ 1 \in 1..Len(inbox[c])
    BY <1>1, EmptySeq, LenProperties DEF TypeOK
  <2> QED
    BY <1>1, <2>1, InboxTyped DEF SocketOK, InboxOK
<1> QED
  BY <1>1 DEF SocketOK, ServingOK

-----------------------------------------------------------------------------
(* The frames.                                                             *)

\* What the frame f says is so after the step.
TrueFrame(f) == f.kind \in EndKinds => f.of \in Msgs /\ msg'[f.of].at \in Ends

LEMMA FramesKept ==
    ASSUME FramesAreTrue, Settled,
           \A d \in Conns : \A i \in 1..Len(outbox'[d]) :
              \/ \E j \in 1..Len(outbox[d]) : outbox'[d][i] = outbox[d][j]
              \/ TrueFrame(outbox'[d][i])
    PROVE  FramesAreTrue'
<1> SUFFICES ASSUME NEW d \in Conns, NEW i \in 1..Len(outbox'[d]),
                    outbox'[d][i].kind \in EndKinds
             PROVE  outbox'[d][i].of \in Msgs /\ msg'[outbox'[d][i].of].at \in Ends
  BY DEF FramesAreTrue
<1>1. CASE \E j \in 1..Len(outbox[d]) : outbox'[d][i] = outbox[d][j]
  BY <1>1 DEF FramesAreTrue, Settled
<1>2. CASE TrueFrame(outbox'[d][i])
  BY <1>2 DEF TrueFrame
<1> QED
  BY <1>1, <1>2

LEMMA PostsFrames ==
    ASSUME TypeOK, FramesAreTrue, Settled,
           NEW c \in Conns, NEW ok, NEW first \in Frame, NEW second \in Frame,
           \/ Posts(c, ok, <<first>>)
           \/ Posts(c, ok, <<first, second>>),
           TrueFrame(first), TrueFrame(second)
    PROVE  FramesAreTrue'
<1>1. ASSUME NEW frames \in {<<first>>, <<first, second>>}, Posts(c, ok, frames),
             NEW d \in Conns, NEW i \in 1..Len(outbox'[d])
      PROVE  \/ \E j \in 1..Len(outbox[d]) : outbox'[d][i] = outbox[d][j]
             \/ outbox'[d][i] = first \/ outbox'[d][i] = second
  <2>1. CASE outbox'[d] = outbox[d]
    BY <2>1
  <2>2. CASE outbox'[d] = outbox[d] \o frames
    <3>1. outbox[d] \in Seq(Frame) /\ frames \in Seq(Frame)
      <4>1. <<first>> \in Seq(Frame) /\ <<first, second>> \in Seq(Frame)
        OBVIOUS
      <4>2. frames \in Seq(Frame)
        BY <1>1, <4>1
      <4> QED
        BY <4>2 DEF TypeOK
    <3>2. /\ Len(outbox'[d]) = Len(outbox[d]) + Len(frames)
          /\ outbox'[d][i] = IF i <= Len(outbox[d]) THEN outbox[d][i]
                             ELSE frames[i - Len(outbox[d])]
      BY <2>2, <3>1, ConcatProperties
    <3>3. Len(outbox[d]) \in Nat /\ Len(frames) \in 1..2
      BY <1>1, <3>1, LenProperties
    <3>4. CASE i <= Len(outbox[d])
      BY <3>2, <3>3, <3>4
    <3>5. CASE ~(i <= Len(outbox[d]))
      <4>1. i - Len(outbox[d]) \in 1..Len(frames)
        BY <3>2, <3>3, <3>5
      <4>2. outbox'[d][i] = frames[i - Len(outbox[d])]
        BY <3>2, <3>5
      <4>3. \A k \in 1..Len(frames) : frames[k] = first \/ frames[k] = second
        BY <1>1
      <4> QED
        BY <4>1, <4>2, <4>3
    <3> QED
      BY <3>4, <3>5
  <2>3. outbox'[d] = outbox[d] \/ outbox'[d] = outbox[d] \o frames
    BY <1>1 DEF Posts, TypeOK
  <2> QED
    BY <2>1, <2>2, <2>3
<1>2. \A d \in Conns : \A i \in 1..Len(outbox'[d]) :
         \/ \E j \in 1..Len(outbox[d]) : outbox'[d][i] = outbox[d][j]
         \/ outbox'[d][i] = first \/ outbox'[d][i] = second
  BY <1>1
<1>3. \A d \in Conns : \A i \in 1..Len(outbox'[d]) :
         \/ \E j \in 1..Len(outbox[d]) : outbox'[d][i] = outbox[d][j]
         \/ TrueFrame(outbox'[d][i])
  BY <1>2 DEF TrueFrame
<1> QED
  BY <1>3, FramesKept

LEMMA FansFrames ==
    ASSUME TypeOK, FramesAreTrue, Settled, NEW kind \in Kinds \ EndKinds, Fans(kind)
    PROVE  FramesAreTrue'
<1>1. F(kind, 0) \in Frame /\ F(kind, 0).kind \notin EndKinds
  BY DEF F, Frame
<1>2. ASSUME NEW d \in Conns, NEW i \in 1..Len(outbox'[d])
      PROVE  \/ \E j \in 1..Len(outbox[d]) : outbox'[d][i] = outbox[d][j]
             \/ outbox'[d][i] = F(kind, 0)
  <2>1. outbox[d] \in Seq(Frame) /\ Len(outbox[d]) \in Nat
    BY LenProperties DEF TypeOK
  <2>2. CASE outbox'[d] = outbox[d]
    BY <2>2
  <2>3. CASE outbox'[d] = Append(outbox[d], F(kind, 0))
    <3>1. /\ Len(outbox'[d]) = Len(outbox[d]) + 1
          /\ outbox'[d][Len(outbox[d]) + 1] = F(kind, 0)
          /\ \A j \in 1..Len(outbox[d]) : outbox'[d][j] = outbox[d][j]
      BY <1>1, <2>1, <2>3, AppendProperties
    <3> QED
      BY <2>1, <3>1
  <2> QED
    BY <2>2, <2>3 DEF Fans
<1>3. \A d \in Conns : \A i \in 1..Len(outbox'[d]) :
         \/ \E j \in 1..Len(outbox[d]) : outbox'[d][i] = outbox[d][j]
         \/ TrueFrame(outbox'[d][i])
  BY <1>1, <1>2 DEF TrueFrame
<1> QED
  BY <1>3, FramesKept

LEMMA FewerFrames ==
    ASSUME TypeOK, FramesAreTrue, Settled, NEW c \in Conns,
           \/ UNCHANGED outbox
           \/ outbox' = [outbox EXCEPT ![c] = <<>>]
           \/ outbox[c] # <<>> /\ outbox' = [outbox EXCEPT ![c] = Tail(@)]
    PROVE  FramesAreTrue'
<1>1. ASSUME NEW d \in Conns, NEW i \in 1..Len(outbox'[d])
      PROVE  \E j \in 1..Len(outbox[d]) : outbox'[d][i] = outbox[d][j]
  <2>1. CASE outbox'[d] = outbox[d]
    BY <2>1
  <2>2. CASE outbox'[d] = <<>>
    BY <2>2
  <2>3. CASE outbox[d] # <<>> /\ outbox'[d] = Tail(outbox[d])
    <3>1. outbox[d] \in Seq(Frame) /\ Len(outbox[d]) \in Nat
      BY LenProperties DEF TypeOK
    <3>2. /\ Len(outbox'[d]) = Len(outbox[d]) - 1
          /\ \A j \in 1..Len(outbox'[d]) : outbox'[d][j] = outbox[d][j + 1]
      BY <2>3, <3>1, HeadTailProperties
    <3>3. i + 1 \in 1..Len(outbox[d])
      BY <3>1, <3>2
    <3> QED
      BY <3>2, <3>3
  <2> QED
    BY <2>1, <2>2, <2>3 DEF TypeOK
<1> QED
  BY <1>1, FramesKept

\* The messages and the frames, step by step.
TurnsOK == MessagesOK /\ FramesAreTrue

LEMMA TurnsPages ==
    ASSUME TypeOK, \A d \in Conns : SocketOK(d), TurnsOK, NEW p \in Pages,
           Connects(p) \/ Types(p) \/ ClicksStop(p) \/ Shows(p) \/ WatchdogFires(p) \/ Reloads(p)
    PROVE  TurnsOK'
<1>1. CASE Types(p)
  <2>1. sock[p] \in Conns /\ asked + 1 \in Msgs /\ asked \in Nat
    BY <1>1, ChatAssumption DEF Types, TypeOK, Msgs
  <2>2. PICK c \in Conns, m \in Msgs : c = sock[p] /\ m = asked + 1
    BY <2>1
  <2>3. asked' = m /\ UNCHANGED outbox
    BY <1>1, <2>2 DEF Types
  <2>4. /\ \A n \in Msgs \ {m} : msg'[n] = msg[n]
        /\ msg'[m] = [at |-> IF wire[c] = "up" THEN "wire" ELSE "lost", on |-> c,
                      clean |-> awaiting[p] = {}, stop |-> FALSE, broken |-> FALSE]
    BY <1>1, <2>2 DEF Types, TypeOK
  <2>5. msg'[m].at \in {"wire", "lost"} /\ msg'[m].broken = FALSE
    BY <2>4
  <2>6. msg[m].at = "new"
    BY <2>1, <2>2 DEF TurnsOK, MessagesOK, NewOK
  <2>7. MessagesOK'
    <3>1. NewOK'
      BY <2>1, <2>2, <2>3, <2>4 DEF TurnsOK, MessagesOK, NewOK, Msgs
    <3>2. OnlyStopBreaks'
      BY <2>4, <2>5 DEF TurnsOK, MessagesOK, OnlyStopBreaks
    <3>3. TypedAfterEndIsTaken'
      BY <2>4, <2>5 DEF TurnsOK, MessagesOK, TypedAfterEndIsTaken
    <3> QED
      BY <3>1, <3>2, <3>3 DEF MessagesOK
  <2>8. Settled
    BY <2>4, <2>6 DEF Settled, Ends
  <2> QED
    BY <2>2, <2>3, <2>7, <2>8, FewerFrames DEF TurnsOK
<1>2. CASE ClicksStop(p)
  <2>1. UNCHANGED <<asked, outbox>> /\ sock[p] \in Conns
    BY <1>2 DEF ClicksStop, TypeOK
  <2>2. \A m \in Msgs : /\ msg'[m].at = msg[m].at /\ msg'[m].clean = msg[m].clean
                        /\ msg'[m].broken = msg[m].broken
                        /\ (msg[m].stop => msg'[m].stop)
    <3> SUFFICES ASSUME NEW m \in Msgs
                 PROVE  /\ msg'[m].at = msg[m].at /\ msg'[m].clean = msg[m].clean
                        /\ msg'[m].broken = msg[m].broken
                        /\ (msg[m].stop => msg'[m].stop)
      OBVIOUS
    <3>1. msg[m] \in Message
      BY DEF TypeOK
    <3>2. msg'[m] = msg[m] \/ msg'[m] = [msg[m] EXCEPT !.stop = TRUE]
      BY <1>2 DEF ClicksStop
    <3> QED
      BY <3>1, <3>2 DEF Message
  <2>3. NewOK' /\ OnlyStopBreaks' /\ TypedAfterEndIsTaken' /\ Settled
    BY <2>1, <2>2 DEF TurnsOK, MessagesOK, NewOK, OnlyStopBreaks, TypedAfterEndIsTaken, Settled
  <2> QED
    BY <2>1, <2>3, FewerFrames DEF TurnsOK, MessagesOK
<1>3. CASE Connects(p) \/ SeesClose(p) \/ WatchdogFires(p)
  <2>1. UNCHANGED <<asked, msg, outbox>>
    BY <1>3 DEF Connects, SeesClose, WatchdogFires, wires
  <2> QED
    BY <2>1 DEF TurnsOK, MessagesOK, NewOK, OnlyStopBreaks, TypedAfterEndIsTaken,
                FramesAreTrue
<1>4. CASE Receives(p)
  <2>1. UNCHANGED <<asked, msg>> /\ sock[p] \in Conns
    BY <1>4 DEF Receives, TypeOK
  <2>2. Quiet
    BY <2>1 DEF Quiet
  <2>3. MessagesOK' /\ Settled
    BY <2>1, <2>2, QuietOK DEF TurnsOK
  <2>4. FramesAreTrue'
    BY <1>4, <2>1, <2>3, FewerFrames DEF Receives, TurnsOK
  <2> QED
    BY <2>3, <2>4 DEF TurnsOK
<1>5. CASE Reloads(p)
  <2>1. asked' = asked /\ sock[p] \in Conns /\ Severed(sock[p])
    BY <1>5 DEF Reloads, TypeOK
  <2>2. Quiet
    BY <2>1, LostQuiet DEF Severed, Quiet
  <2>3. MessagesOK' /\ Settled
    BY <2>1, <2>2, QuietOK DEF TurnsOK
  <2>4. FramesAreTrue'
    BY <2>1, <2>3, FewerFrames DEF Severed, TurnsOK
  <2> QED
    BY <2>3, <2>4 DEF TurnsOK
<1> QED
  BY <1>1, <1>2, <1>3, <1>4, <1>5 DEF Shows

LEMMA TurnsWorks ==
    ASSUME TypeOK, \A d \in Conns : SocketOK(d), TurnsOK, NEW c \in Conns, Works(c)
    PROVE  TurnsOK'
<1> USE DEF bounds
<1>1. CASE AcksStop(c)
  <2>1. /\ UNCHANGED <<msg, asked>>
        /\ \E ok : Posts(c, ok, <<F("done", 0)>>)
    BY <1>1 DEF AcksStop
  <2>2. MessagesOK' /\ Settled
    BY <2>1, QuietOK DEF Quiet, TurnsOK
  <2>3. F("done", 0) \in Frame /\ TrueFrame(F("done", 0))
    BY DEF F, Frame, Kinds, TrueFrame, EndKinds
  <2> QED
    BY <2>1, <2>2, <2>3, PostsFrames DEF TurnsOK
<1>2. CASE Takes(c)
  <2>1. /\ asked' = asked /\ msg' = Now(Head(inbox[c]), "kept")
        /\ \E ok : Posts(c, ok, <<F("start", 0)>>)
        /\ inbox[c] # <<>> /\ Head(inbox[c]) # Stop
    BY <1>2 DEF Takes, Reads
  <2>2. Head(inbox[c]) \in Msgs /\ msg[Head(inbox[c])].at = "wire"
    BY <2>1, Served
  <2>3. MessagesOK' /\ Settled
    BY <2>1, <2>2, NowQuiet, QuietOK DEF TurnsOK
  <2>4. F("start", 0) \in Frame /\ TrueFrame(F("start", 0))
    BY DEF F, Frame, Kinds, TrueFrame, EndKinds
  <2> QED
    BY <2>1, <2>3, <2>4, PostsFrames DEF TurnsOK
<1>3. CASE Acquires(c) \/ RunEnds(c)
  <2>1. UNCHANGED <<msg, asked, outbox>>
    BY <1>3 DEF Acquires, RunEnds, wires
  <2> QED
    BY <2>1 DEF TurnsOK, MessagesOK, NewOK, OnlyStopBreaks, TypedAfterEndIsTaken,
                FramesAreTrue
<1>4. CASE Breaks(c)
  <2>1. /\ UNCHANGED <<asked, outbox>> /\ msg' = [msg EXCEPT ![h[c].of].broken = TRUE]
        /\ h[c].pc = "run" /\ h[c].stop
    BY <1>4 DEF Breaks, At, wires
  <2>2. h[c].of \in Msgs /\ msg[h[c].of].stop
    BY <2>1 DEF SocketOK, ServingOK, StopHeard, Serving
  <2>3. \A m \in Msgs : /\ msg'[m].at = msg[m].at /\ msg'[m].clean = msg[m].clean
                        /\ msg'[m].stop = msg[m].stop
                        /\ (m # h[c].of => msg'[m].broken = msg[m].broken)
    <3> SUFFICES ASSUME NEW m \in Msgs
                 PROVE  /\ msg'[m].at = msg[m].at /\ msg'[m].clean = msg[m].clean
                        /\ msg'[m].stop = msg[m].stop
                        /\ (m # h[c].of => msg'[m].broken = msg[m].broken)
      OBVIOUS
    <3>1. msg[m] \in Message
      BY DEF TypeOK
    <3>2. msg'[m] = IF m = h[c].of THEN [msg[m] EXCEPT !.broken = TRUE] ELSE msg[m]
      BY <2>1 DEF TypeOK
    <3> QED
      BY <3>1, <3>2 DEF Message
  <2>4. NewOK' /\ OnlyStopBreaks' /\ TypedAfterEndIsTaken' /\ Settled
    BY <2>1, <2>2, <2>3
       DEF TurnsOK, MessagesOK, NewOK, OnlyStopBreaks, TypedAfterEndIsTaken, Settled
  <2> QED
    BY <2>1, <2>4, FewerFrames DEF TurnsOK, MessagesOK
<1>5. CASE HumanAnswers(c)
  <2>1. UNCHANGED <<msg, asked>> /\ Fans("resolved")
    BY <1>5 DEF HumanAnswers
  <2>2. MessagesOK' /\ Settled
    BY <2>1, QuietOK DEF Quiet, TurnsOK
  <2> QED
    BY <2>1, <2>2, FansFrames DEF TurnsOK, Kinds, EndKinds
<1>6. CASE EndsEmpty(c) \/ Delivers(c)
  <2>1. PICK ok \in Taken(c), kind \in {"stopped", "answer"}, where \in {"empty", "delivered", "pushed"} :
           /\ Posts(c, ok, <<F(kind, h[c].of), F("done", 0)>>)
           /\ msg' = Now(h[c].of, where)
    BY <1>6 DEF EndsEmpty, Delivers, Told
  <2>2. asked' = asked /\ h[c].pc = "over"
    BY <1>6 DEF EndsEmpty, Delivers, At
  <2>3. h[c].of \in Msgs /\ msg[h[c].of].at = "kept"
    BY <2>2, Served DEF Serving
  <2>4. where \in {"kept"} \union (Ends \ {"swallowed"}) /\ where \in Ends
    BY DEF Ends
  <2>5. Quiet /\ msg'[h[c].of].at \in Ends
    BY <2>1, <2>3, <2>4, NowQuiet
  <2>6. MessagesOK' /\ Settled
    BY <2>2, <2>5, QuietOK DEF TurnsOK
  <2>7. /\ F(kind, h[c].of) \in Frame /\ TrueFrame(F(kind, h[c].of))
        /\ F("done", 0) \in Frame /\ TrueFrame(F("done", 0))
    BY <2>3, <2>5 DEF F, Frame, Kinds, TrueFrame, EndKinds
  <2> QED
    BY <2>1, <2>6, <2>7, PostsFrames DEF TurnsOK
<1>7. CASE HandlerEnds(c)
  <2>1. UNCHANGED <<asked, outbox>> /\ msg' = Lost(Unread(c))
    BY <1>7 DEF HandlerEnds
  <2>2. MessagesOK' /\ Settled
    BY <2>1, LostQuiet, QuietOK DEF TurnsOK
  <2> QED
    BY <2>1, <2>2, FewerFrames DEF TurnsOK
<1> QED
  BY <1>1, <1>2, <1>3, <1>4, <1>5, <1>6, <1>7 DEF Works

LEMMA TurnsConns ==
    ASSUME TypeOK, \A d \in Conns : SocketOK(d), TurnsOK, NEW c \in Conns,
           \/ Watches(c) \/ Streams(c) \/ AsksHuman(c) \/ Refuses(c) \/ RunFails(c)
           \/ Raises(c) \/ Cut(c)
    PROVE  TurnsOK'
<1> USE DEF bounds
<1>1. CASE Hears(c) /\ Head(inbox[c]) # Stop
  <2> DEFINE f == Head(inbox[c])
  <2>1. /\ UNCHANGED <<asked, outbox>> /\ msg' = Now(f, "swallowed")
        /\ inbox[c] # <<>> /\ f # Stop /\ h[c].watch
    BY <1>1 DEF Hears
  <2>2. f = inbox[c][1] /\ 1 \in 1..Len(inbox[c]) /\ f \in Msgs /\ msg[f].at = "wire"
    BY <2>1, Served, EmptySeq, LenProperties DEF TypeOK
  <2>3. ~msg[f].clean
    BY <2>1, <2>2 DEF SocketOK, ServingOK, CleanIdle, Serving
  <2> HIDE DEF f
  <2>4. msg'[f] = [msg[f] EXCEPT !.at = "swallowed"] /\ \A n \in Msgs \ {f} : msg'[n] = msg[n]
    BY <2>1, <2>2, NowElse DEF TypeOK
  <2>5. msg[f] \in Message
    BY <2>2 DEF TypeOK
  <2>6. /\ msg'[f].at = "swallowed" /\ msg'[f].clean = msg[f].clean
        /\ msg'[f].stop = msg[f].stop /\ msg'[f].broken = msg[f].broken
    BY <2>4, <2>5 DEF Message
  <2>7. NewOK'
    BY <2>1, <2>2, <2>4 DEF TurnsOK, MessagesOK, NewOK
  <2>8. OnlyStopBreaks'
    BY <2>4, <2>6 DEF TurnsOK, MessagesOK, OnlyStopBreaks
  <2>9. TypedAfterEndIsTaken'
    BY <2>3, <2>4, <2>6 DEF TurnsOK, MessagesOK, TypedAfterEndIsTaken
  <2>10. Settled
    BY <2>4, <2>6 DEF Settled, Ends
  <2> QED
    BY <2>1, <2>7, <2>8, <2>9, <2>10, FewerFrames DEF TurnsOK, MessagesOK
<1>2. CASE (Hears(c) /\ Head(inbox[c]) = Stop) \/ SeesGone(c) \/ Streams(c)
  <2>1. UNCHANGED <<msg, asked, outbox>>
    BY <1>2 DEF Hears, SeesGone, Streams, wires
  <2> QED
    BY <2>1 DEF TurnsOK, MessagesOK, NewOK, OnlyStopBreaks, TypedAfterEndIsTaken,
                FramesAreTrue
<1>3. CASE AsksHuman(c)
  <2>1. UNCHANGED <<msg, asked>> /\ Fans("pending")
    BY <1>3 DEF AsksHuman
  <2>2. MessagesOK' /\ Settled
    BY <2>1, QuietOK DEF Quiet, TurnsOK
  <2> QED
    BY <2>1, <2>2, FansFrames DEF TurnsOK, Kinds, EndKinds
<1>4. CASE Refuses(c)
  <2> DEFINE m == Head(inbox[c])
  <2>1. PICK ok : Posts(c, ok, <<F("start", 0), F("error", m)>>)
    BY <1>4 DEF Refuses
  <2>2. /\ asked' = asked /\ msg' = Now(m, "refused") /\ inbox[c] # <<>> /\ m # Stop
    BY <1>4 DEF Refuses, Reads
  <2>3. m \in Msgs /\ msg[m].at = "wire"
    BY <2>2, Served
  <2> HIDE DEF m
  <2>4. "refused" \in {"kept"} \union (Ends \ {"swallowed"}) /\ "refused" \in Ends
    BY DEF Ends
  <2>5. Quiet /\ msg'[m].at \in Ends
    BY <2>2, <2>3, <2>4, NowQuiet
  <2>6. MessagesOK' /\ Settled
    BY <2>2, <2>5, QuietOK DEF TurnsOK
  <2>7. /\ F("start", 0) \in Frame /\ TrueFrame(F("start", 0))
        /\ F("error", m) \in Frame /\ TrueFrame(F("error", m))
    BY <2>3, <2>5 DEF F, Frame, Kinds, TrueFrame, EndKinds
  <2> QED
    BY <2>1, <2>6, <2>7, PostsFrames DEF TurnsOK
<1>5. CASE RunFails(c)
  <2>1. PICK ok : Posts(c, ok, <<F("error", h[c].of)>>)
    BY <1>5 DEF RunFails
  <2>2. /\ asked' = asked /\ h[c].pc = "run"
        /\ msg' = [Lost(Unread(c)) EXCEPT ![h[c].of].at = "failed"]
    BY <1>5 DEF RunFails, At
  <2>3. h[c].of \in Msgs /\ msg[h[c].of].at = "kept"
    BY <2>2, Served DEF Serving
  <2>4. "failed" \in Ends \ {"swallowed"}
    BY DEF Ends
  <2>5. Quiet /\ msg'[h[c].of].at \in Ends
    <3>1. Lost(Unread(c)) \in [Msgs -> Message]
      BY LostOK DEF TypeOK
    <3>2. /\ msg'[h[c].of] = [Lost(Unread(c))[h[c].of] EXCEPT !.at = "failed"]
          /\ \A n \in Msgs \ {h[c].of} : msg'[n] = Lost(Unread(c))[n]
      BY <2>2, <2>3, <3>1
    <3>3. Quiet /\ msg'[h[c].of].at = "failed"
      BY <2>3, <2>4, <3>2, EndQuiet
    <3> QED
      BY <2>4, <3>3
  <2>6. MessagesOK' /\ Settled
    BY <2>2, <2>5, QuietOK DEF TurnsOK
  <2>7. F("error", h[c].of) \in Frame /\ TrueFrame(F("error", h[c].of))
    BY <2>3, <2>5 DEF F, Frame, Kinds, TrueFrame, EndKinds
  <2> QED
    BY <2>1, <2>6, <2>7, PostsFrames DEF TurnsOK
<1>6. CASE Raises(c)
  <2>1. asked' = asked
    BY <1>6 DEF Raises
  <2>2. PICK m \in Msgs, where \in {"lost", "failed", "untold"}, ran \in BOOLEAN :
           /\ IF ran THEN At(c, "over") /\ h[c].text /\ m = h[c].of
              ELSE Reads(c) /\ m = Head(inbox[c])
           /\ msg' = [Lost(Unread(c)) EXCEPT ![m].at = where]
           /\ \/ Posts(c, ~h[c].gone, <<F("error", m)>>)
              \/ Posts(c, ~h[c].gone, <<F("start", 0), F("error", m)>>)
    BY <1>6 DEF Raises
  <2>3. msg[m].at \in {"wire", "kept"}
    <3>1. CASE ~ran
      <4>1. inbox[c] # <<>> /\ m = Head(inbox[c]) /\ m # Stop
        BY <2>2, <3>1, ChatAssumption DEF Reads, Msgs, Stop
      <4> QED
        BY <4>1, Served
    <3>2. CASE ran
      BY <2>2, <3>2, Served DEF At, Serving
    <3> QED
      BY <3>1, <3>2
  <2>4. where \in Ends \ {"swallowed"}
    BY DEF Ends
  <2>5. Quiet /\ msg'[m].at \in Ends
    <3>1. Lost(Unread(c)) \in [Msgs -> Message]
      BY LostOK DEF TypeOK
    <3>2. /\ msg'[m] = [Lost(Unread(c))[m] EXCEPT !.at = where]
          /\ \A n \in Msgs \ {m} : msg'[n] = Lost(Unread(c))[n]
      BY <2>2, <2>3, <3>1
    <3>3. Quiet /\ msg'[m].at = where
      BY <2>3, <2>4, <3>2, EndQuiet
    <3> QED
      BY <2>4, <3>3
  <2>6. MessagesOK' /\ Settled
    BY <2>1, <2>5, QuietOK DEF TurnsOK
  <2>7. /\ F("error", m) \in Frame /\ TrueFrame(F("error", m))
        /\ F("start", 0) \in Frame /\ TrueFrame(F("start", 0))
    BY <2>5 DEF F, Frame, Kinds, TrueFrame, EndKinds
  <2>8. \/ \E ok : Posts(c, ok, <<F("error", m)>>)
        \/ \E ok : Posts(c, ok, <<F("start", 0), F("error", m)>>)
    BY <2>2
  <2> QED
    BY <2>6, <2>7, <2>8, PostsFrames DEF TurnsOK
<1>7. CASE Cut(c)
  <2>1. asked' = asked /\ Severed(c)
    BY <1>7 DEF Cut
  <2>2. Quiet
    BY <2>1, LostQuiet DEF Severed, Quiet
  <2>3. MessagesOK' /\ Settled
    BY <2>1, <2>2, QuietOK DEF TurnsOK
  <2>4. FramesAreTrue'
    BY <2>1, <2>3, FewerFrames DEF Severed, TurnsOK
  <2> QED
    BY <2>3, <2>4 DEF TurnsOK
<1> QED
  BY <1>1, <1>2, <1>3, <1>4, <1>5, <1>6, <1>7 DEF Watches

-----------------------------------------------------------------------------
LEMMA ChatStep ==
    ASSUME TypeOK, ChatInv, [Next]_vars
    PROVE  ChatInv'
<1>1. (\A d \in Conns : SocketOK(d)) /\ TurnsOK /\ FramesAreTrue /\ NewOK
  BY DEF ChatInv, TurnsOK, MessagesOK
<1>2. ASSUME NEW p \in Pages,
             Connects(p) \/ Types(p) \/ ClicksStop(p) \/ Shows(p) \/ WatchdogFires(p) \/ Reloads(p)
      PROVE  (\A d \in Conns : SocketOK(d)') /\ TurnsOK'
  <2>1. TurnsOK'
    BY <1>1, <1>2, TurnsPages
  <2>2. CASE Reloads(p)
    <3>1. /\ sock[p] \in Conns /\ Severed(sock[p]) /\ UNCHANGED <<h, awaiting>>
          /\ \A q \in Pages, d \in Conns : sock'[q] = d => sock[q] = d
      BY <2>2, ChatAssumption DEF Reloads, TypeOK
    <3> QED
      BY <1>1, <2>1, <3>1, SeveredSockets
  <2>3. CASE Connects(p)
    BY <1>1, <2>1, <2>3, ConnectsSockets
  <2>4. CASE Types(p)
    BY <1>1, <2>1, <2>4, TypesSockets
  <2>5. CASE ClicksStop(p)
    BY <1>1, <2>1, <2>5, ClicksStopSockets
  <2>6. CASE Shows(p) \/ WatchdogFires(p)
    BY <1>1, <2>1, <2>6, LooksSockets
  <2> QED
    BY <1>2, <2>2, <2>3, <2>4, <2>5, <2>6
<1>3. ASSUME NEW c \in Conns, Works(c)
      PROVE  (\A d \in Conns : SocketOK(d)') /\ TurnsOK'
  <2>1. TurnsOK'
    BY <1>1, <1>3, TurnsWorks
  <2>2. \A d \in Conns : SocketOK(d)'
    BY <1>1, <1>3, AcksStopSockets, TakesSockets, AcquiresSockets, LeavesSockets,
       GoesOnSockets, EndsSockets, HandlerEndsSockets DEF Works
  <2> QED
    BY <2>1, <2>2
<1>4. ASSUME NEW c \in Conns,
             \/ Watches(c) \/ Streams(c) \/ AsksHuman(c) \/ Refuses(c) \/ RunFails(c)
             \/ Raises(c) \/ Cut(c)
      PROVE  (\A d \in Conns : SocketOK(d)') /\ TurnsOK'
  <2>1. TurnsOK'
    BY <1>1, <1>4, TurnsConns
  <2>2. CASE Cut(c)
    <3>1. /\ Severed(c) /\ UNCHANGED <<h, awaiting>>
          /\ \A q \in Pages, d \in Conns : sock'[q] = d => sock[q] = d
      BY <2>2 DEF Cut, pages
    <3> QED
      BY <1>1, <2>1, <3>1, SeveredSockets
  <2>3. CASE Watches(c) \/ Streams(c) \/ AsksHuman(c) \/ Refuses(c) \/ RunFails(c) \/ Raises(c)
    BY <1>1, <2>1, <2>3, HearsSockets, GoesOnSockets, RefusesSockets, HandlerEndsSockets
       DEF Watches
  <2> QED
    BY <1>4, <2>2, <2>3
<1>5. CASE UNCHANGED vars
  <2>1. UNCHANGED <<sock, awaiting, wire, inbox, outbox, h, msg, asked>>
    BY <1>5 DEF vars, pages, wires
  <2>2. \A d \in Conns : Elsewhere(d)
    BY <2>1 DEF Elsewhere
  <2>3. \A d \in Conns : SocketOK(d)'
    BY <1>1, <2>2, ElsewhereOK
  <2>4. TurnsOK'
    BY <1>1, <2>1 DEF TurnsOK, MessagesOK, NewOK, OnlyStopBreaks, TypedAfterEndIsTaken,
                      FramesAreTrue
  <2> QED
    BY <2>3, <2>4 DEF ChatInv, TurnsOK, MessagesOK
<1>6. (\A d \in Conns : SocketOK(d)') /\ TurnsOK' => ChatInv'
  BY DEF ChatInv, TurnsOK, MessagesOK
<1> QED
  BY <1>2, <1>3, <1>4, <1>5, <1>6 DEF Next

LEMMA ChatInit ==
    ASSUME Init
    PROVE  ChatInv
<1>1. \A c \in Conns : /\ h[c].pc = "none" /\ ~h[c].stop /\ ~h[c].watch
                       /\ inbox[c] = <<>> /\ outbox[c] = <<>> /\ wire[c] = "none"
  BY DEF Init, Idle
<1>2. \A c \in Conns : \A p \in Pages : sock[p] # c
  BY ChatAssumption DEF Init
<1>3. \A c \in Conns : 1..Len(inbox[c]) = {} /\ 1..Len(outbox[c]) = {}
  BY <1>1
<1>4. ASSUME NEW c \in Conns PROVE SocketOK(c)
  BY <1>1, <1>2, <1>3 DEF SocketOK, LinkOK, SockOK, ServingOK, InboxOK, StopsLate,
     StopHeard, CleanFirst, CleanIdle, AwaitOK, Serving
<1>5. \A m \in Msgs : msg[m].at = "new" /\ ~msg[m].broken
  BY DEF Init
<1> QED
  BY <1>3, <1>4, <1>5 DEF ChatInv, FramesAreTrue, NewOK, OnlyStopBreaks, TypedAfterEndIsTaken

\* The disappearance of the client is not an order to stop: in every reachable state, a
\* run that was left before its end had been stopped by the user, on the socket of its
\* message and after it was typed.
THEOREM DisappearanceIsNoStop == Spec => []OnlyStopBreaks
<1>1. TypeOK /\ SlotsOK /\ ChatInv /\ [Next]_vars => TypeOK' /\ SlotsOK' /\ ChatInv'
  BY TypeStep, ChatStep
<1>2. Init => TypeOK /\ SlotsOK /\ ChatInv
  BY TypeInit, ChatInit
<1>3. ChatInv => OnlyStopBreaks
  BY DEF ChatInv
<1> QED
  BY <1>1, <1>2, <1>3, PTL DEF Spec

\* A message typed when the page waited for no other is never dropped by the watcher of
\* a run, however late its handler learns of the end of that run.
THEOREM WhatIsTypedIsTaken == Spec => []TypedAfterEndIsTaken
<1>1. TypeOK /\ SlotsOK /\ ChatInv /\ [Next]_vars => TypeOK' /\ SlotsOK' /\ ChatInv'
  BY TypeStep, ChatStep
<1>2. Init => TypeOK /\ SlotsOK /\ ChatInv
  BY TypeInit, ChatInit
<1>3. ChatInv => TypedAfterEndIsTaken
  BY DEF ChatInv
<1> QED
  BY <1>1, <1>2, <1>3, PTL DEF Spec

=============================================================================
