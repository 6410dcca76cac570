---------------------------- MODULE DesktopProofs ----------------------------
(***************************************************************************)
(* Theorems about DesktopLink for any number of calls and links, and any   *)
(* delays.                                                                 *)
(***************************************************************************)
EXTENDS DesktopLink, TLAPS, FiniteSetTheorems

\* An identifier is the pair of its call and its attempt.
LEMMA Identifiers ==
    /\ \A k \in CmdIds : k = <<k[1], k[2]>> /\ k[1] \in Calls /\ k[2] \in {1, 2}
    /\ \A c \in Calls, a \in {1, 2} :
          <<c, a>> \in CmdIds /\ <<c, a>>[1] = c /\ <<c, a>>[2] = a
BY DEF CmdIds

LEMMA RankedCount == Cardinality(Ranked) \in Nat /\ IsFiniteSet(Ranked)
<1>1. IsFiniteSet(Links)
  BY FS_Interval, LinksAssumption DEF Links
<1> QED
  BY <1>1, FS_Subset, FS_CardinalityType DEF Ranked

\* What the pieces of the calls do to the variables they write.
LEMMA CallOK ==
    ASSUME NEW c \in Calls, call \in [Calls -> CallRec]
    PROVE  /\ call[c].pc \in {"idle", "seek", "send", "wait", "done"}
           /\ call[c].link \in 0..MaxLinks /\ call[c].attempt \in {1, 2}
           /\ Id(c) \in CmdIds /\ Id(c)[1] = c
<1>1. call[c] \in CallRec
  OBVIOUS
<1> QED
  BY <1>1, Identifiers DEF CallRec, Id

LEMMA MovedOK ==
    ASSUME NEW c \in Calls, call \in [Calls -> CallRec],
           NEW pc \in {"idle", "seek", "send", "wait", "done"},
           call' = [call EXCEPT ![c].pc = pc]
    PROVE  /\ call' \in [Calls -> CallRec]
           /\ call'[c].pc = pc /\ call'[c].link = call[c].link
           /\ call'[c].attempt = call[c].attempt /\ call'[c].outcome = call[c].outcome
           /\ \A d \in Calls \ {c} : call'[d] = call[d]
<1>1. call[c] \in CallRec
  OBVIOUS
<1>2. [call[c] EXCEPT !.pc = pc] \in CallRec
  BY <1>1 DEF CallRec
<1>3. call'[c] = [call[c] EXCEPT !.pc = pc]
  OBVIOUS
<1> QED
  BY <1>1, <1>2, <1>3 DEF CallRec

LEMMA EndedOK ==
    ASSUME NEW c \in Calls, call \in [Calls -> CallRec],
           NEW o \in {"none", "answered", "timeout", "absent", "cancelled"},
           call' = [call EXCEPT ![c].pc = "done", ![c].outcome = o]
    PROVE  /\ call' \in [Calls -> CallRec]
           /\ call'[c].pc = "done" /\ call'[c].link = call[c].link
           /\ call'[c].attempt = call[c].attempt /\ call'[c].outcome = o
           /\ \A d \in Calls \ {c} : call'[d] = call[d]
<1>1. call[c] \in CallRec
  OBVIOUS
<1> DEFINE new == [call[c] EXCEPT !.pc = "done", !.outcome = o]
<1>2. new \in CallRec /\ new.pc = "done" /\ new.outcome = o
      /\ new.link = call[c].link /\ new.attempt = call[c].attempt
  BY <1>1 DEF CallRec
<1>3. call' = [call EXCEPT ![c] = new]
  OBVIOUS
<1> HIDE DEF new
<1> QED
  BY <1>2, <1>3

LEMMA SendingOK ==
    ASSUME NEW c \in Calls, call \in [Calls -> CallRec], NEW l \in Links,
           NEW a \in {1, 2},
           call' = [call EXCEPT ![c] = [pc |-> "send", link |-> l, attempt |-> a,
                                        outcome |-> "none"]]
    PROVE  /\ call' \in [Calls -> CallRec]
           /\ call'[c].pc = "send" /\ call'[c].link = l
           /\ call'[c].attempt = a /\ call'[c].outcome = "none"
           /\ \A d \in Calls \ {c} : call'[d] = call[d]
<1> DEFINE new == [pc |-> "send", link |-> l, attempt |-> a, outcome |-> "none"]
<1>1. new \in CallRec /\ new.pc = "send" /\ new.link = l /\ new.attempt = a
      /\ new.outcome = "none"
  BY LinksAssumption DEF CallRec, Links
<1>2. call' = [call EXCEPT ![c] = new]
  OBVIOUS
<1> HIDE DEF new
<1> QED
  BY <1>1, <1>2

CmdRec == [at : Stages, link : 0..MaxLinks]

LEMMA StageOK ==
    ASSUME NEW k \in CmdIds, cmd \in [CmdIds -> CmdRec], NEW s \in Stages,
           cmd' = [cmd EXCEPT ![k].at = s]
    PROVE  /\ cmd' \in [CmdIds -> CmdRec]
           /\ cmd'[k].at = s /\ cmd'[k].link = cmd[k].link
           /\ \A j \in CmdIds \ {k} : cmd'[j] = cmd[j]
<1>1. cmd[k] \in CmdRec
  OBVIOUS
<1>2. cmd'[k] = [cmd[k] EXCEPT !.at = s]
  OBVIOUS
<1> QED
  BY <1>1, <1>2 DEF CmdRec

LEMMA SentOK ==
    ASSUME NEW k \in CmdIds, cmd \in [CmdIds -> CmdRec], NEW s \in Stages,
           NEW l \in 0..MaxLinks, cmd' = [cmd EXCEPT ![k] = [at |-> s, link |-> l]]
    PROVE  /\ cmd' \in [CmdIds -> CmdRec]
           /\ cmd'[k].at = s /\ cmd'[k].link = l
           /\ \A j \in CmdIds \ {k} : cmd'[j] = cmd[j]
BY DEF CmdRec

LEMMA SleepingOK ==
    ASSUME daemon \in Daemons
    PROVE  Sleeping \in Daemons /\ Sleeping.pc = "away"
<1>1. daemon.delay \in 0..ReconnectMax /\ Doubled(daemon.delay) \in 0..ReconnectMax
  BY DelaysAssumption DEF Daemons, Doubled
<1>2. 0 \in 0..MaxLinks
  BY LinksAssumption
<1>3. ASSUME NEW w \in 0..ReconnectMax, NEW d \in 0..ReconnectMax
      PROVE  LET new == [daemon EXCEPT !.pc = "away", !.link = 0, !.wait = w, !.delay = d]
             IN new \in Daemons /\ new.pc = "away"
  BY <1>2 DEF Daemons
<1> QED
  BY <1>1, <1>3 DEF Sleeping

-----------------------------------------------------------------------------
(* What a step is, as far as the calls and their commands are concerned.   *)

Live(k) == cmd[k].at \notin {"unsent", "lost"}

\* A call touches the command it is about to send, or none.
Writes(c) == \/ cmd' = cmd
             \/ /\ call[c].pc = "send"
                /\ cmd' \in [CmdIds -> CmdRec]
                /\ cmd'[Id(c)].at \in {"sent", "lost"}
                /\ cmd'[Id(c)].at = "sent" => cmd'[Id(c)].link = call[c].link
                /\ \A j \in CmdIds \ {Id(c)} : cmd'[j] = cmd[j]

Seeks(c)  == /\ call[c].pc = "idle"
             /\ call' = [call EXCEPT ![c].pc = "seek"]
             /\ pending' = pending /\ answers' = answers /\ cmd' = cmd
Issues(c) == \E l \in Links, a \in {1, 2} :
                /\ Issue(c, l, a)
                /\ \/ call[c].pc = "idle" /\ a = 1
                   \/ call[c].pc = "seek" /\ call[c].link = 0 /\ a = 1
                   \/ call[c].pc = "seek" /\ call[c].link \notin {0, l} /\ a = 2
Drops(c)  == /\ call[c].pc \in {"send", "wait"} /\ call[c].attempt = 1
             /\ call' = [call EXCEPT ![c].pc = "seek"]
             /\ Cleaned(c) /\ Writes(c)
Stops(c)  == \E o \in {"answered", "timeout", "absent", "cancelled"} :
                /\ call[c].pc \in {"seek", "send", "wait"}
                /\ o = "answered" => call[c].pc = "wait" /\ Answered(c)
                /\ call' = [call EXCEPT ![c].pc = "done", ![c].outcome = o]
                /\ Cleaned(c) /\ Writes(c)
CallSteps(c) == Seeks(c) \/ Issues(c) \/ Sent(c) \/ Drops(c) \/ Stops(c)

LEMMA CallCases ==
    ASSUME TypeOK, NEW c \in Calls, Start(c) \/ Looks(c) \/ Cancel(c)
    PROVE  CallSteps(c) /\ UNCHANGED <<current, links, daemon>>
<1>1. CASE Start(c)
  <2>1. current # 0 => current \in Links
    BY DEF TypeOK, Links
  <2> QED
    BY <1>1, <2>1 DEF Start, CallSteps, Issues, Seeks, Issue, conns, links
<1>2. CASE Found(c)
  <2>1. current \in Links /\ current # call[c].link
    BY <1>2 DEF Found, Usable, TypeOK, Links
  <2>2. Issue(c, current, IF call[c].link = 0 THEN 1 ELSE 2) /\ call[c].pc = "seek"
    BY <1>2 DEF Found
  <2>3. Issues(c)
    <3>1. CASE call[c].link = 0
      BY <2>1, <2>2, <3>1 DEF Issues
    <3>2. CASE call[c].link # 0
      BY <2>1, <2>2, <3>2 DEF Issues
    <3> QED
      BY <3>1, <3>2
  <2> QED
    BY <2>2, <2>3 DEF CallSteps, Issue
<1>3. CASE GraceOver(c) \/ Return(c) \/ Timeout(c)
  BY <1>3 DEF GraceOver, Return, Timeout, Ends, CallSteps, Stops, Writes
<1>4. CASE Sent(c)
  BY <1>4 DEF Sent, CallSteps
<1>5. CASE SendFails(c)
  <2>1. cmd \in [CmdIds -> CmdRec] /\ Id(c) \in CmdIds /\ "lost" \in Stages
    BY CallOK DEF TypeOK, CmdRec, Stages
  <2>2. cmd' = [cmd EXCEPT ![Id(c)].at = "lost"] /\ call[c].pc = "send" /\ Replaced(c)
    BY <1>5 DEF SendFails
  <2>3. /\ cmd' \in [CmdIds -> CmdRec] /\ cmd'[Id(c)].at = "lost"
        /\ \A j \in CmdIds \ {Id(c)} : cmd'[j] = cmd[j]
    BY <2>1, <2>2, StageOK
  <2>4. Writes(c)
    BY <2>2, <2>3 DEF Writes
  <2> QED
    BY <2>2, <2>4 DEF Replaced, Ends, CallSteps, Drops, Stops
<1>6. CASE Notice(c)
  <2>1. Writes(c)
    BY <1>6 DEF Notice, Writes
  <2> QED
    BY <1>6, <2>1 DEF Notice, Replaced, Ends, CallSteps, Drops, Stops
<1>7. CASE Cancel(c)
  <2>1. cmd \in [CmdIds -> CmdRec] /\ Id(c) \in CmdIds /\ "sent" \in Stages
        /\ call[c].link \in 0..MaxLinks
    BY CallOK DEF TypeOK, CmdRec, Stages
  <2>2. ASSUME call[c].pc = "send",
               cmd' = [cmd EXCEPT ![Id(c)] = [at |-> "sent", link |-> call[c].link]]
        PROVE  Writes(c)
    BY <2>1, <2>2, SentOK DEF Writes
  <2>3. Writes(c)
    BY <1>7, <2>2 DEF Cancel, Writes
  <2> QED
    BY <1>7, <2>3 DEF Cancel, Ends, CallSteps, Stops
<1> QED
  BY <1>1, <1>2, <1>3, <1>4, <1>5, <1>6, <1>7 DEF Looks

\* The daemon and the handlers move a command that was sent and not yet heard.
Advances(k) == /\ Live(k) /\ cmd[k].at # "heard"
               /\ cmd' \in [CmdIds -> CmdRec]
               /\ cmd'[k].at \in {"ran", "replied", "mute", "heard"}
               /\ cmd'[k].link = cmd[k].link
               /\ \A j \in CmdIds \ {k} : cmd'[j] = cmd[j]

LEMMA CmdCases ==
    ASSUME TypeOK, NEW k \in CmdIds, Execute(k) \/ Reply(k) \/ Deliver(k)
    PROVE  Advances(k) /\ UNCHANGED <<current, links, pending, daemon, call>>
<1>1. cmd \in [CmdIds -> CmdRec]
  BY DEF TypeOK, CmdRec
<1>2. PICK s \in {"ran", "replied", "mute", "heard"} : cmd' = [cmd EXCEPT ![k].at = s]
  BY DEF Execute, Reply, Deliver
<1>3. s \in Stages
  BY DEF Stages
<1>4. cmd' \in [CmdIds -> CmdRec] /\ cmd'[k].at = s /\ cmd'[k].link = cmd[k].link
      /\ \A j \in CmdIds \ {k} : cmd'[j] = cmd[j]
  BY <1>1, <1>2, <1>3, StageOK
<1>5. Live(k) /\ cmd[k].at # "heard"
  BY DEF Execute, Reply, Deliver, Live
<1> QED
  BY <1>4, <1>5 DEF Advances, Execute, Reply, Deliver, conns

\* The steps of the daemon and the handlers that leave the calls alone.
LinkSteps == Dial \/ DialFails \/ LoseSession
             \/ \E l \in Links : Cut(l) \/ Register(l) \/ Refuse(l) \/ HandlerEnds(l)

LEMMA NextCases ==
    ASSUME [Next]_vars
    PROVE  \/ LinkSteps
           \/ \E k \in CmdIds : Execute(k) \/ Reply(k) \/ Deliver(k)
           \/ \E c \in Calls : Start(c) \/ Looks(c) \/ Cancel(c)
           \/ UNCHANGED vars
BY DEF Next, LinkSteps

LEMMA LinkStepsFrame == ASSUME LinkSteps PROVE UNCHANGED <<conns, call, cmd>>
BY DEF LinkSteps, Dial, DialFails, LoseSession, Cut, Register, Refuse, HandlerEnds, conns

-----------------------------------------------------------------------------
(* The type invariant.                                                     *)

LEMMA TypeInit == Init => TypeOK
<1> SUFFICES ASSUME Init PROVE TypeOK
  OBVIOUS
<1>1. 0 \in 0..MaxLinks /\ 0 \in 0..ReconnectMax /\ ReconnectBase \in 0..ReconnectMax
  BY LinksAssumption, DelaysAssumption
<1>2. daemon \in Daemons /\ daemon.pc = "away"
  BY <1>1 DEF Init, Launched, Daemons
<1>3. call \in [Calls -> CallRec] /\ \A c \in Calls : call[c].pc = "idle"
  BY <1>1 DEF Init, NewCall, CallRec
<1>4. cmd \in [CmdIds -> [at : Stages, link : 0..MaxLinks]]
      /\ \A k \in CmdIds : cmd[k].at = "unsent"
  BY <1>1 DEF Init, Stages
<1> QED
  BY <1>1, <1>2, <1>3, <1>4 DEF Init, TypeOK

LEMMA TypeLinks == ASSUME TypeOK, LinkSteps PROVE TypeOK'
<1>0. daemon \in Daemons /\ 0 \in 0..MaxLinks /\ 0 \in 0..ReconnectMax
  BY LinksAssumption, DelaysAssumption DEF TypeOK
<1>1. CASE Dial
  <2>1. PICK l \in Links : /\ wire' = [wire EXCEPT ![l] = "up"]
                          /\ handler' = [handler EXCEPT ![l] = "handshake"]
                          /\ daemon' = [daemon EXCEPT !.pc = "on", !.link = l, !.wait = 0]
    BY <1>1 DEF Dial
  <2>2. l \in 0..MaxLinks /\ l # 0
    BY LinksAssumption DEF Links
  <2>3. daemon' \in Daemons /\ daemon'.pc = "on" /\ daemon'.link = l
    BY <1>0, <2>1, <2>2 DEF Daemons
  <2>4. UNCHANGED <<current, rank, conns, call, cmd>>
    BY <1>1 DEF Dial
  <2> QED
    BY <2>1, <2>2, <2>3, <2>4 DEF TypeOK, conns
<1>2. CASE DialFails \/ LoseSession
  <2>1. daemon' \in Daemons /\ daemon'.pc = "away"
    BY <1>0, <1>2, SleepingOK DEF DialFails, LoseSession
  <2>2. UNCHANGED <<current, links, conns, call, cmd>>
    BY <1>2 DEF DialFails, LoseSession
  <2> QED
    BY <2>1, <2>2 DEF TypeOK, conns, links
<1>3. CASE \E l \in Links : Cut(l) \/ Register(l) \/ Refuse(l) \/ HandlerEnds(l)
  <2>1. PICK l \in Links : Cut(l) \/ Register(l) \/ Refuse(l) \/ HandlerEnds(l)
    BY <1>3
  <2>2. l \in 0..MaxLinks /\ Cardinality(Ranked) + 1 \in Nat
    BY LinksAssumption, RankedCount DEF Links
  <2>3. /\ wire' \in [Links -> {"none", "up", "cut"}]
        /\ handler' \in [Links -> {"none", "handshake", "reading", "gone"}]
        /\ rank' \in [Links -> Nat] /\ current' \in 0..MaxLinks
    BY <2>1, <2>2, <1>0 DEF Cut, Register, Refuse, HandlerEnds, Unregistered, TypeOK
  <2>4. UNCHANGED <<conns, daemon, call, cmd>>
    BY <2>1 DEF Cut, Register, Refuse, HandlerEnds
  <2> QED
    BY <2>3, <2>4 DEF TypeOK, conns
<1> QED
  BY <1>1, <1>2, <1>3 DEF LinkSteps

LEMMA TypeCmds ==
    ASSUME TypeOK, NEW k \in CmdIds, Execute(k) \/ Reply(k) \/ Deliver(k)
    PROVE  TypeOK'
<1>1. Advances(k) /\ UNCHANGED <<current, links, pending, daemon, call>>
  BY CmdCases
<1>2. answers' \in [Links -> SUBSET CmdIds]
  BY DEF Execute, Reply, Deliver, Matched, conns, TypeOK
<1>3. cmd' \in [CmdIds -> [at : Stages, link : 0..MaxLinks]]
      /\ \A j \in CmdIds : cmd'[j].at \notin {"unsent", "lost"} => cmd'[j].link # 0
  BY <1>1 DEF Advances, Live, CmdRec, TypeOK
<1> QED
  BY <1>1, <1>2, <1>3 DEF TypeOK, links

LEMMA TypeCalls ==
    ASSUME TypeOK, NEW c \in Calls, Start(c) \/ Looks(c) \/ Cancel(c)
    PROVE  TypeOK'
<1>1. CallSteps(c) /\ UNCHANGED <<current, links, daemon>>
  BY CallCases
<1>2. call \in [Calls -> CallRec] /\ cmd \in [CmdIds -> CmdRec] /\ Id(c) \in CmdIds
  BY CallOK DEF TypeOK, CmdRec
<1>3. /\ call' \in [Calls -> CallRec]
      /\ \A d \in Calls : call'[d].pc \in {"send", "wait"} => call'[d].link # 0
  <2>1. CASE Seeks(c) \/ Drops(c)
    BY <1>2, <2>1, MovedOK DEF Seeks, Drops, TypeOK
  <2>2. CASE Sent(c)
    <3>1. call' = [call EXCEPT ![c].pc = "wait"] /\ call[c].pc = "send"
      BY <2>2 DEF Sent
    <3>2. /\ call' \in [Calls -> CallRec] /\ call'[c].link = call[c].link
          /\ \A d \in Calls \ {c} : call'[d] = call[d]
      BY <1>2, <3>1, MovedOK
    <3>3. \A d \in Calls : call[d].pc \in {"send", "wait"} => call[d].link # 0
      BY DEF TypeOK
    <3> QED
      BY <3>1, <3>2, <3>3
  <2>3. CASE Stops(c)
    <3>1. PICK o \in {"none", "answered", "timeout", "absent", "cancelled"} :
             call' = [call EXCEPT ![c].pc = "done", ![c].outcome = o]
      BY <2>3 DEF Stops
    <3> QED
      BY <1>2, <3>1, EndedOK DEF TypeOK
  <2>4. CASE Issues(c)
    <3>1. PICK l \in Links, a \in {1, 2} : Issue(c, l, a)
      BY <2>4 DEF Issues
    <3>2. l # 0
      BY DEF Links
    <3> QED
      BY <1>2, <3>1, <3>2, SendingOK DEF Issue, TypeOK
  <2> QED
    BY <1>1, <2>1, <2>2, <2>3, <2>4 DEF CallSteps
<1>4. pending' \in [Links -> SUBSET CmdIds] /\ answers' \in [Links -> SUBSET CmdIds]
  <2>1. CASE Issues(c)
    <3>1. PICK l \in Links, a \in {1, 2} : Issue(c, l, a)
      BY <2>1 DEF Issues
    <3>2. <<c, a>> \in CmdIds
      BY Identifiers
    <3>3. pending' \in [Links -> SUBSET CmdIds]
      BY <3>1, <3>2 DEF Issue, TypeOK
    <3> QED
      BY <3>1, <3>3 DEF Issue, TypeOK
  <2>2. CASE Seeks(c) \/ Sent(c) \/ Drops(c) \/ Stops(c)
    BY <2>2 DEF Seeks, Sent, Drops, Stops, Cleaned, conns, TypeOK
  <2> QED
    BY <1>1, <2>1, <2>2 DEF CallSteps
<1>5. /\ cmd' \in [CmdIds -> CmdRec]
      /\ \A j \in CmdIds : cmd'[j].at \notin {"unsent", "lost"} => cmd'[j].link # 0
  <2>1. call[c].pc = "send" => call[c].link # 0
    BY DEF TypeOK
  <2>2. CASE Sent(c)
    <3>1. PICK s \in {"sent", "lost"} :
             cmd' = [cmd EXCEPT ![Id(c)] = [at |-> s, link |-> call[c].link]]
      BY <2>2 DEF Sent
    <3>2. s \in Stages /\ call[c].link \in 0..MaxLinks /\ call[c].pc = "send"
      BY <1>2, <2>2, CallOK DEF Stages, Sent
    <3>3. /\ cmd' \in [CmdIds -> CmdRec] /\ cmd'[Id(c)].link = call[c].link
          /\ \A j \in CmdIds \ {Id(c)} : cmd'[j] = cmd[j]
      BY <1>2, <3>1, <3>2, SentOK
    <3>4. \A j \in CmdIds : cmd[j].at \notin {"unsent", "lost"} => cmd[j].link # 0
      BY DEF TypeOK
    <3> QED
      BY <2>1, <3>2, <3>3, <3>4
  <2>3. CASE Writes(c)
    BY <1>2, <2>1, <2>3 DEF Writes, TypeOK
  <2>4. CASE UNCHANGED cmd
    BY <1>2, <2>4 DEF TypeOK
  <2> QED
    BY <1>1, <2>2, <2>3, <2>4 DEF CallSteps, Seeks, Issues, Issue, Drops, Stops
<1> QED
  BY <1>1, <1>3, <1>4, <1>5 DEF TypeOK, links, CmdRec

LEMMA TypeStep == TypeOK /\ [Next]_vars => TypeOK'
<1> SUFFICES ASSUME TypeOK, [Next]_vars PROVE TypeOK'
  OBVIOUS
<1>1. CASE UNCHANGED vars
  BY <1>1 DEF vars, links, conns, TypeOK
<1> QED
  BY <1>1, NextCases, TypeLinks, TypeCmds, TypeCalls

\* The variables of the desktop link keep their types (TypeOK), for any number of
\* links and calls.
THEOREM TypeCorrect == Spec => []TypeOK
  BY TypeInit, TypeStep, PTL DEF Spec

-----------------------------------------------------------------------------
(* Nothing outlives its call.  NothingLeft is inductive with the type      *)
(* invariant: an identifier enters pending when its call takes the link,   *)
(* and leaves both sets before the call leaves it.                         *)

\* What a call does to the identifiers: they are its own.
LEMMA CallKeeps ==
    ASSUME TypeOK, NothingLeft, NEW c \in Calls, Start(c) \/ Looks(c) \/ Cancel(c)
    PROVE  NothingLeft'
<1>1. CallSteps(c)
  BY CallCases
<1>2. call \in [Calls -> CallRec] /\ pending \in [Links -> SUBSET CmdIds]
      /\ answers \in [Links -> SUBSET CmdIds]
  BY DEF TypeOK
<1> SUFFICES ASSUME NEW l \in Links, NEW k \in pending'[l] \union answers'[l]
             PROVE  /\ call'[k[1]].pc \in {"send", "wait"}
                    /\ call'[k[1]].link = l /\ Id(k[1])' = k
  BY DEF NothingLeft
\* Whoever was there before, and is not touched.
<1>3. ASSUME k \in pending[l] \union answers[l]
      PROVE  /\ k \in CmdIds /\ k[1] \in Calls
             /\ call[k[1]].pc \in {"send", "wait"} /\ call[k[1]].link = l
             /\ Id(k[1]) = k
  BY <1>2, <1>3, Identifiers DEF NothingLeft
<1>4. ASSUME k \in pending[l] \union answers[l], k[1] # c,
             \A d \in Calls \ {c} : call'[d] = call[d]
      PROVE  /\ call'[k[1]].pc \in {"send", "wait"}
             /\ call'[k[1]].link = l /\ Id(k[1])' = k
  BY <1>3, <1>4 DEF Id
<1>5. CASE Seeks(c)
  <2>1. k \in pending[l] \union answers[l] /\ call[c].pc = "idle"
    BY <1>5 DEF Seeks
  <2>2. k[1] # c
    BY <2>1, <1>3
  <2> QED
    BY <1>2, <1>4, <1>5, <2>1, <2>2, MovedOK DEF Seeks
<1>6. CASE Issues(c)
  <2>1. PICK m \in Links, a \in {1, 2} : Issue(c, m, a)
    BY <1>6 DEF Issues
  <2>2. call[c].pc \in {"idle", "seek"}
    BY <1>6 DEF Issues
  <2>3. /\ call'[c].pc = "send" /\ call'[c].link = m /\ call'[c].attempt = a
        /\ \A d \in Calls \ {c} : call'[d] = call[d]
    BY <1>2, <2>1, SendingOK DEF Issue
  <2>4. CASE k \in pending[l] \union answers[l]
    BY <1>3, <1>4, <2>2, <2>3, <2>4
  <2>5. CASE k \notin pending[l] \union answers[l]
    <3>1. k = <<c, a>> /\ l = m
      BY <1>2, <2>1, <2>5 DEF Issue
    <3>2. k[1] = c
      BY <3>1, Identifiers
    <3> QED
      BY <2>3, <3>1, <3>2 DEF Id
  <2> QED
    BY <2>4, <2>5
<1>7. CASE Sent(c)
  <2>1. k \in pending[l] \union answers[l]
    BY <1>7 DEF Sent, conns
  <2>2. /\ call'[c].pc = "wait" /\ call'[c].link = call[c].link
        /\ call'[c].attempt = call[c].attempt
        /\ \A d \in Calls \ {c} : call'[d] = call[d]
    BY <1>2, <1>7, MovedOK DEF Sent
  <2>3. CASE k[1] = c
    BY <1>3, <2>1, <2>2, <2>3 DEF Id
  <2> QED
    BY <1>4, <2>1, <2>2, <2>3
<1>8. CASE Drops(c) \/ Stops(c)
  <2>1. k \in pending[l] \union answers[l] /\ k # Id(c)
    BY <1>2, <1>8 DEF Drops, Stops, Cleaned
  <2>2. k[1] # c
    BY <1>3, <2>1
  <2>3. CASE Drops(c)
    BY <1>2, <1>4, <2>1, <2>2, <2>3, MovedOK DEF Drops
  <2>4. CASE Stops(c)
    <3>1. PICK o \in {"none", "answered", "timeout", "absent", "cancelled"} :
             call' = [call EXCEPT ![c].pc = "done", ![c].outcome = o]
      BY <2>4 DEF Stops
    <3> QED
      BY <1>2, <1>4, <2>1, <2>2, <3>1, EndedOK
  <2> QED
    BY <1>8, <2>3, <2>4
<1> QED
  BY <1>1, <1>5, <1>6, <1>7, <1>8 DEF CallSteps

LEMMA DeliverKeeps ==
    ASSUME TypeOK, NothingLeft, NEW k \in CmdIds, Execute(k) \/ Reply(k) \/ Deliver(k)
    PROVE  NothingLeft'
<1>1. UNCHANGED <<pending, call>>
  BY CmdCases
<1>2. \A l \in Links : answers'[l] \subseteq pending[l] \union answers[l]
  BY DEF Execute, Reply, Deliver, Matched, conns, TypeOK
<1> QED
  BY <1>1, <1>2 DEF NothingLeft, Id

\* No identifier and no answer outlives the call it belongs to (NothingLeft), for any
\* number of calls, links, losses, timeouts and cancellations.
THEOREM NothingOutlivesItsCall == Spec => []NothingLeft
<1>1. Init => NothingLeft
  BY DEF Init, NothingLeft
<1>2. TypeOK /\ NothingLeft /\ [Next]_vars => NothingLeft'
  <2> SUFFICES ASSUME TypeOK, NothingLeft, [Next]_vars PROVE NothingLeft'
    OBVIOUS
  <2>1. CASE LinkSteps \/ UNCHANGED vars
    <3>1. UNCHANGED <<conns, call>>
      BY <2>1, LinkStepsFrame DEF vars
    <3> QED
      BY <3>1 DEF NothingLeft, Id, conns
  <2> QED
    BY <2>1, NextCases, DeliverKeeps, CallKeeps
<1> QED
  BY <1>1, <1>2, TypeCorrect, PTL DEF Spec

-----------------------------------------------------------------------------
(* Answers and executions.  What each call knows of its two commands:      *)
(* nothing was sent for an attempt not yet made, what was sent went to the *)
(* link of its attempt, and the second attempt uses another link.          *)

AttemptsOf(c) ==
    /\ call[c].pc = "idle" => call[c].link = 0
    /\ call[c].pc \in {"idle", "seek"} => call[c].attempt = 1
    /\ call[c].link = 0 => cmd[<<c, 1>>].at = "unsent"
    /\ call[c].attempt = 1 => cmd[<<c, 2>>].at = "unsent"
    /\ call[c].pc = "send" => cmd[Id(c)].at = "unsent"
    /\ Live(Id(c)) => cmd[Id(c)].link = call[c].link
    /\ call[c].attempt = 2 /\ Live(<<c, 1>>) => cmd[<<c, 1>>].link # call[c].link
    /\ call[c].outcome = "answered" => cmd[Id(c)].at = "heard"
Heard == \A l \in Links : \A k \in answers[l] : cmd[k].at = "heard"
AnswerInv == (\A c \in Calls : AttemptsOf(c)) /\ Heard

LEMMA AnswerInit == Init => AnswerInv
<1> SUFFICES ASSUME Init PROVE AnswerInv
  OBVIOUS
<1>1. \A k \in CmdIds : cmd[k].at = "unsent"
  BY DEF Init
<1>2. \A c \in Calls : /\ call[c].pc = "idle" /\ call[c].link = 0 /\ call[c].attempt = 1
                       /\ call[c].outcome = "none"
  BY DEF Init, NewCall
<1>3. Heard
  BY DEF Init, Heard
<1> QED
  BY <1>1, <1>2, <1>3, Identifiers DEF AnswerInv, AttemptsOf, Live, Id

LEMMA AdvanceKeeps ==
    ASSUME TypeOK, AnswerInv, NEW k \in CmdIds, Execute(k) \/ Reply(k) \/ Deliver(k)
    PROVE  AnswerInv'
<1>1. Advances(k) /\ call' = call
  BY CmdCases
<1>2. \A j \in CmdIds : /\ cmd'[j].at = "unsent" <=> cmd[j].at = "unsent"
                        /\ cmd[j].at = "heard" => cmd'[j].at = "heard"
                        /\ Live(j)' <=> Live(j)
                        /\ Live(j) => cmd'[j].link = cmd[j].link
  BY <1>1 DEF Advances, Live
<1>3. \A c \in Calls : <<c, 1>> \in CmdIds /\ <<c, 2>> \in CmdIds /\ Id(c) \in CmdIds
                       /\ Id(c)' = Id(c)
  BY <1>1, Identifiers, CallOK DEF TypeOK, Id
<1>4. ASSUME NEW c \in Calls PROVE AttemptsOf(c)'
  BY <1>1, <1>2, <1>3 DEF AnswerInv, AttemptsOf
<1>5. Heard'
  <2>1. \A l \in Links : answers[l] \subseteq CmdIds
    BY DEF TypeOK
  <2>2. CASE Execute(k) \/ Reply(k)
    BY <1>2, <2>1, <2>2 DEF Execute, Reply, conns, Heard, AnswerInv
  <2>3. CASE Deliver(k)
    <3>1. cmd'[k].at = "heard"
      BY <2>3 DEF Deliver, TypeOK
    <3>2. \A l \in Links : answers'[l] \subseteq answers[l] \union {k}
      BY <2>3 DEF Deliver, Matched
    <3> QED
      BY <1>2, <2>1, <3>1, <3>2 DEF Heard, AnswerInv
  <2> QED
    BY <2>2, <2>3
<1> QED
  BY <1>4, <1>5 DEF AnswerInv

\* A command that is being sent was never sent before, so no answer is kept for it.
LEMMA WritesKeep ==
    ASSUME TypeOK, AnswerInv, NEW c \in Calls, Writes(c)
    PROVE  /\ cmd' \in [CmdIds -> CmdRec]
           /\ \A j \in CmdIds : j # Id(c) => cmd'[j] = cmd[j]
           /\ \A l \in Links : \A k \in answers[l] : cmd'[k].at = "heard"
           /\ cmd'[Id(c)].at \notin {"unsent", "lost"} => cmd'[Id(c)].link = call[c].link
           /\ cmd[Id(c)].at = "heard" => cmd'[Id(c)] = cmd[Id(c)]
<1>1. Id(c) \in CmdIds /\ cmd \in [CmdIds -> CmdRec]
      /\ \A l \in Links : answers[l] \subseteq CmdIds
  BY CallOK DEF TypeOK, CmdRec
<1>2. AttemptsOf(c) /\ Heard
  BY DEF AnswerInv
<1>3. CASE cmd' = cmd
  BY <1>1, <1>2, <1>3 DEF AttemptsOf, Heard, Live
<1>4. CASE cmd' # cmd
  <2>1. cmd[Id(c)].at = "unsent" /\ Writes(c)
    BY <1>2, <1>4 DEF Writes, AttemptsOf
  <2>2. \A l \in Links : Id(c) \notin answers[l]
    BY <1>2, <2>1 DEF Heard
  <2> QED
    BY <1>1, <1>2, <1>4, <2>1, <2>2 DEF Writes, Heard
<1> QED
  BY <1>3, <1>4

\* A call that another call leaves alone keeps what it knows.
LEMMA OthersKeep ==
    ASSUME TypeOK, AnswerInv, NEW c \in Calls, NEW d \in Calls \ {c},
           call'[d] = call[d],
           \A j \in CmdIds : j[1] # c => cmd'[j] = cmd[j]
    PROVE  AttemptsOf(d)'
<1>1. /\ <<d, 1>> \in CmdIds /\ <<d, 1>>[1] = d
      /\ <<d, 2>> \in CmdIds /\ <<d, 2>>[1] = d
      /\ Id(d) \in CmdIds /\ Id(d)[1] = d
  BY Identifiers, CallOK DEF TypeOK
<1>2. cmd'[<<d, 1>>] = cmd[<<d, 1>>] /\ cmd'[<<d, 2>>] = cmd[<<d, 2>>]
      /\ cmd'[Id(d)] = cmd[Id(d)]
  BY <1>1
<1>3. AttemptsOf(d) /\ Id(d)' = Id(d)
  BY DEF AnswerInv, Id
<1> QED
  BY <1>2, <1>3 DEF AttemptsOf, Live

LEMMA CallAnswers ==
    ASSUME TypeOK, AnswerInv, NEW c \in Calls, Start(c) \/ Looks(c) \/ Cancel(c)
    PROVE  AnswerInv'
<1>1. CallSteps(c)
  BY CallCases
<1>2. /\ call \in [Calls -> CallRec] /\ cmd \in [CmdIds -> CmdRec]
      /\ Id(c) \in CmdIds /\ Id(c)[1] = c /\ call[c].attempt \in {1, 2}
      /\ <<c, 1>> \in CmdIds /\ <<c, 2>> \in CmdIds /\ <<c, 1>> # <<c, 2>>
  BY CallOK, Identifiers DEF TypeOK, CmdRec
<1>3. AttemptsOf(c) /\ Heard
  BY DEF AnswerInv
<1>4. Id(c) = IF call[c].attempt = 1 THEN <<c, 1>> ELSE <<c, 2>>
  BY <1>2 DEF Id
<1>5. CASE Seeks(c)
  <2>1. /\ call'[c].pc = "seek" /\ call'[c].link = call[c].link
        /\ call'[c].attempt = call[c].attempt /\ call'[c].outcome = call[c].outcome
        /\ \A d \in Calls \ {c} : call'[d] = call[d]
    BY <1>2, <1>5, MovedOK DEF Seeks
  <2>2. cmd' = cmd /\ answers' = answers /\ Id(c)' = Id(c) /\ call[c].pc = "idle"
    BY <1>5, <2>1 DEF Seeks, Id
  <2>3. AttemptsOf(c)'
    BY <1>3, <2>1, <2>2 DEF AttemptsOf, Live
  <2> QED
    BY <1>3, <2>1, <2>2, <2>3, OthersKeep DEF AnswerInv, Heard
<1>6. CASE Issues(c)
  <2>1. PICK l \in Links, a \in {1, 2} :
           /\ Issue(c, l, a)
           /\ \/ call[c].pc = "idle" /\ a = 1
              \/ call[c].pc = "seek" /\ call[c].link = 0 /\ a = 1
              \/ call[c].pc = "seek" /\ call[c].link \notin {0, l} /\ a = 2
    BY <1>6 DEF Issues
  <2>2. /\ call'[c].pc = "send" /\ call'[c].link = l /\ call'[c].attempt = a
        /\ call'[c].outcome = "none"
        /\ \A d \in Calls \ {c} : call'[d] = call[d]
    BY <1>2, <2>1, SendingOK DEF Issue
  <2>3. cmd' = cmd /\ answers' = answers
    BY <2>1 DEF Issue
  <2>4. Id(c)' = <<c, a>> /\ l # 0
    BY <2>2 DEF Id, Links
  <2>5. cmd[<<c, a>>].at = "unsent"
    BY <1>3, <2>1 DEF AttemptsOf
  <2>6. a = 1 => cmd[<<c, 2>>].at = "unsent"
    BY <1>3, <2>1 DEF AttemptsOf
  <2>7. a = 2 /\ Live(<<c, 1>>) => cmd[<<c, 1>>].link # l
    BY <1>3, <1>4, <2>1 DEF AttemptsOf
  <2>8. AttemptsOf(c)'
    BY <2>2, <2>3, <2>4, <2>5, <2>6, <2>7 DEF AttemptsOf, Live
  <2> QED
    BY <1>3, <2>2, <2>3, <2>8, OthersKeep DEF AnswerInv, Heard
<1>7. CASE Sent(c) \/ Drops(c) \/ Stops(c)
  <2>1. Writes(c)
    <3>1. CASE Sent(c)
      <4>1. PICK s \in {"sent", "lost"} :
               cmd' = [cmd EXCEPT ![Id(c)] = [at |-> s, link |-> call[c].link]]
        BY <3>1 DEF Sent
      <4>2. s \in Stages /\ call[c].link \in 0..MaxLinks /\ call[c].pc = "send"
        BY <1>2, <3>1, CallOK DEF Stages, Sent
      <4>3. /\ cmd' \in [CmdIds -> CmdRec] /\ cmd'[Id(c)].at = s
            /\ cmd'[Id(c)].link = call[c].link
            /\ \A j \in CmdIds \ {Id(c)} : cmd'[j] = cmd[j]
        BY <1>2, <4>1, <4>2, SentOK
      <4> QED
        BY <4>2, <4>3 DEF Writes
    <3> QED
      BY <1>7, <3>1 DEF Drops, Stops
  <2>2. /\ \A j \in CmdIds : j # Id(c) => cmd'[j] = cmd[j]
        /\ \A l \in Links : \A k \in answers[l] : cmd'[k].at = "heard"
        /\ cmd'[Id(c)].at \notin {"unsent", "lost"} => cmd'[Id(c)].link = call[c].link
        /\ cmd[Id(c)].at = "heard" => cmd'[Id(c)] = cmd[Id(c)]
    BY <2>1, WritesKeep
  <2>3. /\ call'[c].pc \in {"wait", "seek", "done"} /\ call'[c].link = call[c].link
        /\ call'[c].attempt = call[c].attempt
        /\ call'[c].pc = "seek" => call[c].attempt = 1
        /\ call'[c].outcome = "answered" =>
              call[c].outcome = "answered" \/ (call[c].pc = "wait" /\ Answered(c))
        /\ \A d \in Calls \ {c} : call'[d] = call[d]
    <3>1. CASE Sent(c)
      BY <1>2, <3>1, MovedOK DEF Sent
    <3>2. CASE Drops(c)
      BY <1>2, <3>2, MovedOK DEF Drops
    <3>3. CASE Stops(c)
      <4>1. PICK o \in {"answered", "timeout", "absent", "cancelled"} :
               /\ o = "answered" => call[c].pc = "wait" /\ Answered(c)
               /\ call' = [call EXCEPT ![c].pc = "done", ![c].outcome = o]
        BY <3>3 DEF Stops
      <4> QED
        BY <1>2, <4>1, EndedOK
    <3> QED
      BY <1>7, <3>1, <3>2, <3>3
  <2>4. Id(c)' = Id(c)
    BY <2>3 DEF Id
  <2>5. \A l \in Links : answers'[l] \subseteq answers[l]
    BY <1>7 DEF Sent, Drops, Stops, Cleaned, conns
  <2>6. Heard'
    BY <2>2, <2>5 DEF Heard
  <2>7. call'[c].outcome = "answered" => cmd'[Id(c)].at = "heard"
    <3>1. call[c].pc = "wait" /\ Answered(c) => call[c].link \in Links
      BY CallOK, LinksAssumption DEF TypeOK, Links
    <3> QED
      BY <1>3, <2>2, <2>3, <3>1 DEF AttemptsOf, Answered
  <2>8. call[c].link = 0 => call[c].pc \notin {"send", "wait"}
    BY DEF TypeOK
  <2>9. call[c].link = 0 => cmd' = cmd
    BY <2>1, <2>8 DEF Writes
  <2>10. AttemptsOf(c)'
    <3>1. call[c].attempt = 1 => cmd'[<<c, 2>>] = cmd[<<c, 2>>]
      BY <1>2, <1>4, <2>2
    <3>2. call[c].attempt = 2 => cmd'[<<c, 1>>] = cmd[<<c, 1>>]
      BY <1>2, <1>4, <2>2
    <3> QED
      BY <1>3, <2>2, <2>3, <2>4, <2>7, <2>9, <3>1, <3>2 DEF AttemptsOf, Live
  <2>11. \A j \in CmdIds : j[1] # c => cmd'[j] = cmd[j]
    BY <1>2, <2>2
  <2>12. \A d \in Calls \ {c} : AttemptsOf(d)'
    BY <2>3, <2>11, OthersKeep
  <2> QED
    BY <2>6, <2>10, <2>12 DEF AnswerInv
<1> QED
  BY <1>1, <1>5, <1>6, <1>7 DEF CallSteps

LEMMA AnswerStep == TypeOK /\ AnswerInv /\ [Next]_vars => AnswerInv'
<1> SUFFICES ASSUME TypeOK, AnswerInv, [Next]_vars PROVE AnswerInv'
  OBVIOUS
<1>1. CASE LinkSteps \/ UNCHANGED vars
  <2>1. UNCHANGED <<conns, call, cmd>>
    BY <1>1, LinkStepsFrame DEF vars
  <2> QED
    BY <2>1 DEF AnswerInv, AttemptsOf, Heard, Live, Id, conns
<1> QED
  BY <1>1, NextCases, AdvanceKeeps, CallAnswers

LEMMA AnswersAlways == Spec => [](TypeOK /\ AnswerInv)
  BY AnswerInit, AnswerStep, TypeCorrect, PTL DEF Spec

\* An answered call has the answer of its own last command (OwnAnswer), however many
\* calls share the link and however often it is replaced.
THEOREM AnswersAreOwn == Spec => []OwnAnswer
<1>1. AnswerInv => OwnAnswer
  BY DEF AnswerInv, AttemptsOf, OwnAnswer
<1> QED
  BY <1>1, AnswersAlways, PTL

\* A command is executed at most once on each link (OncePerLink): the one retry goes
\* to another link than the first attempt.
THEOREM RetriedElsewhere == Spec => []OncePerLink
<1>1. TypeOK /\ AnswerInv => OncePerLink
  <2> SUFFICES ASSUME TypeOK, AnswerInv, NEW c \in Calls,
                      Executed(<<c, 1>>), Executed(<<c, 2>>)
               PROVE  cmd[<<c, 1>>].link # cmd[<<c, 2>>].link
    BY DEF OncePerLink
  <2>1. AttemptsOf(c) /\ Live(<<c, 1>>) /\ Live(<<c, 2>>)
    BY DEF AnswerInv, Executed, Live
  <2>2. call[c].attempt = 2
    BY <2>1, CallOK DEF AttemptsOf, Live, TypeOK
  <2> QED
    BY <2>1, <2>2 DEF AttemptsOf, Id
<1> QED
  BY <1>1, AnswersAlways, PTL

\* Between the answer and its reading nothing interferes: the call that has its answer
\* returns it or is cancelled (AnswerIsReturned).
THEOREM AnswersAreReturned == Spec => AnswerIsReturned
<1>1. ASSUME TypeOK, [Next]_vars, NEW c \in Calls, call[c].pc = "wait", Answered(c)
      PROVE  call'[c].pc = "wait" \/ call'[c].outcome \in {"answered", "cancelled"}
  <2>1. CASE LinkSteps \/ UNCHANGED vars
    BY <1>1, <2>1, LinkStepsFrame DEF vars
  <2>2. CASE \E k \in CmdIds : Execute(k) \/ Reply(k) \/ Deliver(k)
    BY <1>1, <2>2, CmdCases
  <2>3. CASE \E d \in Calls : Start(d) \/ Looks(d) \/ Cancel(d)
    <3>1. PICK d \in Calls : Start(d) \/ Looks(d) \/ Cancel(d)
      BY <2>3
    <3>2. call \in [Calls -> CallRec]
      BY <1>1 DEF TypeOK
    <3>3. CASE d # c
      BY <1>1, <3>1, <3>2, <3>3
         DEF Start, Looks, Cancel, Found, GraceOver, Sent, SendFails, Return, Notice,
             Timeout, Replaced, Ends, Issue
    <3>4. CASE d = c
      <4>1. Return(c) \/ Cancel(c)
        BY <1>1, <3>1, <3>4
           DEF Start, Looks, Found, GraceOver, Sent, SendFails, Notice, Timeout
      <4>2. PICK o \in {"answered", "cancelled"} :
               call' = [call EXCEPT ![c].pc = "done", ![c].outcome = o]
        BY <4>1 DEF Return, Cancel, Ends
      <4> QED
        BY <3>2, <4>2, EndedOK
    <3> QED
      BY <3>3, <3>4
  <2> QED
    BY <1>1, <2>1, <2>2, <2>3, NextCases
<1>2. TypeOK /\ [Next]_vars
         => [\A c \in Calls : call[c].pc = "wait" /\ Answered(c)
               => \/ call'[c].pc = "wait"
                  \/ call'[c].outcome \in {"answered", "cancelled"}]_vars
  BY <1>1
<1> QED
  BY <1>2, TypeCorrect, PTL DEF Spec, AnswerIsReturned

-----------------------------------------------------------------------------
(* The registry.  A link that was not registered has no rank, and no rank  *)
(* exceeds the number of registrations.                                    *)

RankInv == \A l \in Links : /\ rank[l] <= Cardinality(Ranked)
                            /\ wire[l] = "none" => handler[l] = "none"
                            /\ handler[l] \in {"none", "handshake"} => rank[l] = 0
FreshInv == RankInv /\ FreshStays

LEMMA FreshRegister ==
    ASSUME TypeOK, FreshInv, NEW l \in Links, Register(l)
    PROVE  FreshInv'
<1> DEFINE n == Cardinality(Ranked)
<1>1. n \in Nat /\ IsFiniteSet(Ranked)
  BY RankedCount
<1>2. rank[l] = 0 /\ l \notin Ranked
  BY DEF Register, FreshInv, RankInv, Ranked
<1>3. /\ rank' = [rank EXCEPT ![l] = n + 1] /\ current' = l /\ wire' = wire
      /\ handler' = [handler EXCEPT ![l] = "reading"]
  BY DEF Register
<1>4. Ranked' = Ranked \union {l}
  <2>1. \A m \in Links : rank'[m] > 0 <=> rank[m] > 0 \/ m = l
    BY <1>1, <1>3 DEF TypeOK
  <2> QED
    BY <2>1 DEF Ranked
<1>5. Cardinality(Ranked') = n + 1
  BY <1>1, <1>2, <1>4, FS_AddElement
<1>6. \A m \in Links \ {l} : rank'[m] = rank[m] /\ handler'[m] = handler[m]
                            /\ rank[m] \in Nat /\ rank[m] <= n
  BY <1>3 DEF TypeOK, FreshInv, RankInv
<1>7. rank'[l] = n + 1 /\ handler'[l] = "reading" /\ wire[l] # "none"
  BY <1>3 DEF TypeOK, FreshInv, RankInv, Register
<1> HIDE DEF n
<1>8. RankInv'
  BY <1>1, <1>3, <1>5, <1>6, <1>7 DEF RankInv, FreshInv
<1>9. FreshStays'
  <2> SUFFICES ASSUME NEW m \in Ranked', handler'[m] = "reading",
                      rank'[m] = Cardinality(Ranked')
               PROVE  current' = m
    BY DEF FreshStays
  <2>1. m \in Links
    BY DEF Ranked
  <2>2. ~(m \in Links \ {l})
    BY <1>1, <1>5, <1>6
  <2> QED
    BY <1>3, <2>1, <2>2
<1> QED
  BY <1>8, <1>9 DEF FreshInv

LEMMA FreshLinks ==
    ASSUME TypeOK, FreshInv, LinkSteps, ~ \E l \in Links : Register(l)
    PROVE  FreshInv'
<1>1. rank' = rank /\ Ranked' = Ranked
  BY DEF LinkSteps, Dial, DialFails, LoseSession, Cut, Refuse, HandlerEnds, links, Ranked
<1>2. RankInv'
  <2>1. \A m \in Links :
           /\ wire'[m] = "none" => wire[m] = "none" /\ handler'[m] = handler[m]
           /\ handler'[m] \in {"none", "handshake"} => handler[m] \in {"none", "handshake"}
    <3>1. CASE Dial
      BY <3>1 DEF Dial, TypeOK, FreshInv, RankInv
    <3>2. CASE DialFails \/ LoseSession
      BY <3>2 DEF DialFails, LoseSession, links
    <3>3. CASE \E l \in Links : Cut(l)
      BY <3>3 DEF Cut, TypeOK
    <3>4. CASE \E l \in Links : Refuse(l)
      BY <3>4 DEF Refuse, TypeOK
    <3>5. CASE \E l \in Links : HandlerEnds(l)
      BY <3>5 DEF HandlerEnds, TypeOK
    <3> QED
      BY <3>1, <3>2, <3>3, <3>4, <3>5 DEF LinkSteps
  <2> QED
    BY <1>1, <2>1 DEF RankInv, FreshInv
<1>3. FreshStays'
  <2>1. CASE \E l \in Links : HandlerEnds(l)
    <3>1. PICK l \in Links : HandlerEnds(l)
      BY <2>1
    <3> QED
      BY <1>1, <3>1 DEF HandlerEnds, Unregistered, FreshStays, FreshInv, TypeOK
  <2>2. CASE ~ \E l \in Links : HandlerEnds(l)
    <3>1. current' = current
      BY <2>2 DEF LinkSteps, Dial, DialFails, LoseSession, Cut, Refuse
    <3>2. \A m \in Links : handler'[m] = "reading" => handler[m] = "reading"
      BY <2>2 DEF LinkSteps, Dial, DialFails, LoseSession, Cut, Refuse, links, TypeOK
    <3> QED
      BY <1>1, <3>1, <3>2 DEF FreshStays, FreshInv, Ranked
  <2> QED
    BY <2>1, <2>2
<1> QED
  BY <1>2, <1>3 DEF FreshInv

\* The end of an old handler never takes away the connection registered last
\* (FreshStays), whatever the order in which links are lost and noticed.
THEOREM LastRegisteredStays == Spec => []FreshStays
<1>1. Init => FreshInv
  <2> SUFFICES ASSUME Init PROVE FreshInv
    OBVIOUS
  <2>1. Cardinality(Ranked) \in Nat
    BY RankedCount
  <2> QED
    BY <2>1 DEF Init, FreshInv, RankInv, FreshStays, Ranked
<1>2. TypeOK /\ FreshInv /\ [Next]_vars => FreshInv'
  <2> SUFFICES ASSUME TypeOK, FreshInv, [Next]_vars PROVE FreshInv'
    OBVIOUS
  <2>1. ASSUME UNCHANGED <<current, links>> PROVE FreshInv'
    BY <2>1 DEF FreshInv, RankInv, FreshStays, Ranked, links
  <2>2. CASE \E k \in CmdIds : Execute(k) \/ Reply(k) \/ Deliver(k)
    BY <2>1, <2>2, CmdCases
  <2>3. CASE \E c \in Calls : Start(c) \/ Looks(c) \/ Cancel(c)
    BY <2>1, <2>3, CallCases
  <2>4. CASE UNCHANGED vars
    BY <2>1, <2>4 DEF vars
  <2> QED
    BY <2>2, <2>3, <2>4, NextCases, FreshRegister, FreshLinks
<1>3. FreshInv => FreshStays
  BY DEF FreshInv
<1> QED
  BY <1>1, <1>2, <1>3, TypeCorrect, PTL DEF Spec
=============================================================================
