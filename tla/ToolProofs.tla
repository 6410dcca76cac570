------------------------------ MODULE ToolProofs ------------------------------
(***************************************************************************)
(* Theorems about ToolCall for any number of calls, undos, stopped turns   *)
(* and stops of the process.                                               *)
(***************************************************************************)
EXTENDS ToolCall, TLAPS

-----------------------------------------------------------------------------
(* Types.                                                                  *)

\* What the steps of the gateway do to the types.
LEMMA TypeWorks ==
    ASSUME TypeOK, NEW c \in Calls, Starts(c) \/ Works(c) \/ ToolEnds(c)
    PROVE  TypeOK'
<1> USE DEF TypeOK, given, jobs, journal, undoing, bounds, Go
<1>1. CASE Starts(c)
  BY <1>1 DEF Starts, Steps
<1>2. CASE Looks(c)
  BY <1>2 DEF Looks, Steps
<1>3. CASE Invokes(c)
  BY <1>3 DEF Invokes, Steps, Tools
<1>4. CASE Returns(c)
  BY <1>4 DEF Returns, After, Steps
<1>5. CASE Remembers(c)
  BY <1>5 DEF Remembers, Steps
<1>6. CASE Journals(c)
  <2>1. Records(c) \subseteq Marks
    BY DEF Records, Marks
  <2> QED
    BY <1>6, <2>1 DEF Journals, Steps
<1>7. CASE ToolEnds(c)
  BY <1>7 DEF ToolEnds, Tools
<1> QED
  BY <1>1, <1>2, <1>3, <1>4, <1>5, <1>6, <1>7 DEF Works

LEMMA TypeJobs ==
    ASSUME TypeOK, NEW c \in Calls,
           HandsOff(c) \/ Cut(c) \/ Follows(c) \/ WindowEnds(c)
    PROVE  TypeOK'
<1> USE DEF TypeOK, given, jobs, journal, undoing, bounds, Go
<1>1. CASE HandsOff(c)
  BY <1>1 DEF HandsOff, Steps
<1>2. CASE Cut(c)
  BY <1>2, CallAssumption DEF Cut, Steps, Tools
<1>3. CASE JobEnds(c)
  BY <1>3 DEF JobEnds, Spawned, Steps
<1>4. CASE JournalsJob(c)
  <2>1. Records(c) \subseteq Marks
    BY DEF Records, Marks
  <2> QED
    BY <1>4, <2>1 DEF JournalsJob
<1>5. CASE Delivers(c)
  BY <1>5 DEF Delivers
<1>6. CASE WindowEnds(c)
  BY <1>6 DEF WindowEnds
<1> QED
  BY <1>1, <1>2, <1>3, <1>4, <1>5, <1>6 DEF Follows

\* An undo is about a call once it has begun.
LEMMA UndoOK ==
    ASSUME undo \in [Undos -> UndoRec], NEW u \in Undos, NEW c \in Calls \union {Nobody},
           NEW step \in {"new", "revert", "mark", "fail", "done"}, Undo(u, step, c)
    PROVE  /\ undo' \in [Undos -> UndoRec]
           /\ undo'[u].pc = step /\ undo'[u].of = c
           /\ \A v \in Undos \ {u} : undo'[v] = undo[v]
BY DEF Undo, UndoRec

LEMMA TypeUndos ==
    ASSUME TypeOK, NEW u \in Undos,
           (\E c \in Calls : UndoReads(u, c)) \/ Reverts(u) \/ UndoMarks(u)
    PROVE  TypeOK'
<1>1. undo[u] \in UndoRec /\ undo[u].of \in Calls \union {Nobody}
  BY DEF TypeOK, UndoRec
<1>2. CASE \E c \in Calls : UndoReads(u, c)
  <2>1. PICK c \in Calls : UndoReads(u, c)
    BY <1>2
  <2>2. undo' \in [Undos -> UndoRec]
    BY <2>1, UndoOK DEF UndoReads, TypeOK
  <2> QED
    BY <2>1, <2>2 DEF UndoReads, TypeOK, Marks, given, jobs, bounds
<1>3. CASE Reverts(u)
  <2>1. undo' \in [Undos -> UndoRec]
    BY <1>1, <1>3, UndoOK DEF Reverts, TypeOK
  <2>2. undone' \in [Calls -> Nat]
    BY <1>3 DEF Reverts, TypeOK
  <2> QED
    BY <1>3, <2>1, <2>2 DEF Reverts, TypeOK, given, jobs, journal, bounds
<1>4. CASE UndoMarks(u)
  <2>1. undo' \in [Undos -> UndoRec]
    BY <1>1, <1>4, UndoOK DEF UndoMarks, TypeOK
  <2>2. row' \in [Calls -> Marks]
    BY <1>4 DEF UndoMarks, TypeOK, Marks
  <2> QED
    BY <1>4, <2>1, <2>2 DEF UndoMarks, TypeOK, given, jobs, bounds
<1> QED
  BY <1>2, <1>3, <1>4

LEMMA TypeWorld ==
    ASSUME TypeOK, Purges \/ MemoryExpires \/ Stop
    PROVE  TypeOK'
<1> USE DEF TypeOK, given, jobs, journal, undoing, bounds
<1>1. CASE Purges
  BY <1>1 DEF Purges, Marks
<1>2. CASE MemoryExpires
  BY <1>2 DEF MemoryExpires
<1>3. CASE Stop
  <2>1. undo' \in [Undos -> UndoRec]
    BY <1>3 DEF Stop, UndoRec
  <2>2. /\ pc' \in [Calls -> Steps] /\ tool' \in [Calls -> Tools]
        /\ due' \in [Calls -> SUBSET {"journal", "deliver"}]
        /\ listed' \in Calls \union {Nobody}
    BY <1>3 DEF Stop, Steps, Tools
  <2> QED
    BY <1>3, <2>1, <2>2, CallAssumption DEF Stop
<1> QED
  BY <1>1, <1>2, <1>3

\* The variables of the gateway, the jobs, the memory and the journal keep their types.
THEOREM TypeCorrect == Spec => []TypeOK
<1>1. Init => TypeOK
  BY CallAssumption DEF Init, TypeOK, Steps, Tools, Marks, UndoRec
<1>2. TypeOK /\ [Next]_vars => TypeOK'
  <2>1. CASE UNCHANGED vars
    BY <2>1 DEF TypeOK, vars, given, jobs, journal, undoing, bounds
  <2> QED
    BY <2>1, TypeWorks, TypeJobs, TypeUndos, TypeWorld DEF Next
<1> QED
  BY <1>1, <1>2, PTL DEF Spec

-----------------------------------------------------------------------------
(* What is kept.  The invariant says of each place that leads to the       *)
(* memory, the journal or a compensation what is known of the tool there.  *)

PlacesOK == \A c \in Calls :
    /\ pc[c] \in {"new", "look", "invoke"} => tool[c] = "none"
    /\ pc[c] \in {"remember", "journal"} => tool[c] = "ok"
    /\ "journal" \in due[c] => tool[c] \in {"ok", "said"}
UndosOK == \A u \in Undos :
    /\ undo[u].pc \in {"revert", "mark"} => undo[u].of \in Calls
    /\ undo[u].pc = "revert" => tool[undo[u].of] = "ok"
    /\ undo[u].pc = "mark" => undone[undo[u].of] > 0
EffectInv == PlacesOK /\ UndosOK /\ OnlyEffectsAreKept

\* Once the tool has returned, its result does not change.
LEMMA ResultStays ==
    ASSUME TypeOK, PlacesOK, [Next]_vars, NEW c \in Calls, tool[c] \in Ends
    PROVE  tool'[c] = tool[c]
<1> USE DEF TypeOK, PlacesOK, Ends
<1>1. CASE UNCHANGED tool
  BY <1>1
<1>2. CASE \E d \in Calls : Invokes(d) \/ ToolEnds(d) \/ Cut(d)
  BY <1>2 DEF Invokes, ToolEnds, Cut, Go
<1>3. CASE Stop
  BY <1>3 DEF Stop
<1> QED
  BY <1>1, <1>2, <1>3 DEF Next, Works, Starts, Looks, Returns, Remembers, Journals,
     HandsOff, Follows, JobEnds, JournalsJob, Delivers, WindowEnds, UndoReads, Reverts,
     UndoMarks, Purges, MemoryExpires, vars

LEMMA PlacesStay ==
    ASSUME TypeOK, PlacesOK, [Next]_vars
    PROVE  PlacesOK'
<1>1. \A c \in Calls : tool[c] \in Ends => tool'[c] = tool[c]
  BY ResultStays
<1> SUFFICES ASSUME NEW c \in Calls
             PROVE  /\ pc'[c] \in {"new", "look", "invoke"} => tool'[c] = "none"
                    /\ pc'[c] \in {"remember", "journal"} => tool'[c] = "ok"
                    /\ "journal" \in due'[c] => tool'[c] \in {"ok", "said"}
  BY DEF PlacesOK
<1>2. PlacesOK /\ c \in Calls
  OBVIOUS
<1> USE DEF TypeOK, PlacesOK, Go, jobs, given
<1>3. CASE UNCHANGED <<pc, tool, due>>
  BY <1>3
<1>4. CASE \E d \in Calls : Starts(d) \/ Looks(d) \/ Invokes(d)
  BY <1>4 DEF Starts, Looks, Invokes
<1>5. CASE \E d \in Calls : Returns(d) \/ Remembers(d) \/ Journals(d)
  BY <1>5 DEF Returns, After, Remembers, Journals
<1>6. CASE \E d \in Calls : ToolEnds(d) \/ HandsOff(d) \/ Cut(d)
  BY <1>1, <1>6 DEF ToolEnds, HandsOff, Cut, Ends
<1>7. CASE \E d \in Calls : Follows(d)
  BY <1>7 DEF Follows, JobEnds, Spawned, Ends, JournalsJob, Delivers
<1>8. CASE Stop
  BY <1>8 DEF Stop
<1> QED
  BY <1>3, <1>4, <1>5, <1>6, <1>7, <1>8 DEF Next, Works, WindowEnds, UndoReads, Reverts,
     UndoMarks, Purges, MemoryExpires, vars, bounds, undoing

\* An undo knows what the row told it.
LEMMA UndosStay ==
    ASSUME TypeOK, EffectInv, [Next]_vars
    PROVE  UndosOK'
<1>1. \A c \in Calls : tool[c] \in Ends => tool'[c] = tool[c]
  BY ResultStays DEF EffectInv
<1>2. \A c \in Calls : undone[c] \in Nat /\ undone'[c] \in Nat /\ undone'[c] >= undone[c]
  <2>1. CASE \E u \in Undos : Reverts(u)
    BY <2>1 DEF Reverts, TypeOK
  <2>2. CASE ~ \E u \in Undos : Reverts(u)
    BY <2>2 DEF Next, Starts, Works, ToolEnds, Looks, Invokes, Returns, Remembers,
       Journals, HandsOff, Cut, Follows, JobEnds, JournalsJob, Delivers, WindowEnds,
       UndoReads, UndoMarks, Purges, MemoryExpires, Stop, vars, undoing, TypeOK
  <2> QED
    BY <2>1, <2>2
<1>3. CASE \E u \in Undos : (\E c \in Calls : UndoReads(u, c)) \/ Reverts(u) \/ UndoMarks(u)
  <2>1. PICK u \in Undos : (\E c \in Calls : UndoReads(u, c)) \/ Reverts(u) \/ UndoMarks(u)
    BY <1>3
  <2>2. undo[u] \in UndoRec /\ tool' = tool
    BY <2>1 DEF TypeOK, UndoReads, Reverts, UndoMarks
  <2>3. ASSUME NEW c \in Calls, UndoReads(u, c) PROVE UndosOK'
    BY <1>2, <2>2, <2>3, UndoOK
    DEF UndoReads, EffectInv, UndosOK, OnlyEffectsAreKept, TypeOK, UndoRec
  <2>4. CASE Reverts(u)
    <3>1. undo[u].of \in Calls /\ undo[u].pc = "revert"
      BY <2>4 DEF Reverts, EffectInv, UndosOK
    <3>2. undo'[u].of = undo[u].of /\ undo'[u].pc \in {"mark", "fail"}
          /\ \A v \in Undos \ {u} : undo'[v] = undo[v]
      BY <2>4, <3>1, UndoOK DEF Reverts, TypeOK
    <3>3. undo'[u].pc = "mark" => undone'[undo[u].of] > 0
      BY <2>4, <3>1, UndoOK DEF Reverts, TypeOK
    <3> QED
      BY <1>2, <2>2, <3>1, <3>2, <3>3 DEF EffectInv, UndosOK
  <2>5. CASE UndoMarks(u)
    <3>1. undo'[u].pc = "done" /\ \A v \in Undos \ {u} : undo'[v] = undo[v]
      BY <2>2, <2>5, UndoOK DEF UndoMarks, TypeOK, UndoRec
    <3> QED
      BY <1>2, <2>2, <3>1 DEF EffectInv, UndosOK
  <2> QED
    BY <2>1, <2>3, <2>4, <2>5
<1>4. CASE Stop
  <2>1. \A u \in Undos : undo'[u] = undo[u] \/ undo'[u].pc = "done"
    BY <1>4 DEF Stop, TypeOK, UndoRec
  <2> QED
    BY <1>1, <1>2, <2>1 DEF EffectInv, UndosOK, Ends
<1>5. CASE undo' = undo
  BY <1>1, <1>2, <1>5 DEF EffectInv, UndosOK, Ends
<1> QED
  BY <1>3, <1>4, <1>5 DEF Next, Starts, Works, ToolEnds, Looks, Invokes, Returns, Remembers,
     Journals, HandsOff, Cut, Follows, JobEnds, JournalsJob, Delivers, WindowEnds,
     Purges, MemoryExpires, vars, undoing

\* A row is recorded only where the gateway or the job saw a success.
LEMMA EffectsStay ==
    ASSUME TypeOK, EffectInv, [Next]_vars
    PROVE  OnlyEffectsAreKept'
<1>1. \A c \in Calls : tool[c] \in Ends => tool'[c] = tool[c]
  BY ResultStays DEF EffectInv
<1>2. (memory # "none" => \E c \in Calls : tool[c] = "ok")'
  <2>1. CASE \E c \in Calls : Remembers(c)
    BY <2>1 DEF Remembers, EffectInv, PlacesOK, TypeOK
  <2>2. CASE ~ \E c \in Calls : Remembers(c)
    <3>1. memory' # "none" => memory # "none"
      BY <2>2 DEF Next, Starts, Works, ToolEnds, Looks, Invokes, Returns, Journals, HandsOff,
         Cut, Follows, JobEnds, JournalsJob, Delivers, WindowEnds, UndoReads, Reverts,
         UndoMarks, Purges, MemoryExpires, Stop, vars
    <3> QED
      BY <1>1, <3>1 DEF EffectInv, OnlyEffectsAreKept, Ends
  <2> QED
    BY <2>1, <2>2
<1>3. ASSUME NEW c \in Calls
      PROVE  /\ row'[c] = "recorded" \/ undone'[c] > 0 => tool'[c] = "ok"
             /\ row'[c] = "reverted" => undone'[c] > 0
  <2>1. /\ row[c] = "recorded" \/ undone[c] > 0 => tool'[c] = "ok"
        /\ row[c] = "reverted" => undone[c] > 0
    BY <1>1 DEF EffectInv, OnlyEffectsAreKept, Ends
  <2>2. CASE \E d \in Calls : Journals(d) \/ JournalsJob(d)
    <3>1. PICK d \in Calls : Journals(d) \/ JournalsJob(d)
      BY <2>2
    <3>2. undone' = undone /\ tool' = tool
      BY <3>1 DEF Journals, JournalsJob, undoing
    <3>3. \E mark \in Records(d) : row' = [row EXCEPT ![d] = mark]
      BY <3>1 DEF Journals, JournalsJob
    <3>4. tool[d] \in {"ok", "said"}
      BY <3>1 DEF Journals, JournalsJob, EffectInv, PlacesOK
    <3> QED
      BY <2>1, <3>2, <3>3, <3>4 DEF Records, TypeOK
  <2>3. CASE \E u \in Undos : UndoMarks(u)
    <3>1. PICK u \in Undos : UndoMarks(u)
      BY <2>3
    <3>2. undone' = undone /\ tool' = tool
      BY <3>1 DEF UndoMarks
    <3>3. undo[u].pc = "mark" => undo[u].of \in Calls /\ undone[undo[u].of] > 0
      BY DEF EffectInv, UndosOK
    <3> QED
      BY <2>1, <3>1, <3>2, <3>3 DEF UndoMarks, TypeOK
  <2>4. CASE \E u \in Undos : Reverts(u)
    <3>1. PICK u \in Undos : Reverts(u)
      BY <2>4
    <3>2. undo[u].of \in Calls /\ tool[undo[u].of] = "ok" /\ row' = row /\ tool' = tool
      BY <3>1 DEF Reverts, EffectInv, UndosOK, journal
    <3>3. undone' = undone \/ undone' = [undone EXCEPT ![undo[u].of] = @ + 1]
      BY <3>1 DEF Reverts
    <3>4. undone[c] \in Nat
      BY DEF TypeOK
    <3> QED
      BY <2>1, <3>2, <3>3, <3>4 DEF TypeOK
  <2>5. CASE Purges \/ \E u \in Undos, d \in Calls : UndoReads(u, d)
    BY <2>1, <2>5 DEF Purges, UndoReads, TypeOK, undoing
  <2>6. CASE row' = row /\ undone' = undone
    BY <2>1, <2>6
  <2> QED
    BY <2>2, <2>3, <2>4, <2>5, <2>6 DEF Next, Starts, Works, ToolEnds, Looks, Invokes, Returns,
       Remembers, HandsOff, Cut, Follows, JobEnds, Delivers, WindowEnds, MemoryExpires, Stop,
       vars, undoing, journal
<1> QED
  BY <1>2, <1>3 DEF OnlyEffectsAreKept

\* Neither the memory nor the journal holds what did not take place, and nothing is
\* reverted in name only (OnlyEffectsAreKept): for any number of equal calls, undos,
\* stopped turns and stops of the process.
THEOREM OnlyWhatHappenedIsKept == Spec => []OnlyEffectsAreKept
<1>1. Init => EffectInv
  BY DEF Init, EffectInv, PlacesOK, UndosOK, OnlyEffectsAreKept
<1>2. TypeOK /\ EffectInv /\ [Next]_vars => EffectInv'
  BY PlacesStay, UndosStay, EffectsStay DEF EffectInv
<1>3. EffectInv => OnlyEffectsAreKept
  BY DEF EffectInv
<1> QED
  BY <1>1, <1>2, <1>3, TypeCorrect, PTL DEF Spec
=============================================================================
