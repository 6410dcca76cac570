------------------------------- MODULE ToolCall -------------------------------
(***************************************************************************)
(* A tool call behind the gates: the end of execute_tool_call              *)
(* (services/tool_gateway.py), the remembered results                      *)
(* (idempotency_store.py), the hand-off of a long tool                     *)
(* (long_running_tools.py) and the journal of what can be undone           *)
(* (journal_service.py).                                                   *)
(*                                                                         *)
(* The calls are the same call again and again: same tool, same arguments, *)
(* same conversation, so that they share a fingerprint, a remembered       *)
(* result and an entry of _JOBS.  Remembered results and the journal are   *)
(* in the database; jobs and follow-ups die with the process.              *)
(***************************************************************************)
EXTENDS Naturals, FiniteSets

CONSTANTS
    Calls,    \* the calls
    Undos,    \* requests of the user to undo one of them
    Nobody,   \* no call
    Kinds,    \* subset of {"remembered", "reversible"}: what the manifest declares
    Surfaces, \* subset of {"chat", "task"}: ctx.interactive or not
    MaxCuts,  \* bound: turns the user stops
    MaxStops  \* bound: stops of the process

ASSUME CallAssumption == /\ Nobody \notin Calls
                         /\ Kinds \subseteq {"remembered", "reversible"}
                         /\ Surfaces \subseteq {"chat", "task"}
                         /\ MaxCuts \in Nat /\ MaxStops \in Nat

VARIABLES
    kind,    \* the tool's
    surface, \* surface[c]: where call c comes from
    pc,      \* pc[c]: where the gateway is with call c
    tool,    \* tool[c]: the invocation of call c
    listed,  \* _JOBS: the job under the fingerprint of the calls
    due,     \* due[c]: coroutines spawned when the job of c ended
    told,    \* the calls whose result was delivered after a hand-off
    memory,  \* idempotency_records: the row of the fingerprint
    row,     \* row[c]: the row of reversible_actions for call c
    old,     \* the rows whose window is over
    undo,    \* undo[u]: where the u-th undo is, and with which row
    undone,  \* undone[c]: how often the compensation of c ran
    cuts, stops

given   == <<kind, surface>>
jobs    == <<listed, due, told>>
journal == <<row, old>>
undoing == <<undo, undone>>
bounds  == <<cuts, stops>>
vars    == <<given, pc, tool, jobs, memory, journal, undoing, bounds>>

Steps  == {"new", "look", "invoke", "wait", "handed", "remember", "journal",
           "done", "cut"}
Ends   == {"ok", "said", "raised"}
Tools  == {"none", "running", "unknown"} \union Ends
Marks  == {"none", "recorded", "reverted", "failed", "expired", "lost", "purged"}
UndoRec == [pc : {"new", "revert", "mark", "fail", "done"}, of : Calls \union {Nobody}]

Go(c, step) == pc' = [pc EXCEPT ![c] = step]

-----------------------------------------------------------------------------
(* The gateway.                                                            *)

Starts(c) == /\ pc[c] = "new" /\ Go(c, "look")
             /\ UNCHANGED <<given, tool, jobs, memory, journal, undoing, bounds>>

\* check_idempotent: an expired row is deleted, and a look-up that fails finds nothing.
Looks(c) == /\ pc[c] = "look"
            /\ \/ /\ kind = "remembered" /\ memory = "fresh"
                  /\ Go(c, "done") /\ UNCHANGED memory
               \/ /\ Go(c, "invoke")
                  /\ memory' = IF kind = "remembered" /\ memory = "stale"
                               THEN "none" ELSE memory
            /\ UNCHANGED <<given, tool, jobs, journal, undoing, bounds>>

\* An equal call is listed: this one is told so.
Doubles(c) == surface[c] = "chat" /\ listed # Nobody

Invokes(c) == /\ pc[c] = "invoke"
              /\ IF Doubles(c) THEN Go(c, "done") /\ UNCHANGED tool
                 ELSE Go(c, "wait") /\ tool' = [tool EXCEPT ![c] = "running"]
              /\ UNCHANGED <<given, jobs, memory, journal, undoing, bounds>>

\* The tool, external: it succeeds, says in its text that it failed, or raises.
ToolEnds(c) == /\ tool[c] = "running"
               /\ \E end \in Ends : tool' = [tool EXCEPT ![c] = end]
               /\ UNCHANGED <<given, pc, jobs, memory, journal, undoing, bounds>>

\* Past the soft deadline the call becomes a job, under the key of its fingerprint.
HandsOff(c) == /\ pc[c] = "wait" /\ surface[c] = "chat" /\ tool[c] = "running"
               /\ Go(c, "handed") /\ listed' = c
               /\ UNCHANGED <<given, tool, due, told, memory, journal, undoing, bounds>>

\* A failure in text goes on like a success.
AfterAnyText(c) == IF tool[c] = "raised" THEN "done" ELSE "remember"

\* Only a success is remembered and journalled.
After(c) == IF tool[c] = "ok" THEN "remember" ELSE "done"

Returns(c) == /\ pc[c] = "wait" /\ tool[c] \in Ends /\ Go(c, After(c))
              /\ UNCHANGED <<given, tool, jobs, memory, journal, undoing, bounds>>

\* remember, which may fail.
Remembers(c) == /\ pc[c] = "remember" /\ Go(c, "journal")
                /\ \/ kind = "remembered" /\ memory' = "fresh"
                   \/ UNCHANGED memory
                /\ UNCHANGED <<given, tool, jobs, journal, undoing, bounds>>

\* record_reversible without its reading of the result.
RecordsAny(c) == IF kind # "reversible" THEN {"none"} ELSE {"recorded", "lost"}

\* record_reversible: nothing for a failure in text; a row, or "lost": the call came and
\* left no row, for the write failed, there was nothing to keep or the feature is off.
Records(c) == IF kind # "reversible" \/ tool[c] = "said" THEN {"none"}
              ELSE {"recorded", "lost"}

Journals(c) == /\ pc[c] = "journal" /\ Go(c, "done")
               /\ \E mark \in Records(c) : row' = [row EXCEPT ![c] = mark]
               /\ UNCHANGED <<given, tool, jobs, memory, old, undoing, bounds>>

\* The user stops the turn.  A call from the chat leaves the task of its tool to
\* itself; elsewhere the tool is cancelled with its caller.
Cut(c) == /\ pc[c] \in {"look", "invoke", "wait", "remember", "journal"}
          /\ cuts > 0 /\ cuts' = cuts - 1 /\ Go(c, "cut")
          /\ tool' = IF surface[c] = "task" /\ tool[c] = "running"
                     THEN [tool EXCEPT ![c] = "unknown"] ELSE tool
          /\ UNCHANGED <<given, jobs, memory, journal, undoing, stops>>

-----------------------------------------------------------------------------
(* The end of a job.                                                       *)

\* A third coroutine, that nobody runs.
SpawnedToo(c) == {"journal", "deliver", "remember"}

\* Nothing is journalled.
SpawnedWithoutJournal(c) == {"deliver"}

\* A text, whatever it says, makes the job a success.
Spawned(c) == IF tool[c] = "raised" THEN {"deliver"} ELSE {"journal", "deliver"}

\* _on_job_done.  The pop of _JOBS takes whatever job is under the key.
JobEnds(c) == /\ pc[c] = "handed" /\ tool[c] \in Ends /\ Go(c, "done")
              /\ due' = [due EXCEPT ![c] = Spawned(c)]
              /\ listed' = Nobody
              /\ UNCHANGED <<given, tool, told, memory, journal, undoing, bounds>>

\* on_success
JournalsJob(c) == /\ "journal" \in due[c]
                  /\ due' = [due EXCEPT ![c] = @ \ {"journal"}]
                  /\ \E mark \in Records(c) : row' = [row EXCEPT ![c] = mark]
                  /\ UNCHANGED <<given, pc, tool, listed, told, memory, old, undoing,
                                 bounds>>

\* _deliver_result
Delivers(c) == /\ "deliver" \in due[c]
               /\ due' = [due EXCEPT ![c] = @ \ {"deliver"}]
               /\ told' = told \union {c}
               /\ UNCHANGED <<given, pc, tool, listed, memory, journal, undoing, bounds>>

-----------------------------------------------------------------------------
(* undo.                                                                   *)

Undo(u, step, c) == undo' = [undo EXCEPT ![u] = [pc |-> step, of |-> c]]

UndoReads(u, c) ==
    /\ undo[u].pc = "new" /\ row[c] # "none"
    /\ Undo(u, IF row[c] = "recorded" /\ c \notin old THEN "revert" ELSE "done", c)
    /\ row' = IF row[c] = "recorded" /\ c \in old
              THEN [row EXCEPT ![c] = "expired"] ELSE row
    /\ UNCHANGED <<given, pc, tool, jobs, memory, old, undone, bounds>>

\* The compensation runs outside any transaction.
Reverts(u) ==
    /\ undo[u].pc = "revert"
    /\ \/ /\ undone' = [undone EXCEPT ![undo[u].of] = @ + 1]
          /\ Undo(u, "mark", undo[u].of)
       \/ undone' = undone /\ Undo(u, "fail", undo[u].of)
    /\ UNCHANGED <<given, pc, tool, jobs, memory, journal, bounds>>

UndoMarks(u) ==
    /\ undo[u].pc \in {"mark", "fail"} /\ Undo(u, "done", undo[u].of)
    /\ row' = IF row[undo[u].of] = "recorded"
              THEN [row EXCEPT ![undo[u].of] = IF undo[u].pc = "mark"
                                               THEN "reverted" ELSE "failed"]
              ELSE row
    /\ UNCHANGED <<given, pc, tool, jobs, memory, old, undone, bounds>>

\* purge_expired
Purges == /\ \E c \in old : row[c] \notin {"lost", "purged"}
          /\ row' = [c \in Calls |-> IF c \in old THEN "purged" ELSE row[c]]
          /\ UNCHANGED <<given, pc, tool, jobs, memory, old, undoing, bounds>>

-----------------------------------------------------------------------------
(* Time and stops.                                                         *)

MemoryExpires == /\ memory = "fresh" /\ memory' = "stale"
                 /\ UNCHANGED <<given, pc, tool, jobs, journal, undoing, bounds>>

WindowEnds(c) == /\ row[c] \notin {"none", "lost"} /\ c \notin old
                 /\ old' = old \union {c}
                 /\ UNCHANGED <<given, pc, tool, jobs, memory, row, undoing, bounds>>

Stop == /\ stops > 0 /\ stops' = stops - 1
        /\ pc' = [c \in Calls |-> IF pc[c] \in {"new", "done"} THEN pc[c] ELSE "cut"]
        /\ tool' = [c \in Calls |-> IF tool[c] = "running" THEN "unknown" ELSE tool[c]]
        /\ listed' = Nobody /\ due' = [c \in Calls |-> {}]
        /\ undo' = [u \in Undos |-> IF undo[u].pc = "new" THEN undo[u]
                                    ELSE [undo[u] EXCEPT !.pc = "done"]]
        /\ UNCHANGED <<given, told, memory, journal, undone, cuts>>

-----------------------------------------------------------------------------
Init == /\ kind \in Kinds /\ surface \in [Calls -> Surfaces]
        /\ pc = [c \in Calls |-> "new"] /\ tool = [c \in Calls |-> "none"]
        /\ listed = Nobody /\ due = [c \in Calls |-> {}] /\ told = {}
        /\ memory = "none" /\ row = [c \in Calls |-> "none"] /\ old = {}
        /\ undo = [u \in Undos |-> [pc |-> "new", of |-> Nobody]]
        /\ undone = [c \in Calls |-> 0]
        /\ cuts = MaxCuts /\ stops = MaxStops

Works(c) == \/ Looks(c) \/ Invokes(c) \/ Returns(c) \/ Remembers(c) \/ Journals(c)
Follows(c) == JobEnds(c) \/ JournalsJob(c) \/ Delivers(c)

Next == \/ \E c \in Calls : \/ Starts(c) \/ Works(c) \/ ToolEnds(c) \/ HandsOff(c)
                            \/ Cut(c) \/ Follows(c) \/ WindowEnds(c)
        \/ \E u \in Undos : \/ \E c \in Calls : UndoReads(u, c)
                            \/ Reverts(u) \/ UndoMarks(u)
        \/ Purges \/ MemoryExpires \/ Stop

Spec == Init /\ [][Next]_vars

\* The gateway goes on with a call once its tool has returned, and the event loop
\* runs the callback of a job and what it spawns.  Nothing is said of the tool.
FairSpec == Spec /\ \A c \in Calls : WF_vars(Works(c)) /\ WF_vars(JobEnds(c))
                                     /\ WF_vars(JournalsJob(c)) /\ WF_vars(Delivers(c))

-----------------------------------------------------------------------------
\* Types.
TypeOK == /\ kind \in Kinds /\ surface \in [Calls -> Surfaces]
          /\ pc \in [Calls -> Steps] /\ tool \in [Calls -> Tools]
          /\ listed \in Calls \union {Nobody}
          /\ due \in [Calls -> SUBSET {"journal", "deliver"}] /\ told \subseteq Calls
          /\ memory \in {"none", "fresh", "stale"}
          /\ row \in [Calls -> Marks] /\ old \subseteq Calls
          /\ undo \in [Undos -> UndoRec] /\ undone \in [Calls -> Nat]
          /\ cuts \in 0..MaxCuts /\ stops \in 0..MaxStops

\* Neither the memory nor the journal holds what did not take place: a call that
\* said it failed, in the turn or in the background, is not answered from memory to
\* the next one and leaves nothing that a compensation could undo; and a row says
\* "reverted" only when a compensation ran.
OnlyEffectsAreKept ==
    /\ memory # "none" => \E c \in Calls : tool[c] = "ok"
    /\ \A c \in Calls : row[c] = "recorded" \/ undone[c] > 0 => tool[c] = "ok"
    /\ \A c \in Calls : row[c] = "reverted" => undone[c] > 0

\* Every success of a reversible tool reaches the journal, in the turn or from the
\* background, unless the turn or the process is stopped: record_reversible is called
\* for it, which leaves a row or, best effort, none ("lost").
EffectIsJournaled == \A c \in Calls :
    (kind = "reversible" /\ tool[c] = "ok")
        ~> (row[c] # "none" \/ pc[c] = "cut" \/ stops < MaxStops)

\* A call that was handed off is delivered when its tool returns, whatever it
\* returned, unless the process stops.
JobIsDelivered == \A c \in Calls :
    (pc[c] = "handed" /\ tool[c] \in Ends) ~> (c \in told \/ stops < MaxStops)

\* What has happened has its consequences: both of the above.
OutcomesFollow == EffectIsJournaled /\ JobIsDelivered
=============================================================================
