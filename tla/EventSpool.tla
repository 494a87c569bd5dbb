----------------------------- MODULE EventSpool -----------------------------
(***************************************************************************)
(* The offline event spool of the Windows agent.  A monitor thread POSTs   *)
(* its event to /events; when that fails it appends the event to the spool *)
(* file.  After a successful heartbeat the heartbeat thread replays the    *)
(* spool, up to Batch lines, and removes or rewrites the file.             *)
(*                                                                         *)
(* spoolMutex is held for the whole of an append and of a flush, but not   *)
(* while a monitor thread POSTs.  A POST is one step with every outcome:   *)
(* requestMutex serialises the requests, and the agent changes no state    *)
(* between sending one and having its answer.  A line of the file is the   *)
(* event it holds, or Garbage when it is not the JSON of an event.  The    *)
(* variable fate is history: no guard but that of SendEvent reads it.      *)
(***************************************************************************)
EXTENDS Integers, Sequences, TLC

CONSTANTS
  Threads,     \* monitor threads that emit events
  Events,      \* events they may emit, each with an event_id of its own
  Cap,         \* MAX_SPOOL_BYTES, in lines
  Batch,       \* MAX_FLUSH_BATCH
  TornWrites,  \* whether a crash may leave a line half written
  MaxFaults,   \* bound: outages, lost answers, errors and crashes
  Garbage,     \* a line that is no event
  NoEvent      \* what an idle thread holds

ASSUME EventAssumption == Garbage \notin Events /\ NoEvent \notin Events
ASSUME SizeAssumption == Cap \in Nat \ {0} /\ Batch \in Nat \ {0}
ASSUME FaultAssumption == TornWrites \in BOOLEAN /\ MaxFaults \in Nat

\* Threads and events differ in nothing but their names.
Symmetry == Permutations(Events) \cup Permutations(Threads)

VARIABLES
  allowEvents, \* the installed policies ask for events
  up,          \* the server is reachable
  thread,      \* monitor threads
  spool,       \* lines of the spool file; <<>> when there is none
  open,        \* its last line lacks the line break
  flush,       \* the heartbeat thread's flush
  late,        \* events of requests the agent gave up and the server has not seen
  stored,      \* events in the dlp_events collection
  fate,        \* history: what has become of each event on the agent
  faults       \* faults so far

vars == <<allowEvents, up, thread, spool, open, flush, late, stored, fate, faults>>

-----------------------------------------------------------------------------

Line == Events \cup {Garbage}

Thread == [pc : {"idle", "post", "spool"}, event : Events \cup {NoEvent}]
IdleThread == [pc |-> "idle", event |-> NoEvent]

Flush == [pc : {"idle", "post", "end"}, sent : Nat]
NoFlush == [pc |-> "idle", sent |-> 0]

\* "full", "disk", "crash" and "merged" say why the agent no longer has an event.
Fates == {"new", "muted", "held", "full", "disk", "crash", "merged"}

Spooled == {spool[i] : i \in DOMAIN spool}
InHand == {thread[t].event : t \in {u \in Threads : thread[u].pc # "idle"}}

Init ==
  /\ allowEvents = FALSE
  /\ up = TRUE
  /\ thread = [t \in Threads |-> IdleThread]
  /\ spool = <<>>
  /\ open = FALSE
  /\ flush = NoFlush
  /\ late = {}
  /\ stored = {}
  /\ fate = [e \in Events |-> "new"]
  /\ faults = 0

Fault == faults < MaxFaults /\ faults' = faults + 1

\* The fate of the events of S, as far as the agent still had them.
Fated(S, why) ==
  fate' = [e \in Events |-> IF e \in S /\ fate[e] = "held" THEN why ELSE fate[e]]

-----------------------------------------------------------------------------
(* A monitor thread: SendEvent, then SpoolEvent if the POST failed *)

SendEvent(t, e) ==
  /\ thread[t].pc = "idle"
  /\ fate[e] = "new"
  /\ IF allowEvents
     THEN /\ fate' = [fate EXCEPT ![e] = "held"]
          /\ thread' = [thread EXCEPT ![t] = [pc |-> "post", event |-> e]]
     ELSE /\ fate' = [fate EXCEPT ![e] = "muted"]
          /\ UNCHANGED thread
  /\ UNCHANGED <<allowEvents, up, spool, open, flush, late, stored, faults>>

\* 200 or 201: create_event inserted the event, or had it already.
PostOk(t) ==
  /\ thread[t].pc = "post"
  /\ up
  /\ stored' = stored \cup {thread[t].event}
  /\ thread' = [thread EXCEPT ![t] = IdleThread]
  /\ UNCHANGED <<allowEvents, up, spool, open, flush, late, fate, faults>>

\* Mutant: the event is dropped when the POST fails.
PostFailedDropped(t) ==
  /\ thread[t].pc = "post"
  /\ IF up THEN Fault ELSE UNCHANGED faults
  /\ thread' = [thread EXCEPT ![t] = IdleThread]
  /\ UNCHANGED <<allowEvents, up, spool, open, flush, late, stored, fate>>

\* No connection, another status, or a timeout - the request may then still
\* reach the event collection.
PostFailed(t) ==
  /\ thread[t].pc = "post"
  /\ IF up THEN Fault ELSE UNCHANGED faults
  /\ \/ late' = late
     \/ up /\ late' = late \cup {thread[t].event}
  /\ thread' = [thread EXCEPT ![t].pc = "spool"]
  /\ UNCHANGED <<allowEvents, up, spool, open, flush, stored, fate>>

\* Mutant: the cap is compared one line late.
HasRoomOffByOne == Len(spool) <= Cap

HasRoom == Len(spool) < Cap

\* The append, under spoolMutex; onto an unfinished line it makes one line of
\* two, which is the JSON of no event.
SpoolEvent(t) ==
  LET e == thread[t].event IN
  /\ thread[t].pc = "spool"
  /\ flush.pc = "idle"
  /\ HasRoom
  /\ IF open
     THEN /\ spool' = [spool EXCEPT ![Len(spool)] = Garbage]
          /\ Fated({spool[Len(spool)], e}, "merged")
     ELSE /\ spool' = Append(spool, e)
          /\ UNCHANGED fate
  /\ open' = FALSE
  /\ thread' = [thread EXCEPT ![t] = IdleThread]
  /\ UNCHANGED <<allowEvents, up, flush, late, stored, faults>>

\* The spool is at its cap.
SpoolFull(t) ==
  /\ thread[t].pc = "spool"
  /\ flush.pc = "idle"
  /\ ~HasRoom
  /\ Fated({thread[t].event}, "full")
  /\ thread' = [thread EXCEPT ![t] = IdleThread]
  /\ UNCHANGED <<allowEvents, up, spool, open, flush, late, stored, faults>>

\* The file cannot be opened for append.
SpoolUnwritable(t) ==
  /\ thread[t].pc = "spool"
  /\ flush.pc = "idle"
  /\ HasRoom
  /\ Fault
  /\ Fated({thread[t].event}, "disk")
  /\ thread' = [thread EXCEPT ![t] = IdleThread]
  /\ UNCHANGED <<allowEvents, up, spool, open, flush, late, stored>>

-----------------------------------------------------------------------------
(* The heartbeat thread: FlushSpooledEvents after a successful heartbeat *)

FlushBegin ==
  /\ flush.pc = "idle"
  /\ up
  /\ spool # <<>>
  /\ flush' = [pc |-> "post", sent |-> 0]
  /\ UNCHANGED <<allowEvents, up, thread, spool, open, late, stored, fate, faults>>

FlushMore == flush.pc = "post" /\ flush.sent < Len(spool) /\ flush.sent < Batch

FlushPostOk ==
  LET line == spool[flush.sent + 1] IN
  /\ FlushMore
  /\ up
  /\ line # Garbage
  /\ stored' = stored \cup {line}
  /\ flush' = [flush EXCEPT !.sent = @ + 1]
  /\ UNCHANGED <<allowEvents, up, thread, spool, open, late, fate, faults>>

\* The replay stops; the server refuses Garbage (422) for ever.
FlushPostFailed ==
  LET line == spool[flush.sent + 1] IN
  /\ FlushMore
  /\ IF up /\ line # Garbage THEN Fault ELSE UNCHANGED faults
  /\ \/ late' = late
     \/ up /\ line # Garbage /\ late' = late \cup {line}
  /\ flush' = [flush EXCEPT !.pc = "end"]
  /\ UNCHANGED <<allowEvents, up, thread, spool, open, stored, fate>>

FlushStop ==
  /\ flush.pc = "post"
  /\ ~FlushMore
  /\ flush' = [flush EXCEPT !.pc = "end"]
  /\ UNCHANGED <<allowEvents, up, thread, spool, open, late, stored, fate, faults>>

\* Mutant: the file is removed after a full batch too.
UnsentDropsBatchTail == IF flush.sent = Batch THEN <<>>
                        ELSE SubSeq(spool, flush.sent + 1, Len(spool))

Unsent == SubSeq(spool, flush.sent + 1, Len(spool))

\* Remove the file when every line was sent, else rewrite what is unsent; an
\* unfinished last line is finished by the rewrite.
FlushEnd ==
  /\ flush.pc = "end"
  /\ spool' = Unsent
  /\ open' = FALSE
  /\ flush' = NoFlush
  /\ UNCHANGED <<allowEvents, up, thread, late, stored, fate, faults>>

\* The file cannot be removed or opened for the rewrite: it stays as it was.
FlushUnwritable ==
  /\ flush.pc = "end"
  /\ Fault
  /\ flush' = NoFlush
  /\ UNCHANGED <<allowEvents, up, thread, spool, open, late, stored, fate>>

\* The first k unsent lines, and perhaps half of the next.
ShortRewrite(k, torn) ==
  /\ k < Len(Unsent)
  /\ spool' = IF torn THEN Append(SubSeq(Unsent, 1, k), Garbage) ELSE SubSeq(Unsent, 1, k)
  /\ open' = torn

\* The disk is full after the file was truncated: the writes fail unnoticed.
FlushShort ==
  /\ flush.pc = "end"
  /\ Fault
  /\ \E k \in 0 .. Len(spool), torn \in {FALSE, TornWrites} :
       /\ ShortRewrite(k, torn)
       /\ Fated({Unsent[i] : i \in k + 1 .. Len(Unsent)}, "disk")
  /\ flush' = NoFlush
  /\ UNCHANGED <<allowEvents, up, thread, late, stored>>

-----------------------------------------------------------------------------
(* Environment *)

\* A policy bundle is applied.
ApplyPolicies ==
  /\ allowEvents' = ~allowEvents
  /\ UNCHANGED <<up, thread, spool, open, flush, late, stored, fate, faults>>

Down ==
  /\ up
  /\ Fault
  /\ up' = FALSE
  /\ UNCHANGED <<allowEvents, thread, spool, open, flush, late, stored, fate>>

Up ==
  /\ ~up
  /\ up' = TRUE
  /\ UNCHANGED <<allowEvents, thread, spool, open, flush, late, stored, fate, faults>>

\* A request the agent has given up is processed after all.
LateArrives(e) ==
  /\ e \in late
  /\ stored' = stored \cup {e}
  /\ late' = late \ {e}
  /\ UNCHANGED <<allowEvents, up, thread, spool, open, flush, fate, faults>>

LateVanishes(e) ==
  /\ e \in late
  /\ late' = late \ {e}
  /\ UNCHANGED <<allowEvents, up, thread, spool, open, flush, stored, fate, faults>>

\* The process dies and is started again: what its threads held is gone.
Restarted ==
  /\ Fault
  /\ thread' = [t \in Threads |-> IdleThread]
  /\ flush' = NoFlush
  /\ allowEvents' = FALSE
  /\ UNCHANGED <<up, late, stored>>

Crash ==
  /\ Restarted
  /\ Fated(InHand, "crash")
  /\ UNCHANGED <<spool, open>>

\* It dies in SpoolEvent: the line is there without its line break, or half.
CrashInAppend(t) ==
  /\ TornWrites
  /\ thread[t].pc = "spool"
  /\ flush.pc = "idle"
  /\ HasRoom
  /\ Restarted
  /\ \E line \in {thread[t].event, Garbage} :
       IF open
       THEN /\ spool' = [spool EXCEPT ![Len(spool)] = Garbage]
            /\ Fated(InHand \cup {spool[Len(spool)]}, "crash")
       ELSE /\ spool' = Append(spool, line)
            /\ Fated(IF line = Garbage THEN InHand
                     ELSE InHand \ {line}, "crash")
  /\ open' = TRUE

\* It dies in the rewrite of FlushSpooledEvents, after the file was truncated.
CrashInRewrite ==
  /\ flush.pc = "end"
  /\ Restarted
  /\ \E k \in 0 .. Len(spool), torn \in {FALSE, TornWrites} :
       /\ ShortRewrite(k, torn)
       /\ Fated(InHand \cup {Unsent[i] : i \in k + 1 .. Len(Unsent)}, "crash")

ThreadNext(t) ==
  \/ \E e \in Events : SendEvent(t, e)
  \/ PostOk(t) \/ PostFailed(t)
  \/ SpoolEvent(t) \/ SpoolFull(t) \/ SpoolUnwritable(t)
  \/ CrashInAppend(t)

FlushNext ==
  \/ FlushBegin \/ FlushPostOk \/ FlushPostFailed \/ FlushStop
  \/ FlushEnd \/ FlushUnwritable \/ FlushShort \/ CrashInRewrite

Next ==
  \/ \E t \in Threads : ThreadNext(t)
  \/ FlushNext
  \/ \E e \in Events : LateArrives(e) \/ LateVanishes(e)
  \/ ApplyPolicies \/ Down \/ Up \/ Crash

Spec == Init /\ [][Next]_vars

\* Outages end, threads run on, and the heartbeat comes round again
\* (HeartbeatLoop), which sleeps between two flushes with spoolMutex free: a
\* waiting thread gets it.  Events, faults and policies come as they please.
Fairness ==
  /\ WF_vars(Up)
  /\ \A t \in Threads : /\ WF_vars(PostOk(t) \/ PostFailed(t))
                        /\ SF_vars(SpoolEvent(t) \/ SpoolFull(t))
  /\ WF_vars(FlushBegin)
  /\ WF_vars(FlushPostOk \/ FlushPostFailed \/ FlushStop)
  /\ WF_vars(FlushEnd)

FairSpec == Spec /\ Fairness

-----------------------------------------------------------------------------
(* Properties *)

\* Types of every variable; the spool never outgrows its cap.
TypeOK ==
  /\ allowEvents \in BOOLEAN
  /\ up \in BOOLEAN
  /\ thread \in [Threads -> Thread]
  /\ spool \in Seq(Line)
  /\ Len(spool) <= Cap
  /\ open \in BOOLEAN
  /\ flush \in Flush
  /\ late \subseteq Events
  /\ stored \subseteq Events
  /\ fate \in [Events -> Fates]
  /\ faults \in 0 .. MaxFaults

\* "instead of being silently dropped": an event SendEvent accepted is stored,
\* or held by its thread, or a line of the spool, or was given up for a cause
\* the code names - full spool, failed write, crash - whatever threads, flush,
\* batches, timeouts and restarts do to one another.
NothingVanishes ==
  \A e \in Events : fate[e] = "held" => e \in stored \cup InHand \cup Spooled

\* "a corrupt line can never merge with its neighbors on replay".
CorruptLineNeverMerges == \A e \in Events : fate[e] # "merged"

\* "dropping events until server reconnects and flushes it": the spool of an
\* agent that can reach its server is emptied in the end.
FlushedAfterReconnect == []<>(~up \/ spool = <<>>)

\* What the agent promises of its events, as EventDelivery states it.
Status ==
  [e \in Events |->
     CASE e \in stored                             -> "stored"
       [] e \notin stored /\ fate[e] \in {"new", "muted"} -> fate[e]
       [] e \notin stored /\ fate[e] = "held"      -> "open"
       [] OTHER                                    -> "lost"]

Delivery == INSTANCE EventDelivery WITH status <- Status

\* Every event the agent accepted is stored in the end, or given up for a cause.
EventsDelivered == Delivery!Spec
=============================================================================
