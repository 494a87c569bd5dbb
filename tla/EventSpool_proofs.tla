-------------------------- MODULE EventSpool_proofs --------------------------
(***************************************************************************)
(* Proofs about EventSpool: for any number of threads and events, any cap  *)
(* and batch size, with and without torn writes.                           *)
(*                                                                         *)
(* NothingVanishes is not inductive: that a flush may drop the lines it    *)
(* has sent rests on those lines being stored, and that an append or a     *)
(* crash accounts for what a thread held rests on a busy thread holding    *)
(* an event.  IInv adds both.                                              *)
(***************************************************************************)
EXTENDS EventSpool, SequenceTheorems, TLAPS

\* A thread that is not idle holds an event.
BusyHold == \A t \in Threads : thread[t].pc # "idle" => thread[t].event \in Events

\* What a flush has passed is stored, and an idle one has passed nothing.
SentStored == /\ flush.pc = "idle" => flush.sent = 0
              /\ flush.sent <= Len(spool)
              /\ \A i \in 1 .. flush.sent : spool[i] \in stored

\* Only a line can be unfinished.
OpenLine == open => spool # <<>>

Aux == BusyHold /\ SentStored /\ OpenLine

IInv == TypeOK /\ Aux /\ NothingVanishes

-----------------------------------------------------------------------------
(* Lines of sequences *)

LEMMA AppendLines ==
  ASSUME NEW S, NEW s \in Seq(S), NEW x \in S
  PROVE  /\ Append(s, x) \in Seq(S)
         /\ Len(Append(s, x)) = Len(s) + 1
         /\ \A i \in 1 .. Len(s) : Append(s, x)[i] = s[i]
         /\ Append(s, x)[Len(s) + 1] = x
  BY AppendProperties

LEMMA ReplaceLine ==
  ASSUME NEW S, NEW s \in Seq(S), NEW x \in S, NEW n \in 1 .. Len(s)
  PROVE  /\ [s EXCEPT ![n] = x] \in Seq(S)
         /\ Len([s EXCEPT ![n] = x]) = Len(s)
         /\ \A i \in 1 .. Len(s) : i # n => [s EXCEPT ![n] = x][i] = s[i]
  BY ExceptSeq

\* The tail a flush keeps, and the part of it a short rewrite keeps.
LEMMA TailLines ==
  ASSUME NEW S, NEW s \in Seq(S), NEW m \in Nat, m <= Len(s)
  PROVE  /\ SubSeq(s, m + 1, Len(s)) \in Seq(S)
         /\ Len(SubSeq(s, m + 1, Len(s))) = Len(s) - m
         /\ \A i \in 1 .. Len(s) - m : SubSeq(s, m + 1, Len(s))[i] = s[m + i]
  BY SubSeqProperties

LEMMA HeadLines ==
  ASSUME NEW S, NEW s \in Seq(S), NEW k \in Nat, k <= Len(s)
  PROVE  /\ SubSeq(s, 1, k) \in Seq(S)
         /\ Len(SubSeq(s, 1, k)) = k
         /\ \A i \in 1 .. k : SubSeq(s, 1, k)[i] = s[i]
  BY SubSeqProperties

-----------------------------------------------------------------------------
(* The helpers of the model *)

LEMMA FatedFacts ==
  ASSUME fate \in [Events -> Fates], NEW S,
         NEW why \in {"full", "disk", "crash", "merged"}, Fated(S, why)
  PROVE  /\ fate' \in [Events -> Fates]
         /\ \A e \in Events : fate'[e] = "held" => fate[e] = "held" /\ e \notin S
  BY DEF Fated, Fates

LEMMA SpooledAt ==
  ASSUME spool \in Seq(Line), NEW e
  PROVE  e \in Spooled <=> \E i \in 1 .. Len(spool) : spool[i] = e
  BY LenProperties DEF Spooled

\* SpooledAt of the next state.
LEMMA SpooledAtNext ==
  ASSUME spool' \in Seq(Line), NEW e
  PROVE  e \in Spooled' <=> \E i \in 1 .. Len(spool') : spool'[i] = e
  BY LenProperties DEF Spooled

LEMMA InHandAt ==
  ASSUME NEW e
  PROVE  e \in InHand <=> \E t \in Threads : thread[t].pc # "idle" /\ thread[t].event = e
  BY DEF InHand

LEMMA InHandAtNext ==
  ASSUME NEW e
  PROVE  e \in InHand' <=> \E t \in Threads : thread'[t].pc # "idle" /\ thread'[t].event = e
  BY DEF InHand

\* NothingVanishes is preserved when every event still held keeps a place.
LEMMA StillSomewhere ==
  ASSUME NothingVanishes,
         \A e \in Events : fate'[e] = "held" =>
           /\ fate[e] = "held"
           /\ e \in stored \cup InHand \cup Spooled => e \in stored' \cup InHand' \cup Spooled'
  PROVE  NothingVanishes'
  BY DEF NothingVanishes

\* A line is sent, and so stored, or part of what a flush keeps.
LEMMA UnsentLines ==
  ASSUME TypeOK, SentStored
  PROVE  /\ Unsent \in Seq(Line)
         /\ Len(Unsent) \in Nat
         /\ Len(Unsent) <= Len(spool)
         /\ \A e \in Spooled : e \in stored \/ \E i \in 1 .. Len(Unsent) : Unsent[i] = e
<1>1. /\ spool \in Seq(Line)
      /\ flush.sent \in Nat
      /\ flush.sent <= Len(spool)
      /\ Len(spool) \in Nat
  BY LenProperties DEF TypeOK, SentStored, Flush
<1>2. /\ Unsent \in Seq(Line)
      /\ Len(Unsent) = Len(spool) - flush.sent
      /\ \A i \in 1 .. Len(spool) - flush.sent : Unsent[i] = spool[flush.sent + i]
  BY <1>1, TailLines DEF Unsent
<1>3. ASSUME NEW e \in Spooled
      PROVE  e \in stored \/ \E i \in 1 .. Len(Unsent) : Unsent[i] = e
  <2>1. PICK j \in 1 .. Len(spool) : spool[j] = e
    BY <1>1, <1>3, SpooledAt
  <2>2. CASE j <= flush.sent
    BY <1>1, <2>1, <2>2 DEF SentStored
  <2>3. CASE j > flush.sent
    <3>1. /\ j - flush.sent \in 1 .. Len(Unsent)
          /\ flush.sent + (j - flush.sent) = j
      BY <1>1, <1>2, <2>1, <2>3
    <3>2. Unsent[j - flush.sent] = e
      BY <1>2, <2>1, <3>1
    <3> QED BY <3>1, <3>2
  <2> QED BY <1>1, <2>1, <2>2, <2>3
<1> QED BY <1>1, <1>2, <1>3

\* A rewrite that stops after k lines loses the lines after those and no other.
LEMMA ShortRewriteLines ==
  ASSUME TypeOK, SentStored,
         NEW k \in 0 .. Len(spool), NEW torn \in BOOLEAN, ShortRewrite(k, torn)
  PROVE  /\ spool' \in Seq(Line)
         /\ Len(spool') <= Len(spool)
         /\ open' \in BOOLEAN
         /\ open' => spool' # <<>>
         /\ \A e \in Spooled : \/ e \in stored
                               \/ e \in {Unsent[i] : i \in k + 1 .. Len(Unsent)}
                               \/ e \in Spooled'
<1>1. /\ Unsent \in Seq(Line)
      /\ Len(Unsent) \in Nat
      /\ Len(Unsent) <= Len(spool)
      /\ Len(spool) \in Nat
      /\ \A e \in Spooled : e \in stored \/ \E i \in 1 .. Len(Unsent) : Unsent[i] = e
  BY UnsentLines, LenProperties DEF TypeOK
<1>2. k \in Nat /\ k < Len(Unsent)
  BY <1>1 DEF ShortRewrite
<1> DEFINE head == SubSeq(Unsent, 1, k)
<1>3. /\ head \in Seq(Line)
      /\ Len(head) = k
      /\ \A i \in 1 .. k : head[i] = Unsent[i]
  BY <1>1, <1>2, HeadLines
<1>4. /\ Append(head, Garbage) \in Seq(Line)
      /\ Append(head, Garbage) # <<>>
      /\ Len(Append(head, Garbage)) = k + 1
      /\ \A i \in 1 .. k : Append(head, Garbage)[i] = head[i]
  BY <1>3, AppendProperties, Garbage \in Line DEF Line
<1>5. spool' = (IF torn THEN Append(head, Garbage) ELSE head) /\ open' = torn
  BY DEF ShortRewrite
<1> HIDE DEF head
<1>6. /\ spool' \in Seq(Line)
      /\ Len(spool') <= Len(spool)
      /\ Len(spool') >= k /\ Len(spool') \in Nat
      /\ open' \in BOOLEAN
      /\ open' => spool' # <<>>
      /\ \A i \in 1 .. k : spool'[i] = Unsent[i]
  <2>1. CASE torn
    BY <1>1, <1>2, <1>3, <1>4, <1>5, <2>1
  <2>2. CASE ~torn
    BY <1>1, <1>2, <1>3, <1>5, <2>2
  <2> QED BY <2>1, <2>2
<1>7. ASSUME NEW e \in Spooled, e \notin stored
      PROVE  \/ e \in {Unsent[i] : i \in k + 1 .. Len(Unsent)}
             \/ e \in Spooled'
  <2>1. PICK i \in 1 .. Len(Unsent) : Unsent[i] = e
    BY <1>1, <1>7
  <2>2. CASE i <= k
    <3>1. i \in 1 .. Len(spool') /\ spool'[i] = e
      BY <1>1, <1>2, <1>6, <2>1, <2>2
    <3> QED BY <1>6, <3>1, SpooledAtNext
  <2>3. CASE i > k
    BY <1>1, <1>2, <2>1, <2>3
  <2> QED BY <1>2, <2>2, <2>3
<1> QED BY <1>6, <1>7

-----------------------------------------------------------------------------
(* The invariant: monitor threads *)

LEMMA InitInv == Init => IInv
<1> SUFFICES ASSUME Init PROVE IInv
  OBVIOUS
<1>1. TypeOK
  <2>1. Len(spool) = 0 /\ spool \in Seq(Line)
    BY EmptySeq DEF Init
  <2>2. IdleThread \in Thread /\ NoFlush \in Flush
    BY DEF IdleThread, Thread, NoFlush, Flush
  <2>3. thread \in [Threads -> Thread] /\ fate \in [Events -> Fates]
    BY <2>2 DEF Init, Fates
  <2>4. Len(spool) <= Cap /\ faults \in 0 .. MaxFaults
    BY <2>1, SizeAssumption, FaultAssumption DEF Init
  <2> QED
    BY <2>1, <2>2, <2>3, <2>4 DEF Init, TypeOK
<1>2. Aux
  BY <1>1, LenProperties
  DEF Init, Aux, BusyHold, SentStored, OpenLine, IdleThread, NoFlush, TypeOK
<1>3. NothingVanishes
  BY DEF Init, NothingVanishes
<1> QED BY <1>1, <1>2, <1>3 DEF IInv

LEMMA SendEventInv ==
  ASSUME IInv, NEW t \in Threads, NEW e \in Events, SendEvent(t, e)
  PROVE  IInv'
<1>1. TypeOK'
  BY DEF IInv, TypeOK, SendEvent, Thread, Fates
<1>2. Aux'
  BY DEF IInv, TypeOK, Aux, BusyHold, SentStored, OpenLine, SendEvent, Thread
<1>3. NothingVanishes'
  <2> SUFFICES ASSUME NEW d \in Events, fate'[d] = "held"
               PROVE  d \in stored' \cup InHand' \cup Spooled'
    BY DEF NothingVanishes
  <2>1. stored' = stored /\ Spooled' = Spooled
    BY DEF SendEvent, Spooled
  <2>2. ASSUME d \in InHand PROVE d \in InHand'
    <3>1. PICK u \in Threads : thread[u].pc # "idle" /\ thread[u].event = d
      BY <2>2, InHandAt
    <3>2. u # t
      BY <3>1 DEF SendEvent
    <3>3. thread'[u] = thread[u]
      BY <3>2 DEF SendEvent, IInv, TypeOK
    <3> QED BY <3>1, <3>3, InHandAtNext
  <2>3. CASE d = e
    <3>1. allowEvents
      BY <2>3 DEF SendEvent, IInv, TypeOK
    <3>2. thread'[t] = [pc |-> "post", event |-> e]
      BY <3>1 DEF SendEvent, IInv, TypeOK
    <3> QED BY <2>3, <3>2, InHandAtNext
  <2>4. CASE d # e
    <3>1. fate[d] = "held"
      BY <2>4 DEF SendEvent, IInv, TypeOK
    <3> QED BY <2>1, <2>2, <3>1 DEF IInv, NothingVanishes
  <2> QED BY <2>3, <2>4
<1> QED BY <1>1, <1>2, <1>3 DEF IInv

\* A thread t that lets go of its event, or goes on to the append with it, and
\* the others that keep theirs.
LEMMA OneThread ==
  ASSUME IInv, NEW t \in Threads, NEW r \in Thread,
         r.pc # "idle" => r.event = thread[t].event,
         thread[t].pc # "idle",
         thread' = [thread EXCEPT ![t] = r]
  PROVE  /\ thread' \in [Threads -> Thread]
         /\ BusyHold'
         /\ thread[t].event \in Events
         /\ \A d \in InHand : d \in InHand' \/ (r.pc = "idle" /\ d = thread[t].event)
<1>1. thread \in [Threads -> Thread] /\ BusyHold
  BY DEF IInv, TypeOK, Aux
<1>2. thread' \in [Threads -> Thread]
  BY <1>1
<1>3. thread'[t] = r /\ \A u \in Threads : u # t => thread'[u] = thread[u]
  BY <1>1
<1>4. BusyHold'
  BY <1>1, <1>3 DEF BusyHold
<1>5. ASSUME NEW d \in InHand
      PROVE  d \in InHand' \/ (r.pc = "idle" /\ d = thread[t].event)
  <2>1. PICK u \in Threads : thread[u].pc # "idle" /\ thread[u].event = d
    BY <1>5, InHandAt
  <2>2. CASE u # t
    <3>1. thread'[u].pc # "idle" /\ thread'[u].event = d
      BY <1>3, <2>1, <2>2
    <3> QED BY <3>1, InHandAtNext
  <2>3. CASE u = t
    BY <1>3, <2>1, <2>3, InHandAtNext
  <2> QED BY <2>2, <2>3
<1> QED BY <1>1, <1>2, <1>4, <1>5 DEF BusyHold

LEMMA PostOkInv ==
  ASSUME IInv, NEW t \in Threads, PostOk(t)
  PROVE  IInv'
<1>1. /\ thread' = [thread EXCEPT ![t] = IdleThread]
      /\ thread[t].pc # "idle"
      /\ stored' = stored \cup {thread[t].event}
      /\ UNCHANGED <<allowEvents, up, spool, open, flush, late, fate, faults>>
  BY DEF PostOk
<1>2. IdleThread \in Thread /\ IdleThread.pc = "idle"
  BY DEF IdleThread, Thread
<1>3. /\ thread' \in [Threads -> Thread]
      /\ BusyHold'
      /\ thread[t].event \in Events
      /\ \A d \in InHand : d \in InHand' \/ d = thread[t].event
  BY <1>1, <1>2, OneThread
<1>4. TypeOK'
  BY <1>1, <1>3 DEF IInv, TypeOK
<1>5. Aux'
  BY <1>1, <1>3 DEF IInv, Aux, SentStored, OpenLine
<1>6. NothingVanishes'
  <2>1. Spooled' = Spooled
    BY <1>1 DEF Spooled
  <2> QED BY <1>1, <1>3, <2>1, StillSomewhere DEF IInv
<1> QED BY <1>4, <1>5, <1>6 DEF IInv

LEMMA PostFailedInv ==
  ASSUME IInv, NEW t \in Threads, PostFailed(t)
  PROVE  IInv'
<1> DEFINE r == [thread[t] EXCEPT !.pc = "spool"]
<1>1. /\ thread' = [thread EXCEPT ![t] = r]
      /\ thread[t].pc # "idle"
      /\ UNCHANGED <<allowEvents, up, spool, open, flush, stored, fate>>
  BY DEF PostFailed
<1>2. r \in Thread /\ r.pc = "spool" /\ r.event = thread[t].event
  BY DEF IInv, TypeOK, Thread
<1> HIDE DEF r
<1>3. /\ thread' \in [Threads -> Thread]
      /\ BusyHold'
      /\ thread[t].event \in Events
      /\ \A d \in InHand : d \in InHand'
  BY <1>1, <1>2, OneThread
<1>4. late' \subseteq Events /\ faults' \in 0 .. MaxFaults
  BY <1>3, FaultAssumption DEF PostFailed, Fault, IInv, TypeOK
<1>5. TypeOK'
  BY <1>1, <1>3, <1>4 DEF IInv, TypeOK
<1>6. Aux'
  BY <1>1, <1>3 DEF IInv, Aux, SentStored, OpenLine
<1>7. NothingVanishes'
  <2>1. Spooled' = Spooled
    BY <1>1 DEF Spooled
  <2> QED BY <1>1, <1>3, <2>1, StillSomewhere DEF IInv
<1> QED BY <1>5, <1>6, <1>7 DEF IInv

\* The three ends of an append that is not interrupted: the thread is idle
\* again, and the flush is idle and stays so.
LEMMA SpoolEventInv ==
  ASSUME IInv, NEW t \in Threads, SpoolEvent(t)
  PROVE  IInv'
<1> DEFINE e == thread[t].event
<1>1. /\ thread' = [thread EXCEPT ![t] = IdleThread]
      /\ thread[t].pc # "idle"
      /\ flush.pc = "idle"
      /\ Len(spool) < Cap
      /\ open' = FALSE
      /\ UNCHANGED <<allowEvents, up, flush, late, stored, faults>>
  BY DEF SpoolEvent, HasRoom
<1>2. IdleThread \in Thread /\ IdleThread.pc = "idle"
  BY DEF IdleThread, Thread
<1>3. /\ thread' \in [Threads -> Thread]
      /\ BusyHold'
      /\ e \in Events
      /\ \A d \in InHand : d \in InHand' \/ d = e
  BY <1>1, <1>2, OneThread
<1>4. /\ spool \in Seq(Line) /\ Len(spool) \in Nat
      /\ fate \in [Events -> Fates]
      /\ flush.sent = 0
      /\ open => Len(spool) \in 1 .. Len(spool)
  BY <1>1, LenProperties, EmptySeq DEF IInv, TypeOK, Aux, SentStored, OpenLine
<1>5. Garbage \in Line /\ e \in Line
  BY <1>3 DEF Line
<1> HIDE DEF e
<1>6. CASE open
  <2>1. /\ spool' = [spool EXCEPT ![Len(spool)] = Garbage]
        /\ Fated({spool[Len(spool)], e}, "merged")
    BY <1>6 DEF SpoolEvent, e
  <2>2. /\ spool' \in Seq(Line) /\ Len(spool') = Len(spool)
        /\ \A i \in 1 .. Len(spool) : i # Len(spool) => spool'[i] = spool[i]
    BY <1>4, <1>5, <1>6, <2>1, ReplaceLine
  <2>3. /\ fate' \in [Events -> Fates]
        /\ \A d \in Events : fate'[d] = "held" =>
             fate[d] = "held" /\ d \notin {spool[Len(spool)], e}
    BY <1>4, <2>1, FatedFacts
  <2>4. TypeOK'
    BY <1>1, <1>3, <2>2, <2>3 DEF IInv, TypeOK
  <2>5. Aux'
    BY <1>1, <1>3, <1>4, <2>2 DEF IInv, Aux, SentStored, OpenLine
  <2>6. ASSUME NEW d \in Spooled, d # spool[Len(spool)] PROVE d \in Spooled'
    <3>1. PICK i \in 1 .. Len(spool) : spool[i] = d
      BY <1>4, <2>6, SpooledAt
    <3>2. i \in 1 .. Len(spool') /\ spool'[i] = d
      BY <2>2, <2>6, <3>1
    <3> QED BY <2>2, <3>2, SpooledAtNext
  <2>7. NothingVanishes'
    BY <1>1, <1>3, <2>3, <2>6, StillSomewhere DEF IInv
  <2> QED BY <2>4, <2>5, <2>7 DEF IInv
<1>7. CASE ~open
  <2>1. spool' = Append(spool, e) /\ fate' = fate
    BY <1>7 DEF SpoolEvent, e
  <2>2. /\ spool' \in Seq(Line) /\ Len(spool') = Len(spool) + 1
        /\ \A i \in 1 .. Len(spool) : spool'[i] = spool[i]
        /\ spool'[Len(spool) + 1] = e
    BY <1>4, <1>5, <2>1, AppendLines
  <2>3. TypeOK'
    <3>1. Len(spool') <= Cap
      BY <1>1, <1>4, <2>2, SizeAssumption
    <3>2. fate' \in [Events -> Fates]
      BY <1>4, <2>1
    <3> QED BY <1>1, <1>3, <2>2, <3>1, <3>2 DEF IInv, TypeOK
  <2>4. Aux'
    BY <1>1, <1>3, <1>4, <2>2 DEF IInv, Aux, SentStored, OpenLine
  <2>5. ASSUME NEW d \in Spooled \cup {e} PROVE d \in Spooled'
    <3>1. CASE d = e
      BY <1>4, <2>2, <3>1, SpooledAtNext
    <3>2. CASE d \in Spooled
      <4>1. PICK i \in 1 .. Len(spool) : spool[i] = d
        BY <1>4, <3>2, SpooledAt
      <4>2. i \in 1 .. Len(spool') /\ spool'[i] = d
        BY <1>4, <2>2, <4>1
      <4> QED BY <2>2, <4>2, SpooledAtNext
    <3> QED BY <2>5, <3>1, <3>2
  <2>6. NothingVanishes'
    BY <1>1, <1>3, <2>1, <2>5, StillSomewhere DEF IInv
  <2> QED BY <2>3, <2>4, <2>6 DEF IInv
<1> QED BY <1>6, <1>7

LEMMA SpoolLostInv ==
  ASSUME IInv, NEW t \in Threads, SpoolFull(t) \/ SpoolUnwritable(t)
  PROVE  IInv'
<1> DEFINE e == thread[t].event
<1>1. /\ thread' = [thread EXCEPT ![t] = IdleThread]
      /\ thread[t].pc # "idle"
      /\ UNCHANGED <<allowEvents, up, spool, open, flush, late, stored>>
  BY DEF SpoolFull, SpoolUnwritable
<1>2. IdleThread \in Thread /\ IdleThread.pc = "idle"
  BY DEF IdleThread, Thread
<1>3. /\ thread' \in [Threads -> Thread]
      /\ BusyHold'
      /\ \A d \in InHand : d \in InHand' \/ d = e
  BY <1>1, <1>2, OneThread
<1>4. fate \in [Events -> Fates] /\ faults \in 0 .. MaxFaults
  BY DEF IInv, TypeOK
<1> HIDE DEF e
<1>5. /\ fate' \in [Events -> Fates]
      /\ \A d \in Events : fate'[d] = "held" => fate[d] = "held" /\ d \notin {e}
  <2>1. Fated({e}, "full") \/ Fated({e}, "disk")
    BY DEF SpoolFull, SpoolUnwritable, e
  <2> QED BY <1>4, <2>1, FatedFacts
<1>6. faults' \in 0 .. MaxFaults
  BY <1>4, FaultAssumption DEF SpoolFull, SpoolUnwritable, Fault
<1>7. TypeOK'
  BY <1>1, <1>3, <1>5, <1>6 DEF IInv, TypeOK
<1>8. Aux'
  BY <1>1, <1>3 DEF IInv, Aux, SentStored, OpenLine
<1>9. NothingVanishes'
  <2>1. Spooled' = Spooled
    BY <1>1 DEF Spooled
  <2> QED BY <1>1, <1>3, <1>5, <2>1, StillSomewhere DEF IInv
<1> QED BY <1>7, <1>8, <1>9 DEF IInv

\* Nothing but a flush has a hand on the spool while it runs.
LEMMA CrashInv ==
  ASSUME IInv, Crash
  PROVE  IInv'
<1>1. /\ thread' = [t \in Threads |-> IdleThread]
      /\ flush' = NoFlush
      /\ allowEvents' = FALSE
      /\ UNCHANGED <<up, late, stored, spool, open>>
      /\ faults' \in 0 .. MaxFaults
  BY FaultAssumption DEF Crash, Restarted, Fault, IInv, TypeOK
<1>2. /\ fate' \in [Events -> Fates]
      /\ \A d \in Events : fate'[d] = "held" => fate[d] = "held" /\ d \notin InHand
  BY FatedFacts DEF Crash, IInv, TypeOK
<1>3. IdleThread \in Thread /\ IdleThread.pc = "idle" /\ NoFlush \in Flush /\ NoFlush.sent = 0
  BY DEF IdleThread, Thread, NoFlush, Flush
<1>4. TypeOK'
  BY <1>1, <1>2, <1>3 DEF IInv, TypeOK
<1>5. Aux'
  BY <1>1, <1>3, LenProperties DEF IInv, TypeOK, Aux, BusyHold, SentStored, OpenLine
<1>6. NothingVanishes'
  <2>1. Spooled' = Spooled
    BY <1>1 DEF Spooled
  <2> QED BY <1>1, <1>2, <2>1, StillSomewhere DEF IInv
<1> QED BY <1>4, <1>5, <1>6 DEF IInv

LEMMA CrashInAppendInv ==
  ASSUME IInv, NEW t \in Threads, CrashInAppend(t)
  PROVE  IInv'
<1> DEFINE e == thread[t].event
<1>1. /\ thread[t].pc # "idle"
      /\ Len(spool) < Cap
      /\ thread' = [u \in Threads |-> IdleThread]
      /\ flush' = NoFlush
      /\ allowEvents' = FALSE
      /\ open' = TRUE
      /\ UNCHANGED <<up, late, stored>>
      /\ faults' \in 0 .. MaxFaults
  BY FaultAssumption DEF CrashInAppend, HasRoom, Restarted, Fault, IInv, TypeOK
<1>2. IdleThread \in Thread /\ IdleThread.pc = "idle" /\ NoFlush \in Flush /\ NoFlush.sent = 0
  BY DEF IdleThread, Thread, NoFlush, Flush
<1>3. /\ spool \in Seq(Line) /\ Len(spool) \in Nat
      /\ fate \in [Events -> Fates]
      /\ open => Len(spool) \in 1 .. Len(spool)
      /\ e \in Events
  BY <1>1, LenProperties, EmptySeq DEF IInv, TypeOK, Aux, OpenLine, BusyHold
<1>4. PICK line \in {e, Garbage} :
        IF open
        THEN /\ spool' = [spool EXCEPT ![Len(spool)] = Garbage]
             /\ Fated(InHand \cup {spool[Len(spool)]}, "crash")
        ELSE /\ spool' = Append(spool, line)
             /\ Fated(IF line = Garbage THEN InHand ELSE InHand \ {line}, "crash")
  BY DEF CrashInAppend
<1>5. Garbage \in Line /\ line \in Line
  BY <1>3, <1>4 DEF Line
<1> HIDE DEF e
<1>6. ASSUME /\ spool' \in Seq(Line) /\ Len(spool') <= Cap
             /\ Len(spool') \in Nat \ {0}
             /\ fate' \in [Events -> Fates]
             /\ \A d \in Events : fate'[d] = "held" =>
                  /\ fate[d] = "held"
                  /\ d \in Spooled \cup InHand => d \in Spooled'
      PROVE  IInv'
  <2>1. TypeOK'
    BY <1>1, <1>2, <1>6 DEF IInv, TypeOK
  <2>2. BusyHold' /\ SentStored'
    BY <1>1, <1>2, <1>6 DEF BusyHold, SentStored
  <2>3. OpenLine'
    BY <1>6, EmptySeq DEF OpenLine
  <2>4. NothingVanishes'
    BY <1>1, <1>6, StillSomewhere DEF IInv
  <2> QED BY <2>1, <2>2, <2>3, <2>4 DEF IInv, Aux
<1>7. CASE open
  <2>1. /\ spool' \in Seq(Line) /\ Len(spool') = Len(spool)
        /\ \A i \in 1 .. Len(spool) : i # Len(spool) => spool'[i] = spool[i]
    BY <1>3, <1>4, <1>5, <1>7, ReplaceLine
  <2>2. /\ fate' \in [Events -> Fates]
        /\ \A d \in Events : fate'[d] = "held" =>
             fate[d] = "held" /\ d \notin InHand \cup {spool[Len(spool)]}
    BY <1>3, <1>4, <1>7, FatedFacts
  <2>3. ASSUME NEW d \in Spooled, d # spool[Len(spool)] PROVE d \in Spooled'
    <3>1. PICK i \in 1 .. Len(spool) : spool[i] = d
      BY <1>3, <2>3, SpooledAt
    <3>2. i \in 1 .. Len(spool') /\ spool'[i] = d
      BY <2>1, <2>3, <3>1
    <3> QED BY <2>1, <3>2, SpooledAtNext
  <2>4. Len(spool') <= Cap /\ Len(spool') \in Nat \ {0}
    BY <1>1, <1>3, <1>7, <2>1, SizeAssumption
  <2> QED BY <1>6, <2>1, <2>2, <2>3, <2>4
<1>8. CASE ~open
  <2>1. /\ spool' = Append(spool, line)
        /\ Fated(IF line = Garbage THEN InHand ELSE InHand \ {line}, "crash")
    BY <1>4, <1>8
  <2>2. /\ spool' \in Seq(Line) /\ Len(spool') = Len(spool) + 1
        /\ \A i \in 1 .. Len(spool) : spool'[i] = spool[i]
        /\ spool'[Len(spool) + 1] = line
    BY <1>3, <1>5, <2>1, AppendLines
  <2>3. /\ fate' \in [Events -> Fates]
        /\ \A d \in Events : fate'[d] = "held" =>
             fate[d] = "held" /\ (d \in InHand => d = line)
    BY <1>3, <2>1, FatedFacts
  <2>4. ASSUME NEW d \in Spooled \cup {line} PROVE d \in Spooled'
    <3>1. CASE d = line
      BY <1>3, <2>2, <3>1, SpooledAtNext
    <3>2. CASE d \in Spooled
      <4>1. PICK i \in 1 .. Len(spool) : spool[i] = d
        BY <1>3, <3>2, SpooledAt
      <4>2. i \in 1 .. Len(spool') /\ spool'[i] = d
        BY <1>3, <2>2, <4>1
      <4> QED BY <2>2, <4>2, SpooledAtNext
    <3> QED BY <2>4, <3>1, <3>2
  <2>5. Len(spool') <= Cap /\ Len(spool') \in Nat \ {0}
    BY <1>1, <1>3, <2>2, SizeAssumption
  <2> QED BY <1>6, <2>2, <2>3, <2>4, <2>5
<1> QED BY <1>7, <1>8

-----------------------------------------------------------------------------
(* The invariant: the flush *)

\* A step of the flush that leaves file and threads alone.
LEMMA FlushPostInv ==
  ASSUME IInv, FlushBegin \/ FlushPostOk \/ FlushPostFailed \/ FlushStop \/ FlushUnwritable
  PROVE  IInv'
<1>1. UNCHANGED <<allowEvents, up, thread, spool, open, fate>>
  BY DEF FlushBegin, FlushPostOk, FlushPostFailed, FlushStop, FlushUnwritable
<1>2. /\ flush \in Flush /\ spool \in Seq(Line) /\ Len(spool) \in Nat
      /\ late \subseteq Events /\ stored \subseteq Events
      /\ faults \in 0 .. MaxFaults
      /\ SentStored
  BY LenProperties DEF IInv, TypeOK, Aux
<1>3. flush.pc \in {"idle", "post", "end"} /\ flush.sent \in Nat
  BY <1>2 DEF Flush
<1>4. FlushMore => flush.sent + 1 \in 1 .. Len(spool) /\ spool[flush.sent + 1] \in Line
  BY <1>2, <1>3, ElementOfSeq DEF FlushMore
<1>5. FlushMore /\ spool[flush.sent + 1] # Garbage => spool[flush.sent + 1] \in Events
  BY <1>4 DEF Line
<1>6. /\ flush' \in Flush /\ late' \subseteq Events /\ stored' \subseteq Events
      /\ stored \subseteq stored'
      /\ faults' \in 0 .. MaxFaults
      /\ SentStored'
  <2>1. CASE FlushBegin
    BY <1>1, <1>2, <2>1 DEF FlushBegin, Flush, SentStored
  <2>2. CASE FlushPostOk
    <3>1. flush'.pc = flush.pc /\ flush'.sent = flush.sent + 1 /\ flush' \in Flush
      BY <1>2, <1>3, <2>2 DEF FlushPostOk, Flush
    <3>2. flush'.pc = "post" /\ stored' = stored \cup {spool[flush.sent + 1]}
      BY <2>2, <3>1 DEF FlushPostOk, FlushMore
    <3>3. flush'.sent <= Len(spool')
      BY <1>1, <1>4, <2>2, <3>1 DEF FlushPostOk
    <3>4. ASSUME NEW i \in 1 .. flush'.sent PROVE spool'[i] \in stored'
      <4>1. i \in 1 .. flush.sent \/ i = flush.sent + 1
        BY <1>3, <3>1
      <4> QED BY <1>1, <1>2, <3>2, <4>1 DEF SentStored
    <3> QED BY <1>2, <1>5, <2>2, <3>1, <3>2, <3>3, <3>4 DEF FlushPostOk, SentStored
  <2>3. CASE FlushPostFailed
    <3>1. flush'.pc = "end" /\ flush'.sent = flush.sent /\ flush' \in Flush
      BY <1>2, <1>3, <2>3 DEF FlushPostFailed, Flush
    <3>2. late' \subseteq Events /\ stored' = stored /\ faults' \in 0 .. MaxFaults
      BY <1>2, <1>5, <2>3, FaultAssumption DEF FlushPostFailed, Fault
    <3> QED BY <1>1, <1>2, <3>1, <3>2 DEF SentStored
  <2>4. CASE FlushStop
    <3>1. flush'.pc = "end" /\ flush'.sent = flush.sent /\ flush' \in Flush
      BY <1>2, <1>3, <2>4 DEF FlushStop, Flush
    <3> QED BY <1>1, <1>2, <2>4, <3>1 DEF FlushStop, SentStored
  <2>5. CASE FlushUnwritable
    <3>1. flush'.pc = "idle" /\ flush'.sent = 0 /\ flush' \in Flush
      BY <2>5 DEF FlushUnwritable, NoFlush, Flush
    <3>2. faults' \in 0 .. MaxFaults /\ stored' = stored /\ late' = late
      BY <1>2, <2>5, FaultAssumption DEF FlushUnwritable, Fault
    <3> QED BY <1>1, <1>2, <3>1, <3>2 DEF SentStored
  <2> QED BY <2>1, <2>2, <2>3, <2>4, <2>5
<1>7. TypeOK'
  BY <1>1, <1>6 DEF IInv, TypeOK
<1>8. Aux'
  BY <1>1, <1>6 DEF IInv, Aux, BusyHold, OpenLine
<1>9. NothingVanishes'
  <2>1. Spooled' = Spooled /\ InHand' = InHand
    BY <1>1 DEF Spooled, InHand
  <2> QED BY <1>1, <1>6, <2>1, StillSomewhere DEF IInv
<1> QED BY <1>7, <1>8, <1>9 DEF IInv

LEMMA FlushEndInv ==
  ASSUME IInv, FlushEnd
  PROVE  IInv'
<1>1. /\ spool' = Unsent /\ open' = FALSE /\ flush' = NoFlush
      /\ UNCHANGED <<allowEvents, up, thread, late, stored, fate, faults>>
  BY DEF FlushEnd
<1>2. /\ spool' \in Seq(Line)
      /\ Len(spool') \in Nat
      /\ Len(spool') <= Len(spool)
      /\ \A e \in Spooled : e \in stored \/ \E i \in 1 .. Len(spool') : spool'[i] = e
  BY <1>1, UnsentLines DEF IInv, Aux
<1>3. NoFlush \in Flush /\ NoFlush.sent = 0
  BY DEF NoFlush, Flush
<1>4. Len(spool') <= Cap
  BY <1>2, LenProperties, SizeAssumption DEF IInv, TypeOK
<1>5. TypeOK'
  BY <1>1, <1>2, <1>3, <1>4 DEF IInv, TypeOK
<1>6. Aux'
  BY <1>1, <1>2, <1>3 DEF IInv, Aux, BusyHold, SentStored, OpenLine
<1>7. NothingVanishes'
  <2>1. InHand' = InHand
    BY <1>1 DEF InHand
  <2>2. ASSUME NEW e \in Spooled PROVE e \in stored \/ e \in Spooled'
    BY <1>2, <2>2, SpooledAtNext
  <2> QED BY <1>1, <2>1, <2>2, StillSomewhere DEF IInv
<1> QED BY <1>5, <1>6, <1>7 DEF IInv

\* A rewrite that stops early: without a crash, and with one.
LEMMA ShortRewriteInv ==
  ASSUME IInv, NEW k \in 0 .. Len(spool), NEW torn \in {FALSE, TornWrites},
         ShortRewrite(k, torn),
         NEW S, NEW why \in {"disk", "crash"}, Fated(S, why),
         {Unsent[i] : i \in k + 1 .. Len(Unsent)} \subseteq S,
         thread' \in [Threads -> Thread], BusyHold',
         \A d \in InHand : d \in S \/ d \in InHand',
         allowEvents' \in BOOLEAN, faults' \in 0 .. MaxFaults,
         flush' = NoFlush, UNCHANGED <<up, late, stored>>
  PROVE  IInv'
<1>1. torn \in BOOLEAN
  BY FaultAssumption
<1>2. /\ spool' \in Seq(Line)
      /\ Len(spool') <= Len(spool)
      /\ open' \in BOOLEAN
      /\ open' => spool' # <<>>
      /\ \A e \in Spooled : e \in stored \/ e \in S \/ e \in Spooled'
  BY <1>1, ShortRewriteLines DEF IInv, Aux
<1>3. /\ fate' \in [Events -> Fates]
      /\ \A e \in Events : fate'[e] = "held" => fate[e] = "held" /\ e \notin S
  BY FatedFacts DEF IInv, TypeOK
<1>4. NoFlush \in Flush /\ NoFlush.sent = 0
  BY DEF NoFlush, Flush
<1>5. Len(spool') <= Cap /\ Len(spool') \in Nat
  BY <1>2, LenProperties, SizeAssumption DEF IInv, TypeOK
<1>6. TypeOK'
  BY <1>2, <1>3, <1>4, <1>5 DEF IInv, TypeOK
<1>7. Aux'
  BY <1>2, <1>4, <1>5 DEF Aux, SentStored, OpenLine
<1>8. NothingVanishes'
  BY <1>2, <1>3, StillSomewhere DEF IInv
<1> QED BY <1>6, <1>7, <1>8 DEF IInv

LEMMA FlushShortInv ==
  ASSUME IInv, FlushShort
  PROVE  IInv'
<1>1. PICK k \in 0 .. Len(spool), torn \in {FALSE, TornWrites} :
        /\ ShortRewrite(k, torn)
        /\ Fated({Unsent[i] : i \in k + 1 .. Len(Unsent)}, "disk")
  BY DEF FlushShort
<1>2. /\ UNCHANGED <<allowEvents, up, thread, late, stored>>
      /\ flush' = NoFlush
      /\ faults' \in 0 .. MaxFaults
  BY FaultAssumption DEF FlushShort, Fault, IInv, TypeOK
<1>3. /\ thread' \in [Threads -> Thread]
      /\ allowEvents' \in BOOLEAN
      /\ BusyHold'
      /\ InHand' = InHand
  BY <1>2 DEF IInv, TypeOK, Aux, BusyHold, InHand
<1> DEFINE S == {Unsent[i] : i \in k + 1 .. Len(Unsent)}
<1>4. Fated(S, "disk") /\ {Unsent[i] : i \in k + 1 .. Len(Unsent)} \subseteq S
  BY <1>1
<1> HIDE DEF S
<1> QED BY <1>1, <1>2, <1>3, <1>4, ShortRewriteInv

LEMMA CrashInRewriteInv ==
  ASSUME IInv, CrashInRewrite
  PROVE  IInv'
<1>1. PICK k \in 0 .. Len(spool), torn \in {FALSE, TornWrites} :
        /\ ShortRewrite(k, torn)
        /\ Fated(InHand \cup {Unsent[i] : i \in k + 1 .. Len(Unsent)}, "crash")
  BY DEF CrashInRewrite
<1>2. /\ UNCHANGED <<up, late, stored>>
      /\ flush' = NoFlush
      /\ allowEvents' = FALSE
      /\ thread' = [t \in Threads |-> IdleThread]
      /\ faults' \in 0 .. MaxFaults
  <2>1. Restarted
    BY DEF CrashInRewrite
  <2>2. faults \in 0 .. MaxFaults
    BY DEF IInv, TypeOK
  <2> QED BY <2>1, <2>2, FaultAssumption DEF Restarted, Fault
<1>3. IdleThread \in Thread /\ IdleThread.pc = "idle"
  BY DEF IdleThread, Thread
<1>4. thread' \in [Threads -> Thread] /\ BusyHold'
  BY <1>2, <1>3 DEF BusyHold
<1>6. allowEvents' \in BOOLEAN
  BY <1>2
<1> DEFINE S == InHand \cup {Unsent[i] : i \in k + 1 .. Len(Unsent)}
<1>5. /\ Fated(S, "crash")
      /\ {Unsent[i] : i \in k + 1 .. Len(Unsent)} \subseteq S
      /\ \A d \in InHand : d \in S
  BY <1>1
<1> HIDE DEF S
<1> QED BY <1>1, <1>2, <1>4, <1>5, <1>6, ShortRewriteInv

-----------------------------------------------------------------------------
(* The invariant: environment, and all of it *)

LEMMA EnvironmentInv ==
  ASSUME IInv,
         \/ \E e \in Events : LateArrives(e) \/ LateVanishes(e)
         \/ ApplyPolicies \/ Down \/ Up
  PROVE  IInv'
<1>1. /\ UNCHANGED <<thread, spool, open, flush, fate>>
      /\ stored \subseteq stored'
  BY DEF LateArrives, LateVanishes, ApplyPolicies, Down, Up
<1>2. /\ stored' \subseteq Events /\ late' \subseteq Events
      /\ allowEvents' \in BOOLEAN /\ up' \in BOOLEAN
      /\ faults' \in 0 .. MaxFaults
  <2>1. /\ stored \subseteq Events /\ late \subseteq Events
        /\ allowEvents \in BOOLEAN /\ up \in BOOLEAN
        /\ faults \in 0 .. MaxFaults
    BY DEF IInv, TypeOK
  <2>2. CASE \E e \in Events : LateArrives(e) \/ LateVanishes(e)
    BY <2>1, <2>2 DEF LateArrives, LateVanishes
  <2>3. CASE ApplyPolicies
    <3>1. UNCHANGED <<up, stored, late, faults>> /\ allowEvents' = ~allowEvents
      BY <2>3 DEF ApplyPolicies
    <3>2. allowEvents' \in BOOLEAN
      BY <2>1, <3>1, Zenon
    <3> QED BY <2>1, <3>1, <3>2
  <2>5. CASE Up
    <3>1. UNCHANGED <<allowEvents, stored, late, faults>> /\ up' = TRUE
      BY <2>5 DEF Up
    <3> QED BY <2>1, <3>1
  <2>4. CASE Down
    <3>1. UNCHANGED <<allowEvents, stored, late>> /\ up' = FALSE /\ Fault
      BY <2>4 DEF Down
    <3>2. faults' \in 0 .. MaxFaults
      BY <2>1, <3>1, FaultAssumption DEF Fault
    <3> QED BY <2>1, <3>1, <3>2
  <2> QED BY <2>2, <2>3, <2>4, <2>5
<1>3. TypeOK'
  BY <1>1, <1>2 DEF IInv, TypeOK
<1>4. Aux'
  BY <1>1 DEF IInv, Aux, BusyHold, SentStored, OpenLine
<1>5. NothingVanishes'
  <2>1. Spooled' = Spooled /\ InHand' = InHand
    BY <1>1 DEF Spooled, InHand
  <2> QED BY <1>1, <2>1, StillSomewhere DEF IInv
<1> QED BY <1>3, <1>4, <1>5 DEF IInv

LEMMA StutterInv == IInv /\ UNCHANGED vars => IInv'
<1> SUFFICES ASSUME IInv, UNCHANGED vars PROVE IInv'
  OBVIOUS
<1>1. TypeOK'
  BY DEF IInv, TypeOK, vars
<1>2. Aux'
  BY DEF IInv, Aux, BusyHold, SentStored, OpenLine, vars
<1>3. NothingVanishes'
  BY DEF IInv, NothingVanishes, Spooled, InHand, vars
<1> QED BY <1>1, <1>2, <1>3 DEF IInv

LEMMA StepInv == IInv /\ [Next]_vars => IInv'
<1> SUFFICES ASSUME IInv, [Next]_vars PROVE IInv'
  OBVIOUS
<1>1. ASSUME NEW t \in Threads, ThreadNext(t) PROVE IInv'
  <2>1. CASE \E e \in Events : SendEvent(t, e)
    BY <2>1, SendEventInv
  <2>2. CASE PostOk(t) \/ PostFailed(t)
    BY <2>2, PostOkInv, PostFailedInv
  <2>3. CASE SpoolEvent(t) \/ SpoolFull(t) \/ SpoolUnwritable(t)
    BY <2>3, SpoolEventInv, SpoolLostInv
  <2>4. CASE CrashInAppend(t)
    BY <2>4, CrashInAppendInv
  <2> QED BY <1>1, <2>1, <2>2, <2>3, <2>4 DEF ThreadNext
<1>2. CASE FlushNext
  BY <1>2, FlushPostInv, FlushEndInv, FlushShortInv, CrashInRewriteInv DEF FlushNext
<1>3. CASE \/ \E e \in Events : LateArrives(e) \/ LateVanishes(e)
           \/ ApplyPolicies \/ Down \/ Up
  BY <1>3, EnvironmentInv
<1>4. CASE Crash
  BY <1>4, CrashInv
<1>5. CASE UNCHANGED vars
  BY <1>5, StutterInv
<1> QED BY <1>1, <1>2, <1>3, <1>4, <1>5 DEF Next

LEMMA Invariant == Spec => []IInv
<1>1. Init => IInv
  BY InitInv
<1>2. IInv /\ [Next]_vars => IInv'
  BY StepInv
<1> QED BY <1>1, <1>2, PTL DEF Spec

\* Every reachable state of SendEvent, SpoolEvent and FlushSpooledEvents is
\* well typed and the spool stays within MAX_SPOOL_BYTES.
THEOREM TypeCorrect == Spec => []TypeOK
<1>1. IInv => TypeOK
  BY DEF IInv
<1> QED BY <1>1, Invariant, PTL

\* No event accepted by SendEvent vanishes between its thread, the spool file
\* and the server without a cause the code names.
THEOREM NothingVanishesHolds == Spec => []NothingVanishes
<1>1. IInv => NothingVanishes
  BY DEF IInv
<1> QED BY <1>1, Invariant, PTL

-----------------------------------------------------------------------------
(* The spool implements the safety part of EventDelivery *)

LEMMA StatusOf ==
  ASSUME NEW e \in Events, fate[e] \in Fates
  PROVE  /\ e \in stored => Status[e] = "stored"
         /\ e \notin stored /\ fate[e] \in {"new", "muted"} => Status[e] = fate[e]
         /\ e \notin stored /\ fate[e] = "held" => Status[e] = "open"
         /\ e \notin stored /\ fate[e] \notin {"new", "muted", "held"} => Status[e] = "lost"
<1> DEFINE s == CASE e \in stored -> "stored"
                  [] e \notin stored /\ fate[e] \in {"new", "muted"} -> fate[e]
                  [] e \notin stored /\ fate[e] = "held" -> "open"
                  [] OTHER -> "lost"
<1>1. Status[e] = s
  BY DEF Status
<1>2. CASE e \in stored
  BY <1>1, <1>2
<1>3. CASE e \notin stored /\ fate[e] \in {"new", "muted"}
  BY <1>1, <1>3
<1>4. CASE e \notin stored /\ fate[e] = "held"
  BY <1>1, <1>4
<1>5. CASE e \notin stored /\ fate[e] \notin {"new", "muted", "held"}
  BY <1>1, <1>5
<1> QED BY <1>2, <1>3, <1>4, <1>5

\* An event not yet sent, or discarded unsent, is nowhere.
Accepted ==
  \A e \in Events : fate[e] \in {"new", "muted"} =>
    e \notin InHand \cup Spooled \cup late \cup stored

LEMMA InitAccepted == Init => Accepted
<1> SUFFICES ASSUME Init PROVE Accepted
  OBVIOUS
<1>1. InHand = {} /\ late = {} /\ stored = {}
  BY DEF Init, InHand, IdleThread
<1>2. Spooled = {}
  BY DEF Init, Spooled
<1> QED BY <1>1, <1>2 DEF Accepted

\* A step after which no event is anywhere it was not before, of the events
\* that had been accepted.
LEMMA NoNewPlace ==
  ASSUME Accepted,
         \A e \in Events : fate'[e] \in {"new", "muted"} => fate'[e] = fate[e],
         \A e \in Events : e \in InHand' \cup Spooled' \cup late' \cup stored' =>
           e \in InHand \cup Spooled \cup late \cup stored
  PROVE  Accepted'
  BY DEF Accepted

\* Giving events up neither accepts one nor takes that back.
LEMMA FatedAccepts ==
  ASSUME fate \in [Events -> Fates], NEW S,
         NEW why \in {"full", "disk", "crash", "merged"}, Fated(S, why)
  PROVE  \A e \in Events : fate'[e] \in {"new", "muted"} => fate'[e] = fate[e]
  BY DEF Fated, Fates

LEMMA SendEventAccepted ==
  ASSUME IInv, Accepted, NEW t \in Threads, NEW e \in Events, SendEvent(t, e)
  PROVE  Accepted'
<1>1. /\ Spooled' = Spooled /\ late' = late /\ stored' = stored
      /\ fate \in [Events -> Fates] /\ fate[e] = "new"
  BY DEF SendEvent, Spooled, IInv, TypeOK
<1>2. CASE allowEvents
  <2>1. /\ fate' = [fate EXCEPT ![e] = "held"]
        /\ thread' = [thread EXCEPT ![t] = [pc |-> "post", event |-> e]]
    BY <1>2 DEF SendEvent
  <2>2. ASSUME NEW d \in InHand' PROVE d \in InHand \/ d = e
    <3>1. PICK u \in Threads : thread'[u].pc # "idle" /\ thread'[u].event = d
      BY <2>2, InHandAtNext
    <3>2. CASE u = t
      BY <2>1, <3>1, <3>2 DEF IInv, TypeOK
    <3>3. CASE u # t
      <4>1. thread'[u] = thread[u]
        BY <2>1, <3>3 DEF IInv, TypeOK
      <4> QED BY <3>1, <4>1, InHandAt
    <3> QED BY <3>2, <3>3
  <2>3. \A d \in Events : fate'[d] \in {"new", "muted"} => d # e /\ fate[d] \in {"new", "muted"}
    BY <1>1, <2>1
  <2> QED BY <1>1, <2>2, <2>3 DEF Accepted
<1>3. CASE ~allowEvents
  <2>1. fate' = [fate EXCEPT ![e] = "muted"] /\ thread' = thread
    BY <1>3 DEF SendEvent
  <2>2. InHand' = InHand
    BY <2>1 DEF InHand
  <2>3. \A d \in Events : fate'[d] \in {"new", "muted"} => fate[d] \in {"new", "muted"}
    BY <1>1, <2>1
  <2> QED BY <1>1, <2>2, <2>3 DEF Accepted
<1> QED BY <1>2, <1>3

\* After a step of thread t no other thread holds anything new.
LEMMA OneHand ==
  ASSUME IInv, NEW t \in Threads, NEW r \in Thread,
         r.pc # "idle" => r.event = thread[t].event,
         thread[t].pc # "idle",
         thread' = [thread EXCEPT ![t] = r]
  PROVE  InHand' \subseteq InHand /\ thread[t].event \in InHand
<1>1. thread'[t] = r /\ \A u \in Threads : u # t => thread'[u] = thread[u]
  BY DEF IInv, TypeOK
<1>2. thread[t].event \in InHand
  BY InHandAt
<1>3. ASSUME NEW d \in InHand' PROVE d \in InHand
  <2>1. PICK u \in Threads : thread'[u].pc # "idle" /\ thread'[u].event = d
    BY <1>3, InHandAtNext
  <2>2. CASE u = t
    BY <1>1, <1>2, <2>1, <2>2
  <2>3. CASE u # t
    <3>1. thread[u].pc # "idle" /\ thread[u].event = d
      BY <1>1, <2>1, <2>3
    <3> QED BY <3>1, InHandAt
  <2> QED BY <2>2, <2>3
<1> QED BY <1>2, <1>3

\* What an append, a rewrite and a crash in either leave in the spool was there
\* before, or was in the hand of the thread that appends.
LEMMA RewrittenLines ==
  ASSUME IInv, NEW k \in 0 .. Len(spool), NEW torn \in BOOLEAN, ShortRewrite(k, torn)
  PROVE  \A e \in Events : e \in Spooled' => e \in Spooled
<1>1. /\ spool \in Seq(Line) /\ Len(spool) \in Nat
      /\ flush.sent \in Nat /\ flush.sent <= Len(spool)
  BY LenProperties DEF IInv, TypeOK, Aux, SentStored, Flush
<1>2. /\ Unsent \in Seq(Line)
      /\ Len(Unsent) = Len(spool) - flush.sent
      /\ \A i \in 1 .. Len(spool) - flush.sent : Unsent[i] = spool[flush.sent + i]
  BY <1>1, TailLines DEF Unsent
<1>3. k \in Nat /\ k < Len(Unsent)
  BY <1>1 DEF ShortRewrite
<1> DEFINE head == SubSeq(Unsent, 1, k)
<1>4. /\ head \in Seq(Line)
      /\ Len(head) = k
      /\ \A i \in 1 .. k : head[i] = Unsent[i]
  BY <1>1, <1>2, <1>3, HeadLines
<1>5. /\ Append(head, Garbage) \in Seq(Line)
      /\ Len(Append(head, Garbage)) = k + 1
      /\ \A i \in 1 .. k : Append(head, Garbage)[i] = head[i]
      /\ Append(head, Garbage)[k + 1] = Garbage
  BY <1>4, AppendProperties, Garbage \in Line DEF Line
<1>6. spool' = IF torn THEN Append(head, Garbage) ELSE head
  BY DEF ShortRewrite
<1> HIDE DEF head
<1>7. ASSUME NEW e \in Events, e \in Spooled' PROVE e \in Spooled
  <2>1. spool' \in Seq(Line)
    BY <1>4, <1>5, <1>6
  <2>2. PICK i \in 1 .. Len(spool') : spool'[i] = e
    BY <1>7, <2>1, SpooledAtNext
  <2>3. i \in 1 .. k /\ Unsent[i] = e
    <3>1. CASE torn
      BY <1>3, <1>4, <1>5, <1>6, <1>7, <2>2, <3>1, EventAssumption
    <3>2. CASE ~torn
      BY <1>3, <1>4, <1>6, <2>2, <3>2
    <3> QED BY <3>1, <3>2
  <2>4. flush.sent + i \in 1 .. Len(spool) /\ spool[flush.sent + i] = e
    <3>1. i \in 1 .. Len(spool) - flush.sent
      BY <1>1, <1>2, <1>3, <2>3
    <3>2. spool[flush.sent + i] = e
      BY <1>2, <2>3, <3>1
    <3> QED BY <1>1, <3>1, <3>2
  <2> QED BY <1>1, <2>4, SpooledAt
<1> QED BY <1>7

LEMMA AppendedLines ==
  ASSUME spool \in Seq(Line), NEW line \in Line,
         \/ spool' = Append(spool, line)
         \/ spool # <<>> /\ spool' = [spool EXCEPT ![Len(spool)] = Garbage]
  PROVE  \A e \in Events : e \in Spooled' => e \in Spooled \/ e = line
<1>1. Len(spool) \in Nat /\ Garbage \in Line
  BY LenProperties DEF Line
<1>2. CASE spool' = Append(spool, line)
  <2>1. /\ spool' \in Seq(Line) /\ Len(spool') = Len(spool) + 1
        /\ \A i \in 1 .. Len(spool) : spool'[i] = spool[i]
        /\ spool'[Len(spool) + 1] = line
    BY <1>2, AppendLines
  <2>2. ASSUME NEW e \in Events, e \in Spooled' PROVE e \in Spooled \/ e = line
    <3>1. PICK i \in 1 .. Len(spool') : spool'[i] = e
      BY <2>1, <2>2, SpooledAtNext
    <3>2. (i \in 1 .. Len(spool) /\ spool[i] = e) \/ e = line
      BY <1>1, <2>1, <3>1
    <3> QED BY <3>2, SpooledAt
  <2> QED BY <2>2
<1>3. CASE spool # <<>> /\ spool' = [spool EXCEPT ![Len(spool)] = Garbage]
  <2>1. Len(spool) \in 1 .. Len(spool)
    BY <1>1, <1>3, EmptySeq
  <2>2. /\ spool' \in Seq(Line) /\ Len(spool') = Len(spool)
        /\ \A i \in 1 .. Len(spool) : i # Len(spool) => spool'[i] = spool[i]
    BY <1>1, <1>3, <2>1, ReplaceLine
  <2>4. spool'[Len(spool)] = Garbage
    BY <1>3, <2>1, LenProperties
  <2>3. ASSUME NEW e \in Events, e \in Spooled' PROVE e \in Spooled
    <3>1. PICK i \in 1 .. Len(spool') : spool'[i] = e
      BY <2>2, <2>3, SpooledAtNext
    <3>2. i \in 1 .. Len(spool) /\ spool[i] = e
      BY <1>1, <2>2, <2>4, <3>1, EventAssumption
    <3> QED BY <3>2, SpooledAt
  <2> QED BY <2>3
<1> QED BY <1>2, <1>3

LEMMA ThreadAccepted ==
  ASSUME IInv, Accepted, NEW t \in Threads, ThreadNext(t)
  PROVE  Accepted'
<1>1. CASE \E e \in Events : SendEvent(t, e)
  BY <1>1, SendEventAccepted
<1>2. CASE PostOk(t)
  <2>1. /\ thread' = [thread EXCEPT ![t] = IdleThread]
        /\ thread[t].pc # "idle"
        /\ stored' = stored \cup {thread[t].event}
        /\ late' = late /\ fate' = fate /\ Spooled' = Spooled
    BY <1>2 DEF PostOk, Spooled
  <2>2. IdleThread \in Thread /\ IdleThread.pc = "idle"
    BY DEF IdleThread, Thread
  <2>3. InHand' \subseteq InHand /\ thread[t].event \in InHand
    BY <2>1, <2>2, OneHand
  <2> QED BY <2>1, <2>3, NoNewPlace
<1>3. CASE PostFailed(t)
  <2> DEFINE r == [thread[t] EXCEPT !.pc = "spool"]
  <2>1. /\ thread' = [thread EXCEPT ![t] = r]
        /\ thread[t].pc # "idle"
        /\ late' \subseteq late \cup {thread[t].event}
        /\ stored' = stored /\ fate' = fate /\ Spooled' = Spooled
    BY <1>3 DEF PostFailed, Spooled
  <2>2. r \in Thread /\ r.pc = "spool" /\ r.event = thread[t].event
    BY DEF IInv, TypeOK, Thread
  <2> HIDE DEF r
  <2>3. InHand' \subseteq InHand /\ thread[t].event \in InHand
    BY <2>1, <2>2, OneHand
  <2> QED BY <2>1, <2>3, NoNewPlace
<1>4. CASE SpoolEvent(t) \/ SpoolFull(t) \/ SpoolUnwritable(t)
  <2>1. /\ thread' = [thread EXCEPT ![t] = IdleThread]
        /\ thread[t].pc # "idle"
        /\ stored' = stored /\ late' = late
    BY <1>4 DEF SpoolEvent, SpoolFull, SpoolUnwritable
  <2>2. IdleThread \in Thread /\ IdleThread.pc = "idle"
    BY DEF IdleThread, Thread
  <2>3. InHand' \subseteq InHand /\ thread[t].event \in InHand
    BY <2>1, <2>2, OneHand
  <2>4. /\ spool \in Seq(Line) /\ fate \in [Events -> Fates]
        /\ thread[t].event \in Line
        /\ open => spool # <<>>
    BY <2>1 DEF IInv, TypeOK, Aux, BusyHold, OpenLine, Line
  <2>5. \A e \in Events : e \in Spooled' => e \in Spooled \cup {thread[t].event}
    <3>1. CASE SpoolEvent(t)
      <4>1. \/ spool' = Append(spool, thread[t].event)
            \/ spool # <<>> /\ spool' = [spool EXCEPT ![Len(spool)] = Garbage]
        BY <2>4, <3>1 DEF SpoolEvent
      <4> QED BY <2>4, <4>1, AppendedLines
    <3>2. CASE SpoolFull(t) \/ SpoolUnwritable(t)
      BY <3>2 DEF SpoolFull, SpoolUnwritable, Spooled
    <3> QED BY <1>4, <3>1, <3>2
  <2>6. \A e \in Events : fate'[e] \in {"new", "muted"} => fate'[e] = fate[e]
    <3>1. CASE fate' = fate
      BY <3>1
    <3>2. CASE \/ Fated({spool[Len(spool)], thread[t].event}, "merged")
               \/ Fated({thread[t].event}, "full")
               \/ Fated({thread[t].event}, "disk")
      BY <2>4, <3>2, FatedAccepts
    <3> QED BY <1>4, <3>1, <3>2 DEF SpoolEvent, SpoolFull, SpoolUnwritable
  <2> QED BY <2>1, <2>3, <2>5, <2>6, NoNewPlace
<1>5. CASE CrashInAppend(t)
  <2>1. thread[t].pc # "idle" /\ Restarted
    BY <1>5 DEF CrashInAppend
  <2>2. /\ spool \in Seq(Line) /\ fate \in [Events -> Fates]
        /\ thread[t].event \in Line /\ Garbage \in Line
        /\ thread[t].event \in InHand
        /\ open => spool # <<>>
    BY <2>1, InHandAt DEF IInv, TypeOK, Aux, BusyHold, OpenLine, Line
  <2>3. late' = late /\ stored' = stored /\ InHand' = {}
    BY <2>1 DEF Restarted, InHand, IdleThread
  <2>4. PICK line \in {thread[t].event, Garbage} :
          IF open
          THEN /\ spool' = [spool EXCEPT ![Len(spool)] = Garbage]
               /\ Fated(InHand \cup {spool[Len(spool)]}, "crash")
          ELSE /\ spool' = Append(spool, line)
               /\ Fated(IF line = Garbage THEN InHand ELSE InHand \ {line}, "crash")
    BY <1>5 DEF CrashInAppend
  <2>5. line \in Line
    BY <2>2, <2>4
  <2>6. \A e \in Events : e \in Spooled' => e \in Spooled \/ e = line
    <3>1. \/ spool' = Append(spool, line)
          \/ spool # <<>> /\ spool' = [spool EXCEPT ![Len(spool)] = Garbage]
      BY <2>2, <2>4
    <3> QED BY <2>2, <2>5, <3>1, AppendedLines
  <2>7. \A e \in Events : e \in Spooled' => e \in Spooled \cup InHand
    BY <2>2, <2>4, <2>6, EventAssumption
  <2>8. \A e \in Events : fate'[e] \in {"new", "muted"} => fate'[e] = fate[e]
    <3>1. CASE open
      BY <2>2, <2>4, <3>1, FatedAccepts
    <3>2. CASE ~open
      BY <2>2, <2>4, <3>2, FatedAccepts
    <3> QED BY <3>1, <3>2
  <2> QED BY <2>3, <2>7, <2>8, NoNewPlace
<1> QED BY <1>1, <1>2, <1>3, <1>4, <1>5 DEF ThreadNext

LEMMA FlushAccepted ==
  ASSUME IInv, Accepted, FlushNext
  PROVE  Accepted'
<1>1. /\ spool \in Seq(Line) /\ Len(spool) \in Nat
      /\ flush.sent \in Nat /\ flush.sent <= Len(spool)
      /\ fate \in [Events -> Fates]
  BY LenProperties DEF IInv, TypeOK, Aux, SentStored, Flush
<1>2. FlushMore => spool[flush.sent + 1] \in Spooled
  <2>1. FlushMore => flush.sent + 1 \in 1 .. Len(spool)
    BY <1>1 DEF FlushMore
  <2> QED BY <1>1, <2>1, SpooledAt
<1>3. CASE FlushBegin \/ FlushPostOk \/ FlushPostFailed \/ FlushStop \/ FlushUnwritable
  <2>1. /\ InHand' = InHand /\ Spooled' = Spooled /\ fate' = fate
        /\ stored' \subseteq stored \cup Spooled
        /\ late' \subseteq late \cup Spooled
    BY <1>2, <1>3
    DEF FlushBegin, FlushPostOk, FlushPostFailed, FlushStop, FlushUnwritable, InHand, Spooled
  <2> QED BY <2>1, NoNewPlace
<1>4. CASE FlushEnd
  <2>1. /\ InHand' = InHand /\ fate' = fate /\ stored' = stored /\ late' = late
        /\ spool' = Unsent
    BY <1>4 DEF FlushEnd, InHand
  <2>2. /\ Unsent \in Seq(Line)
        /\ Len(Unsent) = Len(spool) - flush.sent
        /\ \A i \in 1 .. Len(spool) - flush.sent : Unsent[i] = spool[flush.sent + i]
    BY <1>1, TailLines DEF Unsent
  <2>3. ASSUME NEW e \in Spooled' PROVE e \in Spooled
    <3>1. PICK i \in 1 .. Len(Unsent) : Unsent[i] = e
      BY <2>1, <2>2, <2>3, SpooledAtNext
    <3>2. flush.sent + i \in 1 .. Len(spool) /\ spool[flush.sent + i] = e
      BY <1>1, <2>2, <3>1
    <3> QED BY <1>1, <3>2, SpooledAt
  <2> QED BY <2>1, <2>3, NoNewPlace
<1>5. CASE FlushShort \/ CrashInRewrite
  <2>1. PICK k \in 0 .. Len(spool), torn \in {FALSE, TornWrites} :
          /\ ShortRewrite(k, torn)
          /\ \/ Fated({Unsent[i] : i \in k + 1 .. Len(Unsent)}, "disk")
             \/ Fated(InHand \cup {Unsent[i] : i \in k + 1 .. Len(Unsent)}, "crash")
    BY <1>5 DEF FlushShort, CrashInRewrite
  <2>2. torn \in BOOLEAN
    BY <2>1, FaultAssumption
  <2>3. \A e \in Events : e \in Spooled' => e \in Spooled
    BY <2>1, <2>2, RewrittenLines
  <2>4. \A e \in Events : fate'[e] \in {"new", "muted"} => fate'[e] = fate[e]
    BY <1>1, <2>1, FatedAccepts
  <2>5. stored' = stored /\ late' = late /\ InHand' \subseteq InHand
    <3>1. CASE FlushShort
      BY <3>1 DEF FlushShort, InHand
    <3>2. CASE CrashInRewrite
      <4>1. Restarted
        BY <3>2 DEF CrashInRewrite
      <4> QED BY <4>1 DEF Restarted, InHand, IdleThread
    <3> QED BY <1>5, <3>1, <3>2
  <2> QED BY <2>3, <2>4, <2>5, NoNewPlace
<1> QED BY <1>3, <1>4, <1>5 DEF FlushNext

LEMMA StepAccepted ==
  ASSUME IInv, Accepted, [Next]_vars
  PROVE  Accepted'
<1>1. CASE \E t \in Threads : ThreadNext(t)
  BY <1>1, ThreadAccepted
<1>2. CASE FlushNext
  BY <1>2, FlushAccepted
<1>3. CASE \/ \E e \in Events : LateArrives(e) \/ LateVanishes(e)
           \/ ApplyPolicies \/ Down \/ Up \/ UNCHANGED vars
  <2>1. /\ InHand' = InHand /\ Spooled' = Spooled /\ fate' = fate
        /\ stored' \subseteq stored \cup late /\ late' \subseteq late
    BY <1>3 DEF LateArrives, LateVanishes, ApplyPolicies, Down, Up, vars, InHand, Spooled
  <2> QED BY <2>1, NoNewPlace
<1>4. CASE Crash
  <2>1. /\ stored' = stored /\ late' = late /\ InHand' = {} /\ Spooled' = Spooled
        /\ Fated(InHand, "crash")
    BY <1>4 DEF Crash, Restarted, InHand, IdleThread, Spooled
  <2>2. \A e \in Events : fate'[e] \in {"new", "muted"} => fate'[e] = fate[e]
    BY <2>1, FatedAccepts DEF IInv, TypeOK
  <2> QED BY <2>1, <2>2, NoNewPlace
<1> QED BY <1>1, <1>2, <1>3, <1>4 DEF Next

\* How the steps of the spool map to steps of EventDelivery.
LEMMA MapsToStutter ==
  ASSUME fate' = fate, stored' = stored
  PROVE  Status' = Status
  BY DEF Status

LEMMA StatusNext ==
  ASSUME NEW e \in Events, fate'[e] \in Fates
  PROVE  /\ e \in stored' => Status'[e] = "stored"
         /\ e \notin stored' /\ fate'[e] \in {"new", "muted"} => Status'[e] = fate'[e]
         /\ e \notin stored' /\ fate'[e] = "held" => Status'[e] = "open"
         /\ e \notin stored' /\ fate'[e] \notin {"new", "muted", "held"} => Status'[e] = "lost"
<1> DEFINE s == CASE e \in stored' -> "stored"
                  [] e \notin stored' /\ fate'[e] \in {"new", "muted"} -> fate'[e]
                  [] e \notin stored' /\ fate'[e] = "held" -> "open"
                  [] OTHER -> "lost"
<1>1. Status'[e] = s
  BY DEF Status
<1>2. CASE e \in stored'
  BY <1>1, <1>2
<1>3. CASE e \notin stored' /\ fate'[e] \in {"new", "muted"}
  BY <1>1, <1>3
<1>4. CASE e \notin stored' /\ fate'[e] = "held"
  BY <1>1, <1>4
<1>5. CASE e \notin stored' /\ fate'[e] \notin {"new", "muted", "held"}
  BY <1>1, <1>5
<1> QED BY <1>2, <1>3, <1>4, <1>5

\* Two status functions that agree on every event are equal.
LEMMA StatusIsFunction ==
  /\ Status = [e \in Events |-> Status[e]]
  /\ Status' = [e \in Events |-> Status'[e]]
  BY DEF Status

LEMMA MapsToStore ==
  ASSUME fate \in [Events -> Fates], fate' = fate,
         NEW x \in Events, fate[x] \notin {"new", "muted"},
         stored' = stored \cup {x}
  PROVE  [Delivery!Next]_Status
<1>1. CASE x \in stored
  BY <1>1, MapsToStutter
<1>2. CASE x \notin stored
  <2>1. Status[x] \in {"open", "lost"}
    <3>1. CASE fate[x] = "held"
      BY <1>2, <3>1, StatusOf DEF Fates
    <3>2. CASE fate[x] # "held"
      BY <1>2, <3>2, StatusOf
    <3> QED BY <3>1, <3>2
  <2>2. ASSUME NEW e \in Events
        PROVE  Status'[e] = IF e = x THEN "stored" ELSE Status[e]
    <3>1. CASE e \in stored'
      BY <2>2, <3>1, StatusOf, StatusNext
    <3>2. CASE e \notin stored'
      BY <2>2, <3>2, StatusOf, StatusNext
    <3> QED BY <3>1, <3>2
  <2>3. Status' = [Status EXCEPT ![x] = "stored"]
    <3>1. [Status EXCEPT ![x] = "stored"] = [e \in Events |-> IF e = x THEN "stored" ELSE Status[e]]
      BY StatusIsFunction
    <3>2. Status' = [e \in Events |-> IF e = x THEN "stored" ELSE Status[e]]
      BY <2>2, StatusIsFunction
    <3> QED BY <3>1, <3>2
  <2> QED BY <2>1, <2>3 DEF Delivery!Next, Delivery!Store
<1> QED BY <1>1, <1>2

LEMMA MapsToLose ==
  ASSUME fate \in [Events -> Fates], stored' = stored,
         NEW S, NEW why \in {"full", "disk", "crash", "merged"}, Fated(S, why)
  PROVE  [Delivery!Next]_Status
<1> DEFINE L == {e \in Events : e \in S /\ fate[e] = "held" /\ e \notin stored}
<1>1. \A e \in Events : fate'[e] = IF e \in S /\ fate[e] = "held" THEN why ELSE fate[e]
  BY DEF Fated
<1>2. \A e \in L : Status[e] = "open"
  BY StatusOf
<1>3. ASSUME NEW e \in Events
      PROVE  Status'[e] = IF e \in L THEN "lost" ELSE Status[e]
  <2>1. fate[e] \in Fates /\ fate'[e] \in Fates
    BY <1>1 DEF Fates
  <2>2. CASE e \in L
    <3>1. e \notin stored' /\ fate'[e] = why
      BY <1>1, <2>2
    <3> QED BY <2>1, <2>2, <3>1, StatusNext
  <2>3. CASE e \notin L /\ e \in stored
    BY <2>1, <2>3, StatusOf, StatusNext
  <2>4. CASE e \notin L /\ e \notin stored
    <3>1. fate'[e] = fate[e]
      BY <1>1, <2>4
    <3> QED BY <2>1, <2>4, <3>1, StatusOf, StatusNext DEF Fates
  <2> QED BY <2>2, <2>3, <2>4
<1>4. Status' = [e \in Events |-> IF e \in L THEN "lost" ELSE Status[e]]
  BY <1>3, StatusIsFunction
<1>5. L \in SUBSET Events
  OBVIOUS
<1> QED BY <1>2, <1>4, <1>5 DEF Delivery!Next, Delivery!Lose

LEMMA MapsToSend ==
  ASSUME fate \in [Events -> Fates], stored' = stored,
         NEW x \in Events, NEW f \in {"held", "muted"},
         fate[x] = "new", x \notin stored, fate' = [fate EXCEPT ![x] = f]
  PROVE  [Delivery!Next]_Status
<1> DEFINE g == IF f = "held" THEN "open" ELSE "muted"
<1>1. Status[x] = "new"
  BY StatusOf
<1>2. ASSUME NEW e \in Events
      PROVE  Status'[e] = IF e = x THEN g ELSE Status[e]
  <2>1. fate[e] \in Fates /\ fate'[e] \in Fates
    BY DEF Fates
  <2>2. CASE e = x
    BY <2>1, <2>2, StatusNext
  <2>3. CASE e # x
    <3>1. fate'[e] = fate[e]
      BY <2>3
    <3> QED BY <2>1, <2>3, <3>1, StatusOf, StatusNext DEF Fates
  <2> QED BY <2>2, <2>3
<1>3. Status' = [Status EXCEPT ![x] = g]
  <2>1. [Status EXCEPT ![x] = g] = [e \in Events |-> IF e = x THEN g ELSE Status[e]]
    BY StatusIsFunction
  <2>2. Status' = [e \in Events |-> IF e = x THEN g ELSE Status[e]]
    BY <1>2, StatusIsFunction
  <2> QED BY <2>1, <2>2
<1> QED BY <1>1, <1>3 DEF Delivery!Next, Delivery!Emit, Delivery!Mute

LEMMA ThreadMaps ==
  ASSUME IInv, Accepted, NEW t \in Threads, ThreadNext(t)
  PROVE  [Delivery!Next]_Status
<1>1. fate \in [Events -> Fates]
  BY DEF IInv, TypeOK
<1>2. CASE \E e \in Events : SendEvent(t, e)
  <2>1. PICK x \in Events : SendEvent(t, x)
    BY <1>2
  <2>2. stored' = stored /\ fate[x] = "new" /\ x \notin stored
    BY <2>1 DEF SendEvent, Accepted
  <2>3. fate' = [fate EXCEPT ![x] = "held"] \/ fate' = [fate EXCEPT ![x] = "muted"]
    BY <2>1 DEF SendEvent
  <2> QED BY <1>1, <2>2, <2>3, MapsToSend
<1>3. CASE PostOk(t)
  <2>1. fate' = fate /\ stored' = stored \cup {thread[t].event} /\ thread[t].pc # "idle"
    BY <1>3 DEF PostOk
  <2>2. thread[t].event \in Events /\ thread[t].event \in InHand
    BY <2>1, InHandAt DEF IInv, Aux, BusyHold
  <2>3. fate[thread[t].event] \notin {"new", "muted"}
    BY <2>2 DEF Accepted
  <2> QED BY <1>1, <2>1, <2>2, <2>3, MapsToStore
<1>4. CASE PostFailed(t)
  BY <1>4, MapsToStutter DEF PostFailed
<1>5. CASE SpoolEvent(t)
  <2>1. stored' = stored
    BY <1>5 DEF SpoolEvent
  <2>2. fate' = fate \/ Fated({spool[Len(spool)], thread[t].event}, "merged")
    BY <1>5 DEF SpoolEvent
  <2> QED BY <1>1, <2>1, <2>2, MapsToStutter, MapsToLose
<1>6. CASE SpoolFull(t) \/ SpoolUnwritable(t)
  <2>1. stored' = stored
    BY <1>6 DEF SpoolFull, SpoolUnwritable
  <2>2. Fated({thread[t].event}, "full") \/ Fated({thread[t].event}, "disk")
    BY <1>6 DEF SpoolFull, SpoolUnwritable
  <2> QED BY <1>1, <2>1, <2>2, MapsToLose
<1>7. CASE CrashInAppend(t)
  <2>1. stored' = stored
    BY <1>7 DEF CrashInAppend, Restarted
  <2>2. \E S : Fated(S, "crash")
    BY <1>7 DEF CrashInAppend
  <2> QED BY <1>1, <2>1, <2>2, MapsToLose
<1> QED BY <1>2, <1>3, <1>4, <1>5, <1>6, <1>7 DEF ThreadNext

LEMMA FlushMaps ==
  ASSUME IInv, Accepted, FlushNext
  PROVE  [Delivery!Next]_Status
<1>1. /\ fate \in [Events -> Fates] /\ spool \in Seq(Line) /\ Len(spool) \in Nat
      /\ flush.sent \in Nat
  BY LenProperties DEF IInv, TypeOK, Flush
<1>2. CASE FlushBegin \/ FlushPostFailed \/ FlushStop \/ FlushEnd \/ FlushUnwritable
  <2>1. fate' = fate /\ stored' = stored
    BY <1>2 DEF FlushBegin, FlushPostFailed, FlushStop, FlushEnd, FlushUnwritable
  <2> QED BY <2>1, MapsToStutter
<1>3. CASE FlushPostOk
  <2> DEFINE x == spool[flush.sent + 1]
  <2>1. fate' = fate /\ stored' = stored \cup {x} /\ x # Garbage /\ FlushMore
    BY <1>3 DEF FlushPostOk
  <2>2. flush.sent + 1 \in 1 .. Len(spool)
    BY <1>1, <2>1 DEF FlushMore
  <2>3. x \in Line /\ x \in Spooled
    BY <1>1, <2>2, ElementOfSeq, SpooledAt
  <2>4. x \in Events
    BY <2>1, <2>3 DEF Line
  <2>5. fate[x] \notin {"new", "muted"}
    BY <2>3, <2>4 DEF Accepted
  <2> QED BY <1>1, <2>1, <2>4, <2>5, MapsToStore
<1>4. CASE FlushShort \/ CrashInRewrite
  <2>1. stored' = stored
    BY <1>4 DEF FlushShort, CrashInRewrite, Restarted
  <2>2. \E S : Fated(S, "disk") \/ Fated(S, "crash")
    BY <1>4 DEF FlushShort, CrashInRewrite
  <2> QED BY <1>1, <2>1, <2>2, MapsToLose
<1> QED BY <1>2, <1>3, <1>4 DEF FlushNext

LEMMA StepMaps ==
  ASSUME IInv, Accepted, [Next]_vars
  PROVE  [Delivery!Next]_Status
<1>1. CASE \E t \in Threads : ThreadNext(t)
  BY <1>1, ThreadMaps
<1>2. CASE FlushNext
  BY <1>2, FlushMaps
<1>3. CASE \E e \in Events : LateArrives(e)
  <2>1. PICK x \in Events : LateArrives(x)
    BY <1>3
  <2>2. fate' = fate /\ stored' = stored \cup {x} /\ x \in late
    BY <2>1 DEF LateArrives
  <2>3. fate[x] \notin {"new", "muted"} /\ fate \in [Events -> Fates]
    BY <2>2 DEF Accepted, IInv, TypeOK
  <2> QED BY <2>2, <2>3, MapsToStore
<1>4. CASE \/ \E e \in Events : LateVanishes(e)
           \/ ApplyPolicies \/ Down \/ Up \/ UNCHANGED vars
  <2>1. fate' = fate /\ stored' = stored
    BY <1>4 DEF LateVanishes, ApplyPolicies, Down, Up, vars
  <2> QED BY <2>1, MapsToStutter
<1>5. CASE Crash
  <2>1. stored' = stored /\ Fated(InHand, "crash") /\ fate \in [Events -> Fates]
    BY <1>5 DEF Crash, Restarted, IInv, TypeOK
  <2> QED BY <2>1, MapsToLose
<1> QED BY <1>1, <1>2, <1>3, <1>4, <1>5 DEF Next

LEMMA InitMaps == Init => Delivery!Init
<1> SUFFICES ASSUME Init PROVE Status = [e \in Events |-> "new"]
  BY DEF Delivery!Init
<1>1. ASSUME NEW e \in Events PROVE Status[e] = "new"
  BY StatusOf DEF Init, Fates
<1> QED BY <1>1, StatusIsFunction

\* Threads, spool file, batches, late requests and crashes together implement
\* the promise of EventDelivery: an accepted event is stored or given up, a
\* stored one stays stored, and nothing else ever happens to an event.
THEOREM SpoolImplementsDelivery == Spec => Delivery!SafeSpec
<1>1. Init => Accepted /\ Delivery!Init
  BY InitAccepted, InitMaps
<1>2. IInv /\ Accepted /\ [Next]_vars => Accepted' /\ [Delivery!Next]_Status
  BY StepAccepted, StepMaps
<1> QED BY <1>1, <1>2, Invariant, PTL DEF Spec, Delivery!SafeSpec
=============================================================================
