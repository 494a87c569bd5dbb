------------------------------ MODULE LinuxFiles ------------------------------
(***************************************************************************)
(* What the Linux agent does with the events of one file.  Policies may     *)
(* name a directory and one inside it, and then two observers see the same  *)
(* file, each with a queue and a thread of its own.  The threads share one  *)
(* table of recent events; what the file's policy does to it is a constant.   *)
(* Time is what the agent compares it with: an entry of the table is fresh  *)
(* for a second, recent for five, and then old.                             *)
(***************************************************************************)
EXTENDS Naturals, Sequences

CONSTANTS Threads,    \* observers that see the file
          Removing,   \* whether the policy's action takes files away (quarantine, block)
          MaxOps,     \* bound on what the user does
          MaxTicks    \* bound on the passing of time

VARIABLES
  file,     \* the version of the content on the disk; 0, no file
  large,    \* whether that is above max_file_size_mb
  queue,    \* queue[t]: events observer t has not taken
  th,       \* th[t]: what its thread does
  recent,   \* recent_events: the age of the last event of each type
  born,     \* history: how long ago a creation was taken, by the clock
  posted,   \* history: the age of the youngest event of each type that was posted
  twice,    \* history: whether two creations were posted within five seconds
  fate,     \* history: what last became of an event of the content on the disk
  ops, ticks

vars == <<file, large, queue, th, recent, born, posted, twice, fate, ops, ticks>>

EventTypes == {"created", "modified", "moved", "deleted"}
Ages == {"fresh", "recent", "old"}
Idle == [at |-> "idle"]

\* An event of the content: none yet, the server has it, its post failed, it
\* repeated one of the last seconds, or the handler passed over it or failed on it.
Fates == {"none", "known", "lost", "repeat", "passed"}
Met(word) == fate' = IF file = 0 \/ fate = "known" THEN fate ELSE word

\* Mutant: the table remembers a file, whatever happened to it.
SuppressedByPath(type) == \E k \in EventTypes : recent[k] # "old"

\* The same event within five seconds, or a modification within one of the creation.
Suppressed(type) == recent[type] # "old" \/ (type = "modified" /\ recent["created"] = "fresh")

\* Mutant: a creation is not recorded when it is taken.
RecordNothing(type) == UNCHANGED recent

\* Under the lock a creation is recorded at once.
Record(type) == recent' = IF type = "created" THEN [recent EXCEPT ![type] = "fresh"] ELSE recent

\* Whether an event is one of those the agent means to drop: whatever became of
\* the one it repeats.
Repeat(type) ==
  \/ posted[type] # "old"
  \/ type = "created" /\ born # "old"
  \/ type = "modified" /\ born = "fresh"

Take(t) ==
  /\ th[t] = Idle /\ queue[t] # <<>>
  /\ queue' = [queue EXCEPT ![t] = Tail(@)]
  /\ LET type == Head(queue[t])
     IN IF Suppressed(type)
        THEN /\ IF Repeat(type) THEN Met("repeat") ELSE UNCHANGED fate
             /\ UNCHANGED <<th, recent, born>>
        ELSE /\ th' = [th EXCEPT ![t] = [at |-> "read", type |-> type, age |-> "fresh"]]
             /\ Record(type)
             /\ born' = IF type = "created" THEN "fresh" ELSE born
             /\ UNCHANGED fate
  /\ UNCHANGED <<file, large, posted, twice, ops, ticks>>

\* _should_monitor, and the guards of the handler: the path or its extension is
\* excluded, no file policy is in force at the moment.
PassOver(t) ==
  /\ th[t] = Idle /\ queue[t] # <<>>
  /\ queue' = [queue EXCEPT ![t] = Tail(@)]
  /\ Met("passed")
  /\ UNCHANGED <<file, large, th, recent, born, posted, twice, ops, ticks>>

\* A file that is gone by now, or too large, has no event.
Read(t) ==
  /\ th[t].at = "read"
  /\ th' = [th EXCEPT ![t] = IF file = 0 \/ large THEN Idle
                             ELSE [at |-> "act", type |-> @.type, age |-> @.age, version |-> file]]
  /\ UNCHANGED <<file, large, queue, recent, born, posted, twice, fate, ops, ticks>>

\* Whatever is raised on the way is logged, and the event forgotten.
Fail(t) ==
  /\ th[t].at = "read"
  /\ th' = [th EXCEPT ![t] = Idle]
  /\ Met("passed")
  /\ UNCHANGED <<file, large, queue, recent, born, posted, twice, ops, ticks>>

\* watchdog passes over an event that repeats the last of its queue.
Notified(q, event) == IF q # <<>> /\ q[Len(q)] = event THEN q ELSE Append(q, event)

Notify(event) == queue' = [t \in Threads |-> Notified(queue[t], event)]

\* A quarantine or a block that works takes the file away.  Either may fail, and
\* has nothing to take when the file is gone; nothing is done about a deletion.
Removes(type) == Removing /\ type # "deleted" /\ file # 0

Younger(a, b) == IF "fresh" \in {a, b} THEN "fresh" ELSE IF "recent" \in {a, b} THEN "recent" ELSE "old"

\* Other events than creations are recorded once handled, as of when they were
\* taken.  send_event posts once: a refusal, a timeout or no answer is logged.
Send(t) ==
  LET type == th[t].type
      age == th[t].age IN
  /\ th[t].at = "act"
  /\ \/ /\ Removes(type) /\ file' = 0 /\ fate' = "none" /\ Notify("deleted")
     \/ /\ \E word \in {"known", "lost"} :
            IF th[t].version = file THEN Met(word) ELSE UNCHANGED fate
        /\ UNCHANGED <<file, queue>>
  /\ recent' = IF type # "created" THEN [recent EXCEPT ![type] = age] ELSE recent
  /\ posted' = [posted EXCEPT ![type] = Younger(@, age)]
  /\ twice' = (twice \/ (type = "created" /\ "old" \notin {age, posted[type]}))
  /\ th' = [th EXCEPT ![t] = Idle]
  /\ UNCHANGED <<large, born, ops, ticks>>

\* New content, perhaps a large one, and the two events that tell of it.
Put(first, last, big) ==
  /\ ops < MaxOps
  /\ ops' = ops + 1
  /\ file' = ops'
  /\ large' = big /\ fate' = "none"
  /\ queue' = [t \in Threads |-> Notified(Notified(queue[t], first), last)]
  /\ UNCHANGED <<th, recent, born, posted, twice, ticks>>

\* Creating a file and writing it are two events.
UserWrites(big) == Put(IF file = 0 THEN "created" ELSE "modified", "modified", big)

\* A file moved here from a watched directory, or from another one.
UserMoves(event, big) == Put(event, event, big)

UserRemoves ==
  /\ file # 0 /\ ops < MaxOps
  /\ ops' = ops + 1
  /\ file' = 0 /\ fate' = "none" /\ Notify("deleted")
  /\ UNCHANGED <<large, th, recent, born, posted, twice, ticks>>

Age(a) == IF a = "fresh" THEN "recent" ELSE "old"

Tick ==
  /\ ticks < MaxTicks
  /\ ticks' = ticks + 1
  /\ recent' = [k \in EventTypes |-> Age(recent[k])]
  /\ th' = [t \in Threads |-> IF th[t] = Idle THEN Idle ELSE [th[t] EXCEPT !.age = Age(@)]]
  /\ posted' = [k \in EventTypes |-> Age(posted[k])]
  /\ born' = Age(born)
  /\ UNCHANGED <<file, large, queue, twice, fate, ops>>

Init ==
  /\ file = 0 /\ large = FALSE /\ queue = [t \in Threads |-> <<>>] /\ th = [t \in Threads |-> Idle]
  /\ recent = [k \in EventTypes |-> "old"]
  /\ born = "old" /\ posted = [k \in EventTypes |-> "old"] /\ twice = FALSE /\ fate = "none"
  /\ ops = 0 /\ ticks = 0

Next ==
  \/ \E t \in Threads : Take(t) \/ PassOver(t) \/ Read(t) \/ Fail(t) \/ Send(t)
  \/ \E big \in BOOLEAN : UserWrites(big) \/ \E event \in {"created", "moved"} : UserMoves(event, big)
  \/ UserRemoves \/ Tick
Spec == Init /\ [][Next]_vars

TypeOK ==
  /\ file \in 0..MaxOps /\ ops \in 0..MaxOps /\ ticks \in 0..MaxTicks /\ large \in BOOLEAN
  /\ queue \in [Threads -> Seq(EventTypes)]
  /\ th \in [Threads -> {Idle} \cup [at : {"read"}, type : EventTypes, age : Ages] \cup
                [at : {"act"}, type : EventTypes, age : Ages, version : 1..MaxOps]]
  /\ recent \in [EventTypes -> Ages] /\ born \in Ages
  /\ posted \in [EventTypes -> Ages] /\ twice \in BOOLEAN /\ fate \in Fates

\* However many observers see a file, its creation is posted once in five
\* seconds, though the event is sent only after the file was read and acted upon.
CreatedOnce == ~twice

\* Once the observers have nothing left to do, the server knows the content of
\* the file, unless its one post failed (send_event tries nothing again), it is
\* too large, the handler passed over an event of it or failed on one, or the
\* event repeated one of the last seconds, be that one posted or lost.  No race of
\* two observers, of the user and of the agent's own action loses it otherwise.
ContentReported ==
  (file # 0 /\ \A t \in Threads : th[t] = Idle /\ queue[t] = <<>>) =>
    large \/ fate # "none"
=============================================================================
