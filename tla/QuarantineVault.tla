--------------------------- MODULE QuarantineVault ---------------------------
(***************************************************************************)
(* The files of quarantine events.  An agent uploads the file, gives up    *)
(* waiting when the answer is late, and posts the event, again if it must; *)
(* each side looks for the other and links the two.  A daily task deletes  *)
(* old files and their links; another, and an administrator, delete        *)
(* events.  A handler is one step between two awaits.                      *)
(* History: missed, rushed, orphaned (events).                             *)
(***************************************************************************)
EXTENDS Naturals, FiniteSets

CONSTANTS
  Events,     \* events with a quarantined file, one upload each
  Posts,      \* the posts of an event: the first one and the resends
  MaxFaults   \* bound: errors, crashes and deletions by an administrator

VARIABLES
  files,     \* quarantine_files.files, by event: the states of the blob
  events,    \* dlp_events: whether the event is there, is old, and its link
  upload,    \* upload_quarantine_file of the event
  post,      \* create_event, for each post of an event
  cleaner,   \* the quarantine cleanup task
  faults,    \* used of MaxFaults
  missed,    \* history: the post that inserted looked before the blob was there
  rushed,    \* history: ... and looked before a blob it found was deleted
  orphaned   \* history: the cleanup died between the blob and the link

vars == <<files, events, upload, post, cleaner, faults, missed, rushed, orphaned>>

NoCleaning == [at |-> "idle", todo |-> {}]

\* The representation is right, and the cleanup only ever holds old files.
TypeOK ==
  /\ files \in [Events -> {"none", "new", "old", "gone"}]
  /\ events \in [Events -> [there : BOOLEAN, old : BOOLEAN, link : BOOLEAN]]
  /\ upload \in [Events -> {"idle", "store", "storeAndLink", "link", "done", "failed"}]
  /\ post \in [Events \X Posts -> {"idle", "bare", "linked", "done"}]
  /\ cleaner.at \in {"idle", "delete"} \/ cleaner.at \in Events
  /\ \A e \in cleaner.todo : files[e] \in {"old", "gone"}
  /\ missed \cup rushed \cup orphaned \subseteq Events

Init ==
  /\ files = [e \in Events |-> "none"]
  /\ events = [e \in Events |-> [there |-> FALSE, old |-> FALSE, link |-> FALSE]]
  /\ upload = [e \in Events |-> "idle"]
  /\ post = [x \in Events \X Posts |-> "idle"]
  /\ cleaner = NoCleaning
  /\ faults = 0
  /\ missed = {} /\ rushed = {} /\ orphaned = {}

Stored(e) == files[e] \in {"new", "old"}
CanFail == faults < MaxFaults

-----------------------------------------------------------------------------
(* The upload, and the post of the event.                                  *)

UploadFind(e) ==
  /\ upload[e] = "idle"
  /\ upload' = [upload EXCEPT ![e] = IF events[e].there THEN "storeAndLink" ELSE "store"]
  /\ UNCHANGED <<files, events, post, cleaner, faults, missed, rushed, orphaned>>

UploadStore(e) ==
  /\ upload[e] \in {"store", "storeAndLink"}
  /\ files' = [files EXCEPT ![e] = "new"]
  /\ upload' = [upload EXCEPT ![e] = IF @ = "store" THEN "done" ELSE "link"]
  /\ UNCHANGED <<events, post, cleaner, faults, missed, rushed, orphaned>>

UploadLink(e) ==
  /\ upload[e] = "link"
  /\ events' = [events EXCEPT ![e].link = @ \/ events[e].there]
  /\ upload' = [upload EXCEPT ![e] = "done"]
  /\ rushed' = IF files[e] = "gone" /\ events[e].there THEN rushed \cup {e} ELSE rushed
  /\ UNCHANGED <<files, post, cleaner, faults, missed, orphaned>>

\* Too large, or an error of the database: the file stays on the endpoint only.
UploadFail(e) ==
  /\ upload[e] \in {"idle", "store", "storeAndLink", "link"} /\ CanFail
  /\ upload' = [upload EXCEPT ![e] = "failed"]
  /\ faults' = faults + 1
  /\ UNCHANGED <<files, events, post, cleaner, missed, rushed, orphaned>>

\* The lookup of a blob; its errors are swallowed.  The agent posts once the
\* upload is under way.
PostFind(e, p) ==
  /\ post[<<e, p>>] = "idle" /\ upload[e] # "idle"
  /\ \/ /\ post' = [post EXCEPT ![<<e, p>>] = IF Stored(e) THEN "linked" ELSE "bare"]
        /\ faults' = faults
     \/ /\ Stored(e) /\ CanFail
        /\ post' = [post EXCEPT ![<<e, p>>] = "bare"]
        /\ faults' = faults + 1
  /\ UNCHANGED <<files, events, upload, cleaner, missed, rushed, orphaned>>

\* Mutant: a resend replaces the event instead of being a duplicate.
PostReplaces(e, p) ==
  /\ post[<<e, p>>] \in {"bare", "linked"}
  /\ post' = [post EXCEPT ![<<e, p>>] = "done"]
  /\ events' = [events EXCEPT ![e] = [there |-> TRUE, old |-> FALSE, link |-> post[<<e, p>>] = "linked"]]
  /\ missed' = missed
  /\ rushed' = IF post[<<e, p>>] = "linked" /\ files[e] = "gone" THEN rushed \cup {e} ELSE rushed
  /\ UNCHANGED <<files, upload, cleaner, faults, orphaned>>

\* The upsert: the first one inserts, with what its lookup found.
PostInsert(e, p) ==
  /\ post[<<e, p>>] \in {"bare", "linked"}
  /\ post' = [post EXCEPT ![<<e, p>>] = "done"]
  /\ IF events[e].there
     THEN UNCHANGED <<events, missed, rushed>>
     ELSE /\ events' = [events EXCEPT ![e] =
               [there |-> TRUE, old |-> FALSE, link |-> post[<<e, p>>] = "linked"]]
          /\ missed' = IF post[<<e, p>>] = "bare" /\ upload[e] \in {"store", "done"}
                       THEN missed \cup {e} ELSE missed \ {e}
          /\ rushed' = IF post[<<e, p>>] = "linked" /\ files[e] = "gone"
                       THEN rushed \cup {e} ELSE rushed \ {e}
  /\ UNCHANGED <<files, upload, cleaner, faults, orphaned>>

-----------------------------------------------------------------------------
(* Time and the cleanups.  Files live a month, events three at least.      *)

FileAges(e) ==
  /\ files[e] = "new"
  /\ files' = [files EXCEPT ![e] = "old"]
  /\ UNCHANGED <<events, upload, post, cleaner, faults, missed, rushed, orphaned>>

EventAges(e) ==
  /\ events[e].there /\ ~events[e].old /\ files[e] # "new"
  /\ events' = [events EXCEPT ![e].old = TRUE]
  /\ UNCHANGED <<files, upload, post, cleaner, faults, missed, rushed, orphaned>>

Gone == [there |-> FALSE, old |-> FALSE, link |-> FALSE]

\* delete_many of the events older than the effective retention.
DeleteOldEvents ==
  /\ \E e \in Events : events[e].old
  /\ events' = [e \in Events |-> IF events[e].old THEN Gone ELSE events[e]]
  /\ UNCHANGED <<files, upload, post, cleaner, faults, missed, rushed, orphaned>>

ClearAllEvents ==
  /\ CanFail /\ \E e \in Events : events[e].there
  /\ events' = [e \in Events |-> Gone]
  /\ faults' = faults + 1
  /\ UNCHANGED <<files, upload, post, cleaner, missed, rushed, orphaned>>

\* Mutant: the cleanup starts from the events, and misses files of deleted ones.
FindByEvent ==
  /\ cleaner.at = "idle"
  /\ \E e \in Events : files[e] = "old" /\ events[e].link
  /\ cleaner' = [at |-> "delete", todo |-> {e \in Events : files[e] = "old" /\ events[e].link}]
  /\ UNCHANGED <<files, events, upload, post, faults, missed, rushed, orphaned>>

CleanupFind ==
  /\ cleaner.at = "idle"
  /\ \E e \in Events : files[e] = "old"
  /\ cleaner' = [at |-> "delete", todo |-> {e \in Events : files[e] = "old"}]
  /\ UNCHANGED <<files, events, upload, post, faults, missed, rushed, orphaned>>

\* bucket.delete of one file; a failure is logged and the link goes all the same.
CleanupDelete(e) ==
  /\ cleaner.at = "delete" /\ e \in cleaner.todo
  /\ \/ /\ files' = [files EXCEPT ![e] = "gone"]
        /\ faults' = faults
     \/ /\ CanFail
        /\ files' = files
        /\ faults' = faults + 1
  /\ cleaner' = [cleaner EXCEPT !.at = e]
  /\ UNCHANGED <<events, upload, post, missed, rushed, orphaned>>

\* Mutant: the link is cleared before the next file, not after this one.
UnlinkLast(e) ==
  /\ cleaner.at = e
  /\ cleaner' = [at |-> IF cleaner.todo = {e} THEN "idle" ELSE "delete", todo |-> cleaner.todo \ {e}]
  /\ events' = IF cleaner.todo = {e} THEN [events EXCEPT ![e].link = FALSE] ELSE events
  /\ UNCHANGED <<files, upload, post, faults, missed, rushed, orphaned>>

CleanupUnlink(e) ==
  /\ cleaner.at = e
  /\ events' = [events EXCEPT ![e].link = FALSE]
  /\ cleaner' = [at |-> IF cleaner.todo = {e} THEN "idle" ELSE "delete",
                 todo |-> cleaner.todo \ {e}]
  /\ UNCHANGED <<files, upload, post, faults, missed, rushed, orphaned>>

\* The worker dies, or the update raises: the rest waits for the next day.
CleanupDies ==
  /\ cleaner.at # "idle" /\ CanFail
  /\ orphaned' = IF cleaner.at \in Events THEN orphaned \cup {cleaner.at} ELSE orphaned
  /\ cleaner' = NoCleaning
  /\ faults' = faults + 1
  /\ UNCHANGED <<files, events, upload, post, missed, rushed>>

Next ==
  \/ \E e \in Events : \/ UploadFind(e) \/ UploadStore(e) \/ UploadLink(e) \/ UploadFail(e)
                       \/ FileAges(e) \/ EventAges(e)
                       \/ CleanupDelete(e) \/ CleanupUnlink(e)
                       \/ \E p \in Posts : PostFind(e, p) \/ PostInsert(e, p)
  \/ DeleteOldEvents \/ ClearAllEvents \/ CleanupFind \/ CleanupDies

-----------------------------------------------------------------------------

Downloadable(e) == events[e].there /\ events[e].link /\ Stored(e)

\* An event that is there beside its stored file can be downloaded, except
\* where the upload and the post overlapped, looking past each other, or the
\* cleanup has unlinked a file it could not delete.
FileIsLinked ==
  \A e \in Events :
    (files[e] = "new" /\ events[e].there /\ upload[e] = "done" /\ e \notin missed)
      => Downloadable(e)

\* No event keeps the link of a deleted file once the cleanup is done with it,
\* except where the cleanup died in between or the link was on its way.
NoDanglingLink ==
  \A e \in Events :
    (events[e].there /\ events[e].link /\ files[e] = "gone")
      => cleaner.at = e \/ e \in rushed \cup orphaned

\* A file is forgotten: whatever fails, every stored file is deleted in the end.
FilesExpire == \A e \in Events : Stored(e) ~> files[e] = "gone"

Spec == Init /\ [][Next]_vars

Fairness ==
  /\ WF_vars(CleanupFind)
  /\ \A e \in Events : /\ WF_vars(FileAges(e))
                       /\ WF_vars(CleanupDelete(e)) /\ WF_vars(CleanupUnlink(e))
=============================================================================
