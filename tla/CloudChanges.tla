----------------------------- MODULE CloudChanges -----------------------------
(***************************************************************************)
(* What the OneDrive poller makes of one file of a Graph answer.  Graph     *)
(* says how the item changed, often "updated" for want of better, and may   *)
(* mark it deleted; Redis remembers the ETag and the time of each file.     *)
(*   type     what Graph says of the change                                 *)
(*   deleted  the item carries the deleted facet                            *)
(*   close    created and modified within a minute of each other            *)
(*   memory   what Redis has of the file against what the drive has now:    *)
(*            nothing, the same, another ETag or another time               *)
(*   found    the file's current metadata can be fetched                    *)
(*   redis    Redis is there                                                *)
(***************************************************************************)

Types == {"created", "updated", "deleted", "moved", "renamed", "copied"}
Items == [type : Types, deleted : BOOLEAN, close : BOOLEAN,
          memory : {"none", "same", "etag", "time"}, found : BOOLEAN, redis : BOOLEAN]

\* ACTION_MAP; the poller skips other types.
Subtype(type) ==
  CASE type = "created" -> "file_created"
    [] type = "updated" -> "file_modified"
    [] type = "deleted" -> "file_deleted"
    [] type \in {"moved", "renamed"} -> "file_moved"
    [] type = "copied" -> "file_copied"

\* An update within a minute of the creation is taken for the creation.
Improved(item, type) == IF type = "updated" /\ item.close THEN "created" ELSE type

\* The deleted facet goes before the type.
Normalized(item, type) == Subtype(Improved(item, IF item.deleted THEN "deleted" ELSE type))

Known(item) == item.redis /\ item.memory # "none"

\* Mutant: the type Graph gives decides even when the ETag has changed.
ModifiedByTime(item) == item.found /\ (~Known(item) \/ item.memory = "time")

\* The file is there, and is new to Redis or not what Redis remembers.
Modified(item) == item.found /\ (~Known(item) \/ item.memory # "same")

\* The subtype of the event.
Reported(item) ==
  CASE (item.type = "created" /\ Known(item)) \/ item.type = "updated" ->
         IF Modified(item) THEN "file_modified" ELSE Normalized(item, item.type)
    [] OTHER -> Normalized(item, item.type)

\* Mutant: only a modification is remembered.
RemembersModified(item) ==
  item.redis /\ item.type # "deleted" /\ (Known(item) \/ Reported(item) = "file_modified")

\* Whether Redis has the file afterwards.
Remembers(item) ==
  /\ item.redis
  /\ item.type # "deleted"
  /\ Known(item) \/ item.type = "created"
     \/ Reported(item) \in {"file_created", "file_modified"}

\* A file whose content differs from what Redis remembers is reported modified,
\* not created, however Graph calls the change and however young the file is.
EditIsModification(item) ==
  (item.type \in {"created", "updated"} /\ Known(item) /\ item.memory = "etag" /\ item.found)
    => Reported(item) = "file_modified"

\* A file that is gone is reported deleted, whatever type Graph gives the change.
DeletionIsReported(item) ==
  ((item.deleted \/ item.type = "deleted") /\ ~item.found) => Reported(item) = "file_deleted"

\* A file reported created or modified is remembered while Redis is there, so
\* that its next edit is recognised.
ReportedIsRemembered(item) ==
  (item.redis /\ Reported(item) \in {"file_created", "file_modified"}) => Remembers(item)
=============================================================================
