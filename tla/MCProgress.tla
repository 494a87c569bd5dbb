----------------------------- MODULE MCProgress -----------------------------
(***************************************************************************)
(* What must happen in the end, part by part, each in a small instance: a  *)
(* behaviour picks one part and runs it, the others stay as they begin.    *)
(* Every property assumes the fairness its part's module states.           *)
(***************************************************************************)
EXTENDS Integers, Sequences, FiniteSets

CONSTANTS NoBundle, NoPolicy, Garbage, NoEvent

VARIABLES
  part,                                            \* the part that runs
  table, commits, generation, cached, bundles, admin, eval, sync, installed, bumped, flushed, pullFaults,
  allowEvents, up, thread, spool, open, flush, late, delivered, fate, spoolFaults,
  files, events, upload, post, cleaner, vaultFaults, missed, rushed, orphaned,
  now, changes, reported, folder, account, run, pollFaults, base, clobbered,
  server, reachable, exists, pc, bundle, answer, cache, watched, dests, kept, broken, unsaved,
  diskEdits, disk, syncFaults,
  mail, session, section, worst, asked, refused, reply, forwarded, recorded, mailFaults

\* One admin, one agent with two calls under way, a fault.
Bundles == INSTANCE PolicyDistribution WITH
  Workers <- {"w"}, Agents <- {"a"}, Policies <- {"p"}, Admins <- {"x"}, Evals <- {},
  Syncs <- {"s1", "s2"}, AdminWorker <- [x \in {"x"} |-> "w"], EvalWorker <- <<>>,
  SyncAgent <- [s \in {"s1", "s2"} |-> "a"], Supported <- [a \in {"a"} |-> {"p"}],
  EvalTTL <- 1, BundleTTL <- 1, MaxCommits <- 1, MaxFaults <- 1, faults <- pullFaults

\* Two threads, a spool of one line, whole lines after a crash.
Spool == INSTANCE EventSpool WITH
  Threads <- {"t1", "t2"}, Events <- {"e1", "e2"}, Cap <- 1, Batch <- 1,
  TornWrites <- FALSE, MaxFaults <- 2, stored <- delivered, faults <- spoolFaults

\* One event posted twice.
Vault == INSTANCE QuarantineVault WITH
  Events <- {"e1"}, Posts <- {1, 2}, MaxFaults <- 1, faults <- vaultFaults

\* One run at a time over two accounts, one of them reporting by token.
Cloud == INSTANCE CloudPolling WITH
  Runs <- {1}, Kind <- <<"delta", "drive">>, Folders <- {"f"}, Protected <- {"f"},
  MaxChanges <- 1, MaxTime <- 1, MaxFaults <- 1, events <- reported, faults <- pollFaults

\* One watched path, watched by default.
Linux == INSTANCE LinuxAgent WITH
  Paths <- {"a"}, Default <- {"a"}, MaxEdits <- 1, MaxDisk <- 1, MaxFaults <- 1,
  up <- reachable, files <- watched, edits <- diskEdits, faults <- syncFaults

\* A part of a message: what its extraction gives and what the server says.
Sections == {s \in [kind : {"file", "body", "bare"}, seen : {"whole", "partial", "unread", "empty"},
                    text : {"allow", "alert", "block"}, unread : {"allow", "alert", "block"}] :
  /\ s.seen = "empty" => s.text = "allow" /\ s.unread = "allow"
  /\ s.seen = "unread" => s.text = "allow" /\ s.unread # "block"
  /\ (s.seen = "whole" \/ s.kind # "file") => s.unread = "allow"
  /\ s.kind = "body" => s.text # "alert"
  /\ s.kind = "bare" => s.seen = "whole" /\ s.text = "block"}

Mails == {[kind |-> "huge", parts |-> <<>>]} \cup
         {[kind |-> k, parts |-> <<s>>] : k \in {"plain", "garbled"}, s \in Sections}

\* Open: errors and unreadable attachments are let through; closed: refused.
Open == INSTANCE MailRelay WITH
  BlockOnError <- FALSE, BlockUnextractable <- FALSE, ScanBody <- TRUE, MaxFaults <- 2,
  pc <- session, part <- section, delivered <- forwarded, faults <- mailFaults
Closed == INSTANCE MailRelay WITH
  BlockOnError <- TRUE, BlockUnextractable <- TRUE, ScanBody <- TRUE, MaxFaults <- 1,
  pc <- session, part <- section, delivered <- forwarded, faults <- mailFaults

Parts == {"bundles", "spool", "vault", "cloud", "linux", "open", "closed"}

\* A part that does not run has but one beginning.
Init ==
  /\ part \in Parts
  /\ IF part = "linux" THEN TRUE ELSE server = CHOOSE b \in Linux!Bundles : TRUE
  /\ IF part \in {"open", "closed"} THEN TRUE ELSE mail = [kind |-> "huge", parts |-> <<>>]
  /\ Bundles!Init /\ Spool!Init /\ Vault!Init /\ Cloud!Init /\ Linux!Init /\ Open!Init

bundlesVars == <<table, commits, generation, cached, bundles, admin, eval, sync, installed, bumped,
                 flushed, pullFaults>>
spoolVars   == <<allowEvents, up, thread, spool, open, flush, late, delivered, fate, spoolFaults>>
vaultVars   == <<files, events, upload, post, cleaner, vaultFaults, missed, rushed, orphaned>>
cloudVars   == <<now, changes, reported, folder, account, run, pollFaults, base, clobbered>>
linuxVars   == <<server, reachable, exists, pc, bundle, answer, cache, watched, dests, kept, broken,
                 unsaved, diskEdits, disk, syncFaults>>
mailVars    == <<mail, session, section, worst, asked, refused, reply, forwarded, recorded, mailFaults>>
vars == <<part, bundlesVars, spoolVars, vaultVars, cloudVars, linuxVars, mailVars>>

\* Part p runs and the others stand still.
Only(p) ==
  /\ part = p /\ UNCHANGED part
  /\ p # "bundles" => UNCHANGED bundlesVars
  /\ p # "spool"   => UNCHANGED spoolVars
  /\ p # "vault"   => UNCHANGED vaultVars
  /\ p # "cloud"   => UNCHANGED cloudVars
  /\ p # "linux"   => UNCHANGED linuxVars
  /\ p \notin {"open", "closed"} => UNCHANGED mailVars

Next ==
  \/ Only("bundles") /\ Bundles!Next
  \/ Only("spool") /\ Spool!Next
  \/ Only("vault") /\ Vault!Next
  \/ Only("cloud") /\ Cloud!Next
  \/ Only("linux") /\ Linux!Next
  \/ Only("open") /\ Open!Next
  \/ Only("closed") /\ Closed!Next

Spec == Init /\ [][Next]_vars /\ WF_vars(Next)

-----------------------------------------------------------------------------
\* Once mutations and faults are over every agent enforces the final table.
AgentsConverge == (part = "bundles" /\ Bundles!Fairness) => Bundles!AgentsConverge

\* The spool implements the abstract promise EventDelivery: no stored event is
\* lost again, and every event accepted is stored or given up in the end.
EventsDelivered ==
  /\ Spool!Delivery!SafeSpec
  /\ (part = "spool" /\ Spool!Fairness) => Spool!Delivery!Settles

\* Every quarantined file is deleted in the end, whatever fails.
FilesExpire == (part = "vault" /\ Vault!Fairness) => Vault!FilesExpire

\* Every change of a protected folder is reported in the end, unless the token
\* of its account, or of one read before it, is refused again and again.
ChangesReported == (part = "cloud" /\ Cloud!Fairness) => Cloud!ChangesReported

\* Once policies and network have settled, the Linux agent has the server's bundle.
BundlesArrive == (part = "linux" /\ Linux!Fairness) => Linux!BundlesArrive

\* Every message is accepted or refused for good once the faults are over.
MailIsSettled ==
  /\ (part = "open" /\ Open!Fairness) => Open!MailIsSettled
  /\ (part = "closed" /\ Closed!Fairness) => Closed!MailIsSettled
=============================================================================
