------------------------------ MODULE Endpoint ------------------------------
(***************************************************************************)
(* The parts at the edges: the Linux agent's bundles, files, disks and     *)
(* print jobs, the Windows agent's hold on USB storage, the mail relay and *)
(* the SIEMs.  They share no state: a behaviour picks one and runs it, and *)
(* the others stay as they begin.                                          *)
(***************************************************************************)
EXTENDS Integers, Sequences, FiniteSets

CONSTANTS
  Paths, DefaultPaths, MaxEdits, MaxDisk, MaxFaults,                     \* LinuxAgent
  Threads, MaxFileOps, MaxTicks,                                         \* LinuxFiles
  Devices, Nodes, MaxUsbOps, MaxUsbFaults,                               \* LinuxUsb
  Jobs, Restricted, MaxPollFaults,                                       \* LinuxPrint
  Serials, OthersActive, MaxChanges, MaxArrivals, MaxRestarts,           \* UsbEnforcement
  OutgoingMails, MaxMailFaults,                                          \* MailRelay
  Workers, Requests, ConnectorTypes, MaxSiemOps, MaxFlips, MaxUnwritten  \* Forwarding

VARIABLES
  part,                                            \* the part that runs
  server, up, exists, pc, bundle, answer, cache, watched, dests, kept, broken, unsaved, edits, disk, faults,
  file, large, queue, th, recent, born, posted, twice, fate, fileOps, ticks,
  allow, known, at, phase, udev, devices, reports, missed, left, usbOps, usbFaults,
  job, lastJobs, poll, printed, denied, seen, pollFaults,
  classic, control, approved, held, has, stored, active, allowlist, sync, listening, arrival,
  elevated, boot, blocked, raced, changes, arrivals, restarts,
  mail, session, section, worst, inspected, rejected, reply, forwarded, recorded, mailFaults,
  connector, connectors, forwarding, reachable, requests, siemOps, flips, unwritten, asked, refused, mixed

Linux == INSTANCE LinuxAgent WITH Default <- DefaultPaths, files <- watched

\* A file that its policy leaves where it is (log, alert), or takes away
\* (quarantine, block).
Actions == {"log", "quarantine"}
Files(action) == INSTANCE LinuxFiles WITH
  Removing <- action = "quarantine", MaxOps <- MaxFileOps, ops <- fileOps

Disks == INSTANCE LinuxUsb WITH
  MaxOps <- MaxUsbOps, MaxFaults <- MaxUsbFaults, ops <- usbOps, faults <- usbFaults

Printing == INSTANCE LinuxPrint WITH
  MaxFaults <- MaxPollFaults, reports <- printed, refused <- denied, faults <- pollFaults

Storage == INSTANCE UsbEnforcement WITH
  MaxEdits <- MaxChanges, MaxFaults <- MaxRestarts,
  bundle <- held, cache <- stored, allow <- allowlist, edits <- changes, faults <- restarts

\* The relay as it may be set: errors and unreadable attachments are let through
\* (open) or refused (closed), or one of the two is; or bodies are not looked at
\* (bodiless).
Relays == {"open", "closed", "careful", "strict", "bodiless"}
Relay(setting) == INSTANCE MailRelay WITH
  Mails <- OutgoingMails,
  BlockOnError <- setting \in {"closed", "careful"},
  BlockUnextractable <- setting \in {"closed", "strict"},
  ScanBody <- setting # "bodiless", MaxFaults <- MaxMailFaults,
  pc <- session, part <- section, asked <- inspected, refused <- rejected, delivered <- forwarded,
  faults <- mailFaults

Siem == INSTANCE Forwarding WITH
  Types <- ConnectorTypes, MaxOps <- MaxSiemOps, MaxFaults <- MaxUnwritten,
  row <- connector, held <- connectors, active <- forwarding,
  siem <- reachable, request <- requests, ops <- siemOps, faults <- unwritten

ASSUME LinuxAssumption ==
  DefaultPaths \subseteq Paths /\ MaxEdits \in Nat /\ MaxDisk \in Nat /\ MaxFaults \in Nat

\* Somebody watches the file.
ASSUME FilesAssumption == Threads # {} /\ MaxFileOps \in Nat /\ MaxTicks \in Nat

ASSUME DisksAssumption == Disks!None \notin Devices /\ MaxUsbOps \in Nat /\ MaxUsbFaults \in Nat

ASSUME PrintingAssumption == MaxPollFaults \in Nat

ASSUME StorageAssumption ==
  OthersActive \in BOOLEAN /\ MaxChanges \in Nat /\ MaxArrivals \in Nat /\ MaxRestarts \in Nat

\* What the relay finds in a message: see MailRelay.
ASSUME RelayAssumption ==
  /\ MaxMailFaults \in Nat
  /\ \A m \in OutgoingMails : m.parts \in
       Seq([kind : {"file", "body", "bare"}, seen : {"whole", "partial", "unread", "empty"},
            text : {"allow", "alert", "block"}, unread : {"allow", "alert", "block"}])

\* A request is nobody's, and a row empty, in one way only.
ASSUME SiemAssumption ==
  /\ 0 \notin Workers /\ "none" \notin ConnectorTypes
  /\ MaxSiemOps \in Nat /\ MaxFlips \in Nat /\ MaxUnwritten \in Nat

Parts == {"linux", "disks", "print", "storage", "siem"} \cup Relays \cup Actions

\* A part that does not run has but one beginning.
EndpointInit ==
  /\ part \in Parts
  /\ IF part = "linux" THEN TRUE ELSE server = CHOOSE b \in Linux!Bundles : TRUE
  /\ IF part = "disks" THEN TRUE ELSE /\ allow = [enforced |-> FALSE, serials |-> {}]
                                     /\ at = [n \in Nodes |-> Disks!Empty]
  /\ IF part = "storage" THEN TRUE ELSE /\ classic = "none" /\ control = "off"
                                       /\ elevated = FALSE /\ boot = FALSE /\ blocked = FALSE
  /\ IF part \in Relays THEN TRUE ELSE mail = CHOOSE m \in OutgoingMails : TRUE
  /\ Linux!Init /\ Files("log")!Init /\ Disks!Init /\ Printing!Init /\ Storage!Init /\ Relay("open")!Init
  /\ Siem!Init

linuxVars   == <<server, up, exists, pc, bundle, answer, cache, watched, dests, kept, broken, unsaved,
                 edits, disk, faults>>
filesVars   == <<file, large, queue, th, recent, born, posted, twice, fate, fileOps, ticks>>
disksVars   == <<allow, known, at, phase, udev, devices, reports, missed, left, usbOps, usbFaults>>
printVars   == <<job, lastJobs, poll, printed, denied, seen, pollFaults>>
storageVars == <<classic, control, approved, held, has, stored, active, allowlist, sync, listening,
                 arrival, elevated, boot, blocked, raced, changes, arrivals, restarts>>
relayVars   == <<mail, session, section, worst, inspected, rejected, reply, forwarded, recorded,
                 mailFaults>>
siemVars    == <<connector, connectors, forwarding, reachable, requests, siemOps, flips, unwritten,
                 asked, refused, mixed>>
endpointVars == <<part, linuxVars, filesVars, disksVars, printVars, storageVars, relayVars, siemVars>>

\* Part p runs and the others stand still.
Runs(p) ==
  /\ part = p /\ UNCHANGED part
  /\ p # "linux"      => UNCHANGED linuxVars
  /\ p \notin Actions => UNCHANGED filesVars
  /\ p # "disks"      => UNCHANGED disksVars
  /\ p # "print"      => UNCHANGED printVars
  /\ p # "storage"    => UNCHANGED storageVars
  /\ p \notin Relays  => UNCHANGED relayVars
  /\ p # "siem"       => UNCHANGED siemVars

EndpointNext ==
  \/ Runs("linux") /\ Linux!Next
  \/ \E a \in Actions : Runs(a) /\ Files(a)!Next
  \/ Runs("disks") /\ Disks!Next
  \/ Runs("print") /\ Printing!Next
  \/ Runs("storage") /\ Storage!Next
  \/ \E s \in Relays : Runs(s) /\ Relay(s)!Next
  \/ Runs("siem") /\ Siem!Next

EndpointSpec == EndpointInit /\ [][EndpointNext]_endpointVars

-----------------------------------------------------------------------------
\* The variables of the part that runs keep to what the code can hold (its TypeOK).
TypesOK ==
  /\ part \in Parts
  /\ part = "linux"    => Linux!TypeOK
  /\ part \in Actions => Files("log")!TypeOK
  /\ part = "disks"    => Disks!TypeOK
  /\ part = "print"    => Printing!TypeOK
  /\ part = "storage"  => Storage!TypeOK
  /\ part \in Relays  => Relay("open")!TypeOK
  /\ part = "siem"     => Siem!TypeOK

\* The paths the Linux agent watches are those of its newest bundle, whatever
\* directories come and go, and a restart without the server keeps that bundle.
BundleIsKept == Linux!WatchesFollowBundle /\ Linux!RestartKeepsBundle

\* Content that stays under a watched path has been reported whatever the action
\* of its policy, unless it is too large, its event was passed over, failed, repeated
\* one of the last seconds, or was lost in its one post; and a creation that several
\* observers see is posted once in a while.
ContentReported == \A a \in Actions : part = a => Files(a)!ContentReported /\ Files(a)!CreatedOnce

\* A disconnect names the disk that left, though another may have its device
\* name by then, and no print job is handled twice.
PeripheralsToldApart == Disks!DisconnectNamesDisk /\ Printing!HandledOnce

\* A drive is kept out only for a policy or an allowlist that asked for it, but for
\* two races, a boot task that runs late, and an agent without the rights to let it
\* in again.
BlockedForAReason == Storage!BlockedForAReason

\* What the relay delivers was inspected, or was let through by its settings,
\* except for the parts of a message that it overlooks.
DeliveredWasInspected == \A s \in Relays : part = s => Relay(s)!DeliveredWasInspected

\* A SIEM that is registered is sent events unless it was away when it was, one
\* that is removed stays removed, and a stream that failed is opened again.
SiemsAreFed == Siem!LastWordIsStored /\ Siem!SilentWasRefused /\ Siem!FailureReconnects
=============================================================================
