------------------------------ MODULE MailRelay ------------------------------
(***************************************************************************)
(* The outbound mail relay (smtp-relay/app): one message of a sending      *)
(* server, which sends it again after a temporary refusal or a broken      *)
(* connection.  Each part of the message is a record: whether it is a file *)
(* (it has a name), a body (a text without a name) or neither, what the    *)
(* extraction of its bytes gives (see Extraction), and what the DLP server *)
(* says of its text and of content that nobody could read.                 *)
(***************************************************************************)
EXTENDS Integers, Sequences

CONSTANTS Mails,               \* the messages: of a kind ("huge", "garbled", "plain"), with parts
          BlockOnError,        \* RELAY_BLOCK_ON_DLP_ERROR
          BlockUnextractable,  \* RELAY_BLOCK_UNEXTRACTABLE
          ScanBody,            \* RELAY_SCAN_BODY
          MaxFaults            \* bound: failures of the server, the next hop or the relay

VARIABLES mail,       \* what the sending server has to send
          pc,         \* where handle_DATA is; "sender" when no session is open
          part,       \* the part it looks at
          worst,      \* worst_action
          asked,      \* the questions the DLP server answered or failed to: part and kind
          refused,    \* a question of this session was answered with a block
          reply,      \* the last reply: none, 250, 451, 550 or 552
          delivered,  \* how often the next hop took the message
          recorded,   \* the events the server has of it
          faults

vars == <<mail, pc, part, worst, asked, refused, reply, delivered, recorded, faults>>

Replies == {"none", "250", "451", "550", "552"}
Parts == mail.parts

\* extract_text of the relay: no text, all of it, a part of it, or unreadable.
Seen(p) == p.seen
IsBody(p) == p.kind = "body"

\* _collect_parts, for a message that can be parsed.
Collected(p) == mail.kind # "garbled" /\ (p.kind = "file" \/ (IsBody(p) /\ ScanBody))

HasText(p) == Seen(p) \in {"whole", "partial"}

Init ==
  /\ mail \in Mails
  /\ pc = "sender" /\ part = 0 /\ worst = "allow" /\ asked = {} /\ refused = FALSE
  /\ reply = "none" /\ delivered = 0 /\ recorded = {} /\ faults = 0

Reply(code) == pc' = "sender" /\ reply' = code

\* The sending server opens a session, again after a temporary failure.  The
\* relay measures the message and collects its parts; one that cannot be parsed
\* goes on with none, or is refused for now.
Receive ==
  /\ pc = "sender" /\ reply \in {"none", "451"}
  /\ IF mail.kind = "huge" THEN Reply("552")
     ELSE IF mail.kind = "garbled" /\ BlockOnError THEN Reply("451")
     ELSE pc' = "part" /\ UNCHANGED reply
  /\ part' = 1 /\ worst' = "allow" /\ asked' = {} /\ refused' = FALSE
  /\ UNCHANGED <<mail, delivered, recorded, faults>>

\* What is done with the answer to a question about the part.
Obey(answer, next) ==
  /\ refused' = (answer = "block")
  /\ IF answer = "block" THEN pc' = "refuse" /\ UNCHANGED <<part, worst>>
     ELSE /\ pc' = next
          /\ part' = IF next = "part" THEN part + 1 ELSE part
          /\ worst' = IF answer = "alert" /\ next = "part" THEN "alert" ELSE worst

\* evaluate: the server answers, or it does not and the configuration decides.
Question(kind, answer, next) ==
  /\ asked' = asked \cup {<<part, kind>>}
  /\ \/ Obey(answer, next) /\ UNCHANGED faults
     \/ /\ faults < MaxFaults /\ faults' = faults + 1
        /\ Obey(IF BlockOnError THEN "block" ELSE "allow", next)
  /\ UNCHANGED <<mail, reply, delivered, recorded>>

\* Mutant: of the parts collected only one without text is passed over.
NoText(p) == ~Collected(p) \/ Seen(p) = "empty"

\* A part that is not collected, one without text, or a body that cannot be read.
PassedOver(p) == ~Collected(p) \/ Seen(p) = "empty" \/ (Seen(p) = "unread" /\ IsBody(p))

Skip ==
  /\ pc = "part" /\ part <= Len(Parts) /\ PassedOver(Parts[part])
  /\ part' = part + 1
  /\ UNCHANGED <<mail, pc, worst, asked, refused, reply, delivered, recorded, faults>>

\* An attachment that cannot be read is refused, or the policy decides; an
\* alert of that policy leaves no mark.
AskUnread ==
  /\ pc = "part" /\ part <= Len(Parts) /\ Collected(Parts[part])
  /\ Seen(Parts[part]) = "unread" /\ ~IsBody(Parts[part])
  /\ IF BlockUnextractable
     THEN /\ pc' = "refuse" /\ refused' = TRUE
          /\ UNCHANGED <<mail, part, worst, asked, reply, delivered, recorded, faults>>
     ELSE Question("unread", IF Parts[part].unread = "block" THEN "block" ELSE "allow", "part")

\* Mutant: what was read of the attachment decides.
NeverAgain(p) == FALSE

\* The answer about the text of an attachment only partly read is not the last
\* word.
AskAgain(p) == Seen(p) = "partial" /\ ~IsBody(p)

AskText ==
  /\ pc = "part" /\ part <= Len(Parts) /\ Collected(Parts[part]) /\ HasText(Parts[part])
  /\ Question("text", Parts[part].text, IF AskAgain(Parts[part]) THEN "again" ELSE "part")

AskPartial ==
  /\ pc = "again"
  /\ Question("unread", Parts[part].unread, "part")

\* _record_block: both events are tried, and either may be lost.
Refuse ==
  /\ pc = "refuse"
  /\ \E lost \in SUBSET {"attempt", "prevented"} :
       /\ lost # {} => faults < MaxFaults
       /\ faults' = IF lost = {} THEN faults ELSE faults + 1
       /\ recorded' = recorded \cup ({"attempt", "prevented"} \ lost)
  /\ Reply("550")
  /\ UNCHANGED <<mail, part, worst, asked, refused, delivered>>

Forward ==
  /\ pc = "part" /\ part > Len(Parts)
  /\ \/ delivered' = delivered + 1 /\ pc' = "event" /\ UNCHANGED <<reply, faults>>
     \/ faults < MaxFaults /\ faults' = faults + 1 /\ Reply("451") /\ UNCHANGED delivered
  /\ UNCHANGED <<mail, part, worst, asked, refused, recorded>>

Report ==
  /\ pc = "event"
  /\ \/ recorded' = recorded \cup {IF worst = "alert" THEN "internal" ELSE "allowed"}
        /\ UNCHANGED faults
     \/ faults < MaxFaults /\ faults' = faults + 1 /\ UNCHANGED recorded
  /\ Reply("250")
  /\ UNCHANGED <<mail, part, worst, asked, refused, delivered>>

\* The relay stops, or the sending server gives up waiting: no reply.
Break ==
  /\ pc # "sender" /\ faults < MaxFaults
  /\ pc' = "sender" /\ faults' = faults + 1
  /\ UNCHANGED <<mail, part, worst, asked, refused, reply, delivered, recorded>>

Relay == Skip \/ AskUnread \/ AskText \/ AskPartial \/ Refuse \/ Forward \/ Report
Next == Receive \/ Relay \/ Break
Spec == Init /\ [][Next]_vars

\* The sending server keeps trying, and a session that is open goes on.
Fairness == WF_vars(Receive) /\ WF_vars(Relay)

-----------------------------------------------------------------------------
TypeOK ==
  /\ pc \in {"sender", "part", "again", "refuse", "event"}
  /\ part \in Nat /\ worst \in {"allow", "alert"} /\ refused \in BOOLEAN /\ reply \in Replies
  /\ delivered \in Nat /\ faults \in 0 .. MaxFaults
  /\ recorded \subseteq {"attempt", "prevented", "internal", "allowed"}

\* What leaves uninspected: a part without a name that is no text, be it attached
\* or in line, a body unless bodies are scanned, and all of a message that cannot
\* be parsed.
Overlooked(p) == p.kind = "bare" \/ (p.kind = "body" /\ ~ScanBody) \/ mail.kind = "garbled"

\* "clean so far is not clean": when a message leaves, the DLP server had been
\* asked about every text in it, and about every attachment that the extraction
\* marks as partly or not read, and had blocked none; but for the parts that are
\* overlooked ("turn every attachment and the body into text", handler.py:5).
DeliveredWasInspected ==
  pc = "event" =>
    /\ ~refused
    /\ \A i \in DOMAIN Parts : ~Overlooked(Parts[i]) =>
         /\ HasText(Parts[i]) => <<i, "text">> \in asked
         /\ (Seen(Parts[i]) \in {"partial", "unread"} /\ ~IsBody(Parts[i])) => <<i, "unread">> \in asked

\* Every message is accepted or refused for good once the faults are over.
MailIsSettled == <>(reply \in {"250", "550", "552"} \/ (mail.kind = "garbled" /\ BlockOnError))
=============================================================================
