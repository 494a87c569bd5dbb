---------------------------- MODULE Classification ----------------------------
(***************************************************************************)
(* What level a text is given: known documents and records first, then the *)
(* rules with their thresholds and checksums, the correlation of weak      *)
(* signals, the model's opinion, the context and the channel.  A text is   *)
(* what the detectors find in it; confidences are in ten-thousandths.      *)
(***************************************************************************)
EXTENDS Integers, FiniteSets, FiniteSetsExt

Levels == {"Public", "Internal", "Confidential", "Restricted"}
Rank(level) == CASE level = "Internal" -> 1 [] level = "Confidential" -> 2
                 [] level = "Restricted" -> 3 [] OTHER -> 0
Least(a, b) == IF a <= b THEN a ELSE b
Most(a, b) == IF a >= b THEN a ELSE b
One == 10000
Sure(n) == Most(0, Least(One, n))

LevelOf(confidence) ==
  CASE confidence >= 8000 -> "Restricted"
    [] confidence \in 6000 .. 7999 -> "Confidential"
    [] confidence \in 3000 .. 5999 -> "Internal"
    [] OTHER -> "Public"

-----------------------------------------------------------------------------
\* The matches of a rule that count: those with a valid checksum for payment
\* cards, and, for keys, those outside comments, checksum or not.
Validated(rule, found) ==
  LET key  == {"API", "CREDENTIALS"} \cap rule.labels # {}
      card == {"CREDIT_CARD", "PCI"} \cap rule.labels # {}
  IN  IF found.raw = 0 \/ (card /\ found.valid = 0) THEN 0
      ELSE IF key THEN found.outside ELSE IF card THEN found.valid ELSE found.raw

Applies(rule, text) ==
  rule.fileTypes = {} \/ text.fileType = "none" \/ text.fileType \in rule.fileTypes

Hits(text) ==
  {m \in text.found : Applies(m.rule, text)
                      /\ Validated(m.rule, m) > 0 /\ Validated(m.rule, m) >= m.rule.threshold}

\* What a rule adds: its weight, up to twice for many matches, and less than half
\* for a telephone number with nothing near it that speaks of one.
Contribution(m) ==
  LET scaled == IF m.rule.threshold = 0 THEN m.rule.weight
                ELSE (m.rule.weight * Least(2 * m.rule.threshold, Validated(m.rule, m))) \div m.rule.threshold
  IN  IF "PHONE" \in m.rule.labels /\ ~m.near THEN (scaled * 4) \div 10 ELSE scaled

Total(hits) == MapThenSumSet(Contribution, hits)
LabelsOf(hits) == UNION {m.rule.labels : m \in hits}

-----------------------------------------------------------------------------
\* Weak signals add up to a score, and the score to a bonus, of which what the
\* rules weigh by themselves is taken off when that is enough.
Strong == {"IFSC", "PAN", "PAN_CARD", "TAX", "AADHAAR", "CREDIT_CARD", "SSN", "BANK_ACCOUNT"}
Points(labels, groups, n) == IF labels \cap groups # {} THEN n ELSE 0
Score(text, labels) ==
  Points(labels, {"IFSC", "IFSC_CODE"}, 50) + Points(labels, {"PAN", "PAN_CARD", "TAX"}, 40)
  + Points(labels, {"AADHAAR"}, 30) + Points(labels, {"CREDIT_CARD", "PCI"}, 40)
  + Points(labels, {"SSN"}, 40) + Points(labels, {"BANK_ACCOUNT"}, 40)
  + (IF text.numbers THEN 10 ELSE 0) + (IF text.banking THEN 20 ELSE 0)
  + (IF text.numbers /\ text.banking THEN 20 ELSE 0) + (IF text.personal THEN 15 ELSE 0)
  + 10 * Most(0, Cardinality(labels \cap Strong) - 1)

BonusOf(score) ==
  CASE score >= 70 -> 9500 [] score \in 50 .. 69 -> 7000 [] score \in 30 .. 49 -> 4000
    [] score \in 1 .. 29 -> 1000 [] OTHER -> 0
Weigh(m) == m.rule.weight
Bonus(text, hits) ==
  LET weights == MapThenSumSet(Weigh, hits)
      bonus   == BonusOf(Score(text, LabelsOf(hits)))
  IN  IF weights >= 8000 THEN Most(0, bonus - weights) ELSE bonus

-----------------------------------------------------------------------------
\* The context of the matches: signs that they are examples against signs that
\* they are real.
Signs(text) == (IF text.testValue THEN 1 ELSE 0) + (IF text.testFile THEN 1 ELSE 0) + text.examples
IsFalseAlarm(text) ==
  /\ text.real = 0
  /\ text.testValue \/ text.testFile \/ Signs(text) >= 3
Adjustment(text) ==
  CASE IsFalseAlarm(text) ->
         IF text.testValue THEN -8000 ELSE IF text.testFile THEN -7000 ELSE -6000
    [] ~IsFalseAlarm(text) /\ Signs(text) > text.real /\ Signs(text) >= 2 ->
         -((3000 * Signs(text)) \div (Signs(text) + text.real))
    [] Signs(text) = 0 /\ text.real >= 2 -> Least(2000, text.real * 500)
    [] OTHER -> 0

\* The model: the heaviest entity by their density, and the class of the text; no
\* opinion when it is slow or broken.
Entities(model) == Least(One, (model.weight * Least(2 * model.entities, 9)) \div 6)
Class(model) == CASE model.class = "public" -> 1000 [] model.class = "internal" -> 4000
                  [] model.class = "confidential" -> 7000 [] OTHER -> 9500
Opinion(model) ==
  CASE model.state \in {"slow", "broken"} -> 0
    [] model.state \notin {"slow", "broken"} /\ model.entities > 0 -> Least(One, (Entities(model) * 6 + Class(model) * 4) \div 10)
    [] OTHER -> Class(model)

\* Mutant: the rules' own verdict is not a floor.
CombinedWithoutFloor(rules, text) ==
  IF IsFalseAlarm(text) THEN Least(2500, (rules * 3) \div 10)
  ELSE Sure((rules * 50 + Opinion(text.model) * 30 + Sure(rules + Adjustment(text)) * 20) \div 100)

Combined(rules, text) ==
  LET blend == (rules * 50 + Opinion(text.model) * 30 + Sure(rules + Adjustment(text)) * 20) \div 100
  IN  IF IsFalseAlarm(text) THEN Least(2500, (rules * 3) \div 10)
      ELSE Sure(IF rules >= 8000 THEN Most(blend, rules) ELSE blend)

Multiplier(text) ==
  (CASE text.fileType \in {"csv", "key"} -> 120 [] text.fileType = "txt" -> 110 [] OTHER -> 100)
  * (IF text.channel \in {"clipboard", "usb", "removable", "email", "cloud"} THEN 115 ELSE 100)

\* The confidence of the rules, the model and the context together; the model and
\* the context only where they are switched on.
Confidence(text, hits) ==
  LET total == Total(hits) + Bonus(text, hits)
      base  == IF text.model.state = "off" THEN total ELSE Combined(Least(One, total), text)
  IN  Least(One, (base * Multiplier(text)) \div 10000
                 + (IF text.random /\ (hits # {} \/ text.numbers) THEN 500 ELSE 0))

-----------------------------------------------------------------------------
Severest(levels) == CHOOSE l \in levels : \A k \in levels : Rank(k) <= Rank(l)
Severer(a, b) == IF Rank(a) >= Rank(b) THEN a ELSE b

\* Mutant: without rules nothing is looked up.
WithoutRulesPublic(text) == "Public"

\* Without rules what is known of the text decides alone.
WithoutRules(text) == IF text.known = {} THEN "Public" ELSE Severest(text.known)

\* The level of a text: a known file and a restricted record decide at once,
\* what else is known of it is a floor.
Classified(text) ==
  CASE text.empty -> "Public"
    [] ~text.empty /\ (text.fingerprint \/ "Restricted" \in text.known) -> "Restricted"
    [] ~text.empty /\ ~(text.fingerprint \/ "Restricted" \in text.known) ->
         IF ~text.rules THEN WithoutRules(text)
         ELSE Severest(text.known \cup {LevelOf(Confidence(text, Hits(text)))})

-----------------------------------------------------------------------------
\* Whatever the rules say, a text that holds a known record or document has at
\* least that source's level: "neither one silently overriding a stronger
\* finding from the other" (classification_engine.py:124-129).
KnownIsFloor(text) ==
  ~text.empty => /\ text.fingerprint => Classified(text) = "Restricted"
                 /\ \A level \in text.known : Rank(Classified(text)) >= Rank(level)

\* What the rules alone call restricted stays so, whatever the model and the
\* channel make of it, unless the context shows a false alarm: the model "should
\* never be able to single-handedly pull a already-strong, non-suspicious rule
\* verdict down" (classification_engine.py:617-626).
StrongRulesStand(text) ==
  (~text.empty /\ text.rules /\ ~IsFalseAlarm(text)
     /\ Total(Hits(text)) + Bonus(text, Hits(text)) >= 8000) => Classified(text) = "Restricted"

\* A false alarm is "still logged but classified as Public/Internal, not
\* blocked" (classification_engine.py:605-606), whatever the channel, unless the
\* text is known.
FalseAlarmIsHarmless(text) ==
  (IsFalseAlarm(text) /\ text.model.state # "off" /\ ~text.fingerprint /\ text.known = {}) =>
     Classified(text) \in {"Public", "Internal"}

\* One more find never lowers the level of a text in which every telephone number
\* is spoken of and that is not scaled down as a false alarm.  A number nobody
\* speaks of can lower it, as its full weight is taken off the bonus
\* (_correlate_signals) and less than half of it is added (classify_content); so
\* can a find in a false alarm, where the rules' own sum is no floor.
MoreFindsNeverMilder(text) ==
  /\ \A m \in text.found : "PHONE" \in m.rule.labels => m.near
  /\ IsFalseAlarm(text) => text.model.state = "off"
  => \A m \in text.found : Rank(Classified([text EXCEPT !.found = @ \ {m}])) <= Rank(Classified(text))
=============================================================================
