---------------------------- MODULE RuleCatalogue ----------------------------
(***************************************************************************)
(* The classification rules of the server: rows that admins edit, and the  *)
(* copy that every worker process keeps of the enabled ones for a minute.  *)
(* A classification awaits the database before and while it looks the      *)
(* rules up; a test of chosen rules puts them in the place of the worker's *)
(* copy for as long as its own classification runs.                        *)
(***************************************************************************)
EXTENDS Naturals, FiniteSets

CONSTANTS Workers,    \* processes of the server
          Calls,      \* classifications and tests at a time
          Names,      \* names of rules
          Seeded,     \* the rules the server comes with
          Choices,    \* the rules a test may name
          Ttl,        \* ticks a copy lives
          TestTtl,    \* ticks the chosen rules of a test live
          MaxRows,    \* bound on rules that are created
          MaxEdits,   \* bound on edits
          MaxClears,  \* bound on clearings of copies
          MaxCalls,   \* bound on classifications and tests
          MaxTime     \* bound on the clock

VARIABLES
  now,
  rows,      \* the rules: a set of records
  made,      \* number of rules created so far
  cache,     \* cache[w]: the copy of worker w and when it expires, 0 for never filled
  call,      \* call[c]: what call c is waiting for
  edits, clears, begun,
  edited,    \* history: when a rule was edited last
  mixed      \* history: the workers on which two tests overlapped

vars == <<now, rows, made, cache, call, edits, clears, begun, edited, mixed>>

Row == [id : 1 .. MaxRows, name : Names, enabled : BOOLEAN]
Entry == [rules : SUBSET Row, expires : 0 .. MaxTime + Ttl]
NoEntry == [rules |-> {}, expires |-> 0]
Idle == [pc |-> "idle", worker |-> 0, test |-> FALSE, since |-> 0, rules |-> {}, old |-> NoEntry,
         chosen |-> {}, disturbed |-> FALSE]

Call == [pc : {"idle", "chosen", "opened", "querying", "judging"}, worker : Workers \cup {0},
         test : BOOLEAN, since : 0 .. MaxTime, rules : SUBSET Row, old : Entry,
         chosen : SUBSET Row, disturbed : BOOLEAN]

TypeOK ==
  /\ now \in 0 .. MaxTime /\ edited \in 0 .. MaxTime
  /\ rows \subseteq Row /\ made \in 0 .. MaxRows
  /\ cache \in [Workers -> Entry]
  /\ call \in [Calls -> Call]
  /\ \A c \in Calls : call[c].pc # "idle" => call[c].worker \in Workers
  /\ edits \in 0 .. MaxEdits /\ clears \in 0 .. MaxClears /\ begun \in 0 .. MaxCalls
  /\ mixed \subseteq Workers

Init ==
  /\ now = 0 /\ edited = 0
  /\ rows = Seeded /\ made = Cardinality(Seeded)
  /\ cache \in [Workers -> {NoEntry, [rules |-> Seeded, expires |-> Ttl]}]
  /\ call = [c \in Calls |-> Idle]
  /\ edits = 0 /\ clears = 0 /\ begun = 0 /\ mixed = {}

-----------------------------------------------------------------------------
\* What admins do to the rules.

Taken(name) == \E r \in rows : r.name = name
Edit ==
  /\ edits < MaxEdits /\ edits' = edits + 1 /\ edited' = now
  /\ UNCHANGED <<now, cache, call, clears, begun, mixed>>

\* RuleService.create_rule stores a form that names what it looks for, one rule
\* at a time in an import too; the unique name refuses a second of the same.
CreateRule(name) ==
  /\ Edit /\ ~Taken(name) /\ made < MaxRows
  /\ made' = made + 1
  /\ rows' = rows \cup {[id |-> made + 1, name |-> name, enabled |-> TRUE]}

\* An update changes the fields it names; a name that is taken fails at the
\* index and changes nothing.
UpdateRule(r, fields) ==
  /\ Edit
  /\ fields.name = r.name \/ ~Taken(fields.name)
  /\ rows' = (rows \ {r}) \cup {[r EXCEPT !.name = fields.name, !.enabled = fields.enabled]}
  /\ UNCHANGED made

ToggleRule(r) == UpdateRule(r, [r EXCEPT !.enabled = ~r.enabled])

DeleteRule(r) == Edit /\ rows' = rows \ {r} /\ UNCHANGED made

-----------------------------------------------------------------------------
\* The copies.

Enabled == {r \in rows : r.enabled}
\* A copy without rules is looked up again, as one that has expired.
Live(w) == cache[w].expires > now /\ cache[w].rules # {}

\* Whoever replaces the copy of w disturbs the tests that wait to read theirs.
Disturbed(w, by) ==
  [c \in Calls |->
     IF c # by /\ call[c].test /\ call[c].worker = w /\ call[c].pc \in {"opened", "querying"}
     THEN [call[c] EXCEPT !.disturbed = TRUE] ELSE call[c]]

\* clear_module_cache.
Invalidate(w) ==
  /\ cache[w] # NoEntry /\ clears < MaxClears /\ clears' = clears + 1
  /\ cache' = [cache EXCEPT ![w] = NoEntry]
  /\ call' = Disturbed(w, 0)
  /\ UNCHANGED <<now, rows, made, edits, begun, edited, mixed>>

-----------------------------------------------------------------------------
\* Classifications and tests.

Opened == begun < MaxCalls /\ begun' = begun + 1
Quiet == UNCHANGED <<now, rows, made, edits, clears, edited>>

Classify(c, w) ==
  /\ call[c].pc = "idle" /\ Opened
  /\ call' = [call EXCEPT ![c] = [Idle EXCEPT !.pc = "opened", !.worker = w]]
  /\ Quiet /\ UNCHANGED <<cache, mixed>>

\* A test reads the chosen rules that are enabled.
TestRules(c, w, ids) ==
  /\ call[c].pc = "idle" /\ Opened
  /\ call' = [call EXCEPT ![c] = [Idle EXCEPT !.pc = "chosen", !.worker = w, !.test = TRUE, !.since = now,
                                               !.chosen = {r \in Enabled : r.id \in ids}]]
  /\ Quiet /\ UNCHANGED <<cache, mixed>>

\* What stands in for the copy of w while a test runs.
ChosenInPlace(w, rules) == [cache[w] EXCEPT !.rules = rules]
Chosen(w, rules) == [rules |-> rules, expires |-> now + TestTtl]
Testing(w) == {c \in Calls : call[c].test /\ call[c].worker = w /\ call[c].pc \in {"opened", "querying", "judging"}}

Override(c) ==
  LET w == call[c].worker IN
  /\ call[c].pc = "chosen"
  /\ cache' = [cache EXCEPT ![w] = Chosen(w, call[c].chosen)]
  /\ call' = [Disturbed(w, c) EXCEPT ![c] = [call[c] EXCEPT !.pc = "opened", !.old = cache[w], !.since = 0]]
  /\ mixed' = IF Testing(w) = {} THEN mixed ELSE mixed \cup {w}
  /\ Quiet /\ UNCHANGED begun

\* The rules are at hand: a classification is as good as done, a test has its
\* answer and the copy to put back.
Judged(calls, c, rules) ==
  [calls EXCEPT ![c] = IF call[c].test THEN [@ EXCEPT !.pc = "judging", !.rules = rules, !.since = 0] ELSE Idle]

LookUp(c) ==
  LET w == call[c].worker IN
  /\ call[c].pc = "opened"
  /\ call' = IF Live(w) THEN Judged(call, c, cache[w].rules)
             ELSE [call EXCEPT ![c] = [@ EXCEPT !.pc = "querying", !.since = now, !.rules = Enabled]]
  /\ Quiet /\ UNCHANGED <<cache, begun, mixed>>

\* A copy lives a while from before its query.
CopyFromNow(c) == [rules |-> call[c].rules, expires |-> now + Ttl]
Copy(c) == [rules |-> call[c].rules, expires |-> call[c].since + Ttl]

Loaded(c) ==
  LET w == call[c].worker IN
  /\ call[c].pc = "querying"
  /\ cache' = [cache EXCEPT ![w] = Copy(c)]
  /\ call' = Judged(Disturbed(w, c), c, call[c].rules)
  /\ Quiet /\ UNCHANGED <<begun, mixed>>

\* A test puts back the copy it found, when it was found.
PutBackAfresh(c) == [call[c].old EXCEPT !.expires = now + Ttl]
PutBack(c) == call[c].old

EndTest(c) ==
  LET w == call[c].worker IN
  /\ cache' = [cache EXCEPT ![w] = PutBack(c)]
  /\ call' = [Disturbed(w, c) EXCEPT ![c] = Idle]

Restore(c) ==
  /\ call[c].pc = "judging" /\ EndTest(c)
  /\ Quiet /\ UNCHANGED <<begun, mixed>>

\* What is done for a test that fails; a classification leaves nothing.
AbandonedAsIs(c) == call' = [call EXCEPT ![c] = Idle] /\ UNCHANGED cache
Abandoned(c) ==
  IF call[c].test THEN EndTest(c) ELSE call' = [call EXCEPT ![c] = Idle] /\ UNCHANGED cache

\* A classification may end early: the text is known, a query fails, the caller
\* has gone.
EndEarly(c) ==
  /\ call[c].pc \in {"opened", "querying", "judging"}
  /\ Abandoned(c)
  /\ Quiet /\ UNCHANGED <<begun, mixed>>

\* No query takes longer than a tick.
Tick ==
  /\ now < MaxTime /\ now' = now + 1
  /\ \A c \in Calls : call[c].pc \in {"chosen", "querying"} => call[c].since = now
  /\ call' = [c \in Calls |->
                IF call[c].test /\ call[c].pc = "opened" THEN [call[c] EXCEPT !.disturbed = TRUE] ELSE call[c]]
  /\ UNCHANGED <<rows, made, cache, edits, clears, begun, edited, mixed>>

Next ==
  \/ \E n \in Names : CreateRule(n)
  \/ \E r \in rows : ToggleRule(r) \/ DeleteRule(r)
  \/ \E r \in rows : \E n \in Names \ {r.name} : UpdateRule(r, [r EXCEPT !.name = n])
  \/ \E w \in Workers : Invalidate(w)
  \/ \E c \in Calls, w \in Workers :
       \/ Classify(c, w)
       \/ \E ids \in Choices : TestRules(c, w, ids)
  \/ \E c \in Calls : Override(c) \/ LookUp(c) \/ Loaded(c) \/ Restore(c) \/ EndEarly(c)
  \/ Tick

Spec == Init /\ [][Next]_vars

-----------------------------------------------------------------------------
\* An edit of a rule is in force on every worker within the lifetime of a copy,
\* whatever loads, tests and clearings of copies overlapped with it
\* (_get_cached_rules, test_rules).
EditsTakeEffect ==
  now >= edited + Ttl => \A w \in Workers : Live(w) => cache[w].rules \subseteq Enabled

\* Chosen rules stand in for a worker's copy while their test runs and no longer,
\* unless two tests overlapped there: between tests nothing goes unlooked for.
NothingLeftOut ==
  \A w \in Workers \ mixed :
    Live(w) /\ Testing(w) = {} /\ now >= edited + Ttl => cache[w].rules = Enabled

\* A test that was not disturbed is judged by the rules it chose, when any of
\* them is enabled.
TestJudgesWhatItChose ==
  \A c \in Calls :
    call[c].pc = "judging" /\ ~call[c].disturbed /\ call[c].chosen # {} => call[c].rules = call[c].chosen
=============================================================================
