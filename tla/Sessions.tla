------------------------------- MODULE Sessions -------------------------------
(***************************************************************************)
(* One person's sessions in several tabs: the password and its counter of  *)
(* failures, the tokens, their renewal and their end, and the enrolment of *)
(* a second factor.  A request reads the account once, when it begins, and *)
(* writes only the columns it changed from what it read, so two requests   *)
(* that overlap mix what they write.  Redis may fail a call.               *)
(***************************************************************************)
EXTENDS Naturals, FiniteSets

CONSTANTS Tabs,        \* tabs of the person's browser
          Limit,       \* failures after which a login is turned away (10 in the code)
          MaxSecrets,  \* bound on the second factors drawn
          MaxFaults    \* bound on calls of Redis that fail

VARIABLES
  account,  \* [enabled, secret]: whether a second factor is asked for, and which (0 is none)
  drawn,    \* how many secrets were drawn
  fails,    \* the counter of failed logins
  expires,  \* whether the counter has an expiry
  tokens,   \* tokens[t]: the state of the access and of the refresh token of a tab
  bridge,   \* bridge[t]: the tab holds the token between password and code
  call,     \* call[t]: the request of the tab: pc and the account it read
  faults,
  proved,   \* history: secrets a code of which the person has entered
  crossed,  \* history: a request wrote an account that was changed since it was read
  spoilt    \* history: the expiry of the counter was lost

vars == <<account, drawn, fails, expires, tokens, bridge, call, faults, proved, crossed, spoilt>>

States == {"none", "good", "revoked"}
Signed(state) == [access |-> state, refresh |-> state]
Idle == [pc |-> "idle", read |-> [enabled |-> FALSE, secret |-> 0]]

TypeOK ==
  /\ account \in [enabled : BOOLEAN, secret : 0 .. MaxSecrets] /\ drawn \in 0 .. MaxSecrets
  /\ fails \in 0 .. Limit + Cardinality(Tabs) /\ expires \in BOOLEAN /\ faults \in 0 .. MaxFaults
  /\ tokens \in [Tabs -> [access : States, refresh : States]] /\ bridge \in [Tabs -> BOOLEAN]
  /\ call \in [Tabs -> [pc : {"idle", "password", "expire", "renew", "half", "setup", "verify", "reset"},
                        read : [enabled : BOOLEAN, secret : 0 .. MaxSecrets]]]
  /\ proved \subseteq 1 .. MaxSecrets /\ crossed \in BOOLEAN /\ spoilt \in BOOLEAN

Init ==
  /\ account = [enabled |-> FALSE, secret |-> 0] /\ drawn = 0
  /\ fails = 0 /\ expires = FALSE /\ faults = 0
  /\ tokens = [t \in Tabs |-> Signed("none")] /\ bridge = [t \in Tabs |-> FALSE]
  /\ call = [t \in Tabs |-> Idle]
  /\ proved = {} /\ crossed = FALSE /\ spoilt = FALSE

At(t, pc) == call[t].pc = pc
Go(t, pc) == call' = [call EXCEPT ![t] = [pc |-> pc, read |-> account]]
Wait(t, pc) == call' = [call EXCEPT ![t] = [Idle EXCEPT !.pc = pc]]
Answer(t) == call' = [call EXCEPT ![t] = Idle]
Enter(t) == tokens' = [tokens EXCEPT ![t] = Signed("good")]
Fault == faults < MaxFaults /\ faults' = faults + 1
Steady == faults' = faults

accountVars == <<account, drawn, proved, crossed>>
counterVars == <<fails, expires, spoilt>>

-----------------------------------------------------------------------------
\* A login begins: unless Redis fails, ten failures turn it away.
Login(t) ==
  /\ At(t, "idle") /\ ((fails < Limit /\ Steady) \/ Fault)
  /\ Wait(t, "password")
  /\ UNCHANGED <<accountVars, counterVars, tokens, bridge>>

\* A wrong password is counted, if Redis can; the first one of a window sets the
\* expiry, in a call of its own.
Uncounted(t) ==
  /\ At(t, "password") /\ Fault /\ Answer(t)
  /\ UNCHANGED <<accountVars, counterVars, tokens, bridge>>

\* Mutant: the expiry is set at the second failure.
LoginWrongLate(t) ==
  /\ At(t, "password")
  /\ fails' = IF fails < Limit + Cardinality(Tabs) THEN fails + 1 ELSE fails \* bound
  /\ IF fails = 1 THEN Wait(t, "expire") ELSE Answer(t)
  /\ UNCHANGED <<accountVars, expires, spoilt, tokens, bridge, faults>>

LoginWrong(t) ==
  /\ At(t, "password")
  /\ fails' = IF fails < Limit + Cardinality(Tabs) THEN fails + 1 ELSE fails \* bound
  /\ IF fails = 0 THEN Wait(t, "expire") ELSE Answer(t)
  /\ UNCHANGED <<accountVars, expires, spoilt, tokens, bridge, faults>>

LoginExpire(t) ==
  /\ At(t, "expire")
  /\ \/ Steady /\ expires' = (fails > 0) /\ UNCHANGED spoilt
     \/ Fault /\ spoilt' = TRUE /\ UNCHANGED expires
  /\ Answer(t)
  /\ UNCHANGED <<accountVars, fails, tokens, bridge>>

\* The right password clears the counter, and gives the tokens or, with a second
\* factor, what the code is to be sent with.
LoginRight(t) ==
  /\ At(t, "password")
  /\ (fails' = 0 /\ expires' = FALSE /\ Steady) \/ (Fault /\ UNCHANGED <<fails, expires>>)
  /\ IF account.enabled THEN bridge' = [bridge EXCEPT ![t] = TRUE] /\ UNCHANGED tokens
     ELSE Enter(t) /\ UNCHANGED bridge
  /\ Answer(t)
  /\ UNCHANGED <<accountVars, spoilt>>

\* Five minutes pass.
WindowEnds ==
  /\ expires /\ expires' = FALSE /\ fails' = 0
  /\ UNCHANGED <<accountVars, spoilt, tokens, bridge, call, faults>>

\* A code is tried once, unless Redis cannot tell; a wrong one sends the person
\* back to the password.
Validate(t, right) ==
  /\ At(t, "idle") /\ bridge[t]
  /\ (bridge' = [bridge EXCEPT ![t] = FALSE] /\ Steady) \/ (Fault /\ UNCHANGED bridge)
  /\ IF right /\ account.secret # 0
     THEN Enter(t) /\ proved' = proved \cup {account.secret}
     ELSE UNCHANGED <<tokens, proved>>
  /\ UNCHANGED <<account, drawn, crossed, counterVars, call>>

\* New tokens for a refresh token that is not revoked; when Redis cannot tell, the
\* token is taken for good.
RefreshBegin(t) ==
  /\ At(t, "idle") /\ tokens[t].refresh # "none"
  /\ (tokens[t].refresh = "good" /\ Steady) \/ Fault
  /\ Wait(t, "renew")
  /\ UNCHANGED <<accountVars, counterVars, tokens, bridge>>

RefreshEnd(t) ==
  /\ At(t, "renew") /\ Enter(t) /\ Answer(t)
  /\ UNCHANGED <<accountVars, counterVars, bridge, faults>>

Usable(t) == tokens[t].access = "good"

\* Logging out revokes the access token and then the refresh token; a call that
\* fails is logged and the answer is the same.
LogoutAccess(t) ==
  /\ At(t, "idle") /\ Usable(t)
  /\ \/ Steady /\ tokens' = [tokens EXCEPT ![t].access = "revoked"]
     \/ Fault /\ UNCHANGED tokens
  /\ Wait(t, "half")
  /\ UNCHANGED <<accountVars, counterVars, bridge>>

LogoutRefresh(t) ==
  /\ At(t, "half")
  /\ \/ Steady /\ tokens' = [tokens EXCEPT ![t].refresh = "revoked"]
     \/ Fault /\ UNCHANGED tokens
  /\ Answer(t)
  /\ UNCHANGED <<accountVars, counterVars, bridge>>

-----------------------------------------------------------------------------
Admitted(t) ==
  \/ Usable(t) /\ Steady
  \/ tokens[t].access # "none" /\ Fault

\* The requests about the second factor read the account, look at it, and write
\* the columns that differ from what they read.
Begin(t, pc, allowed) ==
  /\ At(t, "idle") /\ Admitted(t) /\ allowed
  /\ Go(t, pc)
  /\ UNCHANGED <<accountVars, counterVars, tokens, bridge>>

Store(t, new) ==
  LET read == call[t].read IN
  /\ account' = [enabled |-> IF new.enabled # read.enabled THEN new.enabled ELSE account.enabled,
                 secret  |-> IF new.secret # read.secret THEN new.secret ELSE account.secret]
  /\ crossed' = (crossed \/ account # read)

\* Mutant: an account with a second factor may draw another.
SetupBeginAgain(t) == Begin(t, "setup", drawn < MaxSecrets)

\* A setup draws a secret, unless a second factor is asked for already.
SetupBegin(t) == Begin(t, "setup", ~account.enabled /\ drawn < MaxSecrets)

Setup(t) ==
  /\ At(t, "setup") /\ drawn < MaxSecrets
  /\ drawn' = drawn + 1 /\ Store(t, [call[t].read EXCEPT !.secret = drawn + 1])
  /\ Answer(t)
  /\ UNCHANGED <<proved, counterVars, tokens, bridge, faults>>

SetupDenied(t) ==
  /\ At(t, "setup") /\ drawn = MaxSecrets \* bound: the last secret was drawn meanwhile
  /\ Answer(t)
  /\ UNCHANGED <<accountVars, counterVars, tokens, bridge, faults>>

\* The first code of the secret that was read turns the second factor on and
\* signs the tab in anew.
VerifyBegin(t) == Begin(t, "verify", ~account.enabled /\ account.secret # 0)
Verify(t) ==
  /\ At(t, "verify")
  /\ proved' = proved \cup {call[t].read.secret}
  /\ Store(t, [call[t].read EXCEPT !.enabled = TRUE])
  /\ Enter(t) /\ Answer(t)
  /\ UNCHANGED <<drawn, counterVars, bridge, faults>>

\* An administrator, in a tab of their own, takes the second factor away.
ResetBegin(t) == At(t, "idle") /\ Go(t, "reset")
  /\ UNCHANGED <<accountVars, counterVars, tokens, bridge, faults>>
Reset(t) ==
  /\ At(t, "reset") /\ Store(t, [enabled |-> FALSE, secret |-> 0])
  /\ Answer(t)
  /\ UNCHANGED <<drawn, proved, counterVars, tokens, bridge, faults>>

TabNext(t) ==
  \/ Login(t) \/ Uncounted(t) \/ LoginWrong(t) \/ LoginExpire(t) \/ LoginRight(t)
  \/ (\E right \in BOOLEAN : Validate(t, right))
  \/ RefreshBegin(t) \/ RefreshEnd(t) \/ LogoutAccess(t) \/ LogoutRefresh(t)
  \/ SetupBegin(t) \/ Setup(t) \/ SetupDenied(t) \/ VerifyBegin(t) \/ Verify(t) \/ ResetBegin(t) \/ Reset(t)

Next == WindowEnds \/ \E t \in Tabs : TabNext(t)

Spec == Init /\ [][Next]_vars

-----------------------------------------------------------------------------
\* The second factor that is asked for is one whose code the person has entered,
\* so that nobody is asked for what they never had, unless two requests about it
\* overlapped (mfa_setup, mfa_verify_setup, admin_reset_user_mfa).
FactorIsOwn == (account.enabled /\ ~crossed) => account.secret \in proved

\* A counter of failures that is not 0 runs out by itself, or a login is about
\* to see to it, or Redis failed to: "a 429 until the window expires" (auth.py:177).
LimitRunsOut ==
  fails > 0 => expires \/ spoilt \/ \E t \in Tabs : At(t, "expire")
=============================================================================
