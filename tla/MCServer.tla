------------------------------ MODULE MCServer ------------------------------
(***************************************************************************)
(* A small instance of every part of the server.                           *)
(***************************************************************************)
EXTENDS Server

CONSTANTS m1, m2

\* Two machines of one host name, one of them reinstalled or out of reach once,
\* alone or beside a document from before the server gave out codes and keys.
MCNameOf == [m \in Machines |-> "host"]

\* Two overlapping runs over a drive of one protected folder.
MCKind == <<"drive">>

\* A person of two addresses, two logins at a time.
MCAddresses == [p |-> <<"e1", "e2">>]

\* Two rules and a third name, one worker, an edit, a clearing, two calls that overlap;
\* a test names the first rule (what two overlapping tests do to a cache is apart).
MCSeeded == {[id |-> 1, name |-> "a", enabled |-> TRUE], [id |-> 2, name |-> "b", enabled |-> TRUE]}
MCChoices == {{1}}
=============================================================================
