----------------------------- MODULE HeaderMap -----------------------------
(***************************************************************************)
(* http::HeaderMap as the proxy uses it.  A map holds, for each name that  *)
(* is present, the lines of that name in order; a line is the sequence of  *)
(* its comma-separated tokens.                                             *)
(***************************************************************************)
EXTENDS Integers, Sequences

IsHeaderMap(h) ==
  \A name \in DOMAIN h : h[name] \in Seq(Seq(STRING)) /\ Len(h[name]) > 0

(* A line whose bytes HeaderValue::to_str refuses.                         *)
Unreadable == <<"unreadable">>

Empty == [name \in {} |-> <<>>]

Contains(h, name) == name \in DOMAIN h

(* HeaderMap::get: the first line, whatever follows it.                    *)
First(h, name) == h[name][1]

Readable(h, name) == Contains(h, name) /\ First(h, name) # Unreadable

(* The tokens of the first line, none when there is no readable one.       *)
Tokens(h, name) ==
  IF Readable(h, name) THEN {First(h, name)[i] : i \in DOMAIN First(h, name)} ELSE {}

(* HeaderMap::insert: one line, in place of all there were.                *)
Insert(h, name, line) ==
  [n \in DOMAIN h \cup {name} |-> IF n = name THEN <<line>> ELSE h[n]]

InsertIf(cond, h, name, line) == IF cond THEN Insert(h, name, line) ELSE h

Remove(h, names) == [n \in DOMAIN h \ names |-> h[n]]

(* format!("{existing}, {token}"), or the token alone when the first line  *)
(* is missing or cannot be read.                                           *)
Extend(h, name, token) ==
  Insert(h, name, IF Readable(h, name) THEN Append(First(h, name), token) ELSE <<token>>)
=============================================================================
