---------------------------- MODULE MCOAuthFlow ----------------------------
(* Small instances of signing in for TLC: tabs of one context, and an      *)
(* installed app next to the browser's own tab.                            *)
EXTENDS OAuthFlow

CONSTANTS t1, t2, c1, c2

OneOrTwo == {[t \in Tabs |-> c1], [t \in Tabs |-> IF t = t1 THEN c1 ELSE c2]}
=============================================================================
