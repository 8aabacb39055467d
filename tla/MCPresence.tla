---------------------------- MODULE MCPresence -----------------------------
\* Instances of Presence for TLC.
EXTENDS Presence, TLC

CONSTANTS u1, u2, s1, s2

\* A user alone, one socket each, and two tabs of one user.
Alone == s1 :> u1
OneEach == s1 :> u1 @@ s2 :> u2
TwoTabs == s1 :> u1 @@ s2 :> u1
=============================================================================
