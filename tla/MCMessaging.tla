---------------------------- MODULE MCMessaging ----------------------------
\* Instances of Messaging for TLC.
EXTENDS Messaging, TLC

CONSTANTS u1, u2, s1, s2, m1, m2, d1, d2, stranger

\* One socket per user.
Owner1 == s1 :> u1
OwnerOf == s1 :> u1 @@ s2 :> u2

\* Requests of one kind differ only in name.
Symmetry == Permutations({m1, m2}) \union Permutations({d1, d2})

\* No name, a user's, a user's after one that is nobody's, the same name twice.
RepeatText == {<<u2, stranger, u2>>}
MentionTexts == {<< >>, <<stranger, u2>>, <<u2, u2>>}
=============================================================================
