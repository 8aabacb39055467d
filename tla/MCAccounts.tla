----------------------------- MODULE MCAccounts -----------------------------
\* Instances of Accounts for TLC.
EXTENDS Accounts, TLC

CONSTANTS a1, a2, e1, e2, n1, n2, p1, p2, r1, r2, r3

SeedEmails == a1 :> e1
SeedNames == a1 :> n1

\* Profile updates that take a name, remove the row or restore it, or lift the lock.
Sets(columns, n, g) ==
    [sets |-> columns, name |-> n, attempts |-> 0, lockedUntil |-> 0, gone |-> g]
Removals == {Sets({"gone"}, n1, g) : g \in BOOLEAN}
AllBodies ==
    Removals \union {Sets({"name"}, n2, FALSE), Sets({"attempts", "lockedUntil"}, n1, FALSE)}

\* Requests differ only in their names.
Interchangeable == Permutations(Requests)
=============================================================================
