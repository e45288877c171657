---------------------------- MODULE MCFederation ----------------------------
(* Instances of Federation for TLC. *)
EXTENDS Federation, TLC

CONSTANTS u1, u2, n1, l1, l2, p1, g1, t1, t2, v1, v2, oldKey, newKey

\* One user is registered.
SomeIdentities == {[u \in Users |-> IF u = u1 THEN n1 ELSE NoName]}
OnePeer(t) == p1
SomeKey(t) == IF t = t1 THEN oldKey ELSE newKey

\* Sessions of visitors and logins are only compared with each other.
Symmetric == Permutations(Visits) \cup Permutations(Logins)

Budget(account, travel, throw, restart) ==
    [account |-> account, travel |-> travel, throw |-> throw, restart |-> restart]
\* Accounts with a write that throws and a restart; a user who travels; a visitor
\* or two, with a restart; the same with a write that throws.
SomeBudgets == {Budget(4, 0, 1, 1), Budget(1, 4, 0, 1), Budget(0, 5, 0, 1), Budget(0, 4, 1, 1), Budget(1, 4, 1, 1)}
=============================================================================
