----------------------------- MODULE MCAccounts -----------------------------
(* TLC instances of Accounts: an empty table, and an administrator beside  *)
(* a user who came through the provider.                                   *)
EXTENDS Accounts, TLC

CONSTANTS u1, u2, u3, r1, r2, r3, e1, e2, s1

Account(email, role, sub) ==
    [email |-> email, password |-> sub = None, role |-> role, active |-> TRUE, sub |-> sub]

MCInitialTables ==
    LET root == Account(e1, "admin", None)
        guest == Account(e2, "user", s1)
    IN  {[present |-> {}, rows |-> [u \in Users |-> root]],
         [present |-> {u1, u2}, rows |-> [u \in Users |-> IF u = u2 THEN guest ELSE root]]}

Symmetry == Permutations(Requests)
=============================================================================
