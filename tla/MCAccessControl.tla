-------------------------- MODULE MCAccessControl --------------------------
(* A small instance of AccessControl for TLC.                               *)
EXTENDS AccessControl, TLC

CONSTANTS a1, a2, u1, c1, c2

Op(kind, user, codes, rl, on) ==
    [kind |-> kind, user |-> user, codes |-> codes, role |-> rl, active |-> on]

\* Two administrators and one more address.
MCAccounts ==
    {[u \in Users |-> IF u = u1 THEN "analyst" ELSE "admin"],
     [u \in Users |-> IF u = u1 THEN None ELSE "admin"]}

MCOperations ==
    {Op("extract", u1, {c1, c2}, None, None),
     Op("read", u1, {}, None, None),
     Op("create", u1, {}, "analyst", TRUE),
     Op("update", u1, {}, "viewer", None),
     Op("update", u1, {}, None, FALSE),
     Op("update", u1, {}, "analyst", TRUE),
     Op("update", a1, {}, "viewer", FALSE),
     Op("delete", a1, {}, None, None),
     Op("delete", u1, {}, None, None),
     Op("seed", a1, {}, "admin", TRUE),
     Op("grant", u1, {c1, c2}, None, None),
     Op("revoke", u1, {c1}, None, None),
     Op("toggle", u1, {c2}, None, FALSE),
     Op("toggle", u1, {c2}, None, TRUE)}

MCGranted == {<<u1, c1>>, <<u1, c2>>}

\* Requests are interchangeable: sound without liveness.
Symmetry == Permutations(Requests)
=============================================================================
