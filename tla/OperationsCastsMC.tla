------------------------- MODULE OperationsCastsMC -------------------------
(***************************************************************************)
(* Operations with three casts of clients.  In "recovery" a generation,    *)
(* its recovery by another client and a late SDK callback meet on one row; *)
(* in "cancel" two starts of one idempotency key and a cancellation, with  *)
(* one tick less left; in "expiry" the two starts live to see the row      *)
(* pruned.  Who is not in the cast has made its call.                      *)
(***************************************************************************)
EXTENDS Operations

CONSTANTS s1, s2, r1, c1, o1, chat, file

RecoveryCast == {s1, r1, o1}
CancelCast == {s1, s2, c1}
ExpiryCast == {s1, s2}

CastInit ==
    /\ row = NoRow
    /\ made = 0 /\ born = [i \in 1..MaxOps |-> 0]
    /\ launched = {} /\ offered = {} /\ empty = {}
    /\ op = [a \in Actors |-> 0]
    /\ seen = [a \in Actors |-> NoRow]
    /\ base = [w \in Workers |-> NoLocators]
    /\ tries = [a \in Actors |-> 0]
    /\ \E cast \in {RecoveryCast, CancelCast, ExpiryCast} :
          /\ pc = [a \in Actors |-> IF a \in cast THEN "idle" ELSE "done"]
          /\ clock = IF cast = CancelCast THEN MaxClock - 1 ELSE 0
CastSpec == CastInit /\ [][Next]_vars
=============================================================================
