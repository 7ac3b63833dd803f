----------------------------- MODULE MCTaskQueue -----------------------------
(* Instances of TaskQueue for TLC. *)
EXTENDS TaskQueue, TLC

CONSTANTS t1, t2, t3, w1, w2

Task1 == {t1}
Task2 == {t1, t2}
Task3 == {t1, t2, t3}
Worker1 == {w1}
Worker2 == {w1, w2}

\* t1 and t2 share a priority, t3 overtakes them.
Priority2 == t1 :> 100 @@ t2 :> 100
Priority3 == t1 :> 100 @@ t2 :> 100 @@ t3 :> 1

\* t3 is not retried.
Retries2 == t1 :> 1 @@ t2 :> 1
Retries3 == t1 :> 1 @@ t2 :> 1 @@ t3 :> 0

=============================================================================
