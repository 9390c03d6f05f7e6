------------------------- MODULE MCWorkerScheduler -------------------------
EXTENDS WorkerScheduler, TLC
CONSTANTS j1, j2, j3, w1, w2, a1, a2, p1, q1, q2, q3

Slots1 == [w \in Workers |-> 1]

Arguments(w, r, a, p, q, t, b) ==
  [worker |-> w, rank |-> r, actor |-> a, app |-> p, request |-> q,
   timeout |-> t, bytes |-> b]

(* Two workers; a foreground and an interactive call on the first that may *)
(* time out, the latter under the request id of the background call, which *)
(* is late only beyond the clock.                                          *)
RaceJobs ==
  (j1 :> Arguments(w1, 1, a1, p1, q1, 1, 1)) @@
  (j2 :> Arguments(w1, 0, a2, NoApp, q2, 1, 1)) @@
  (j3 :> Arguments(w2, 3, a2, p1, q2, 2, 2))

(* No timeouts: only the scheduler itself can end a wait.                  *)
PatientJobs ==
  (j1 :> Arguments(w1, 1, a1, p1, q1, NoTimeout, 1)) @@
  (j2 :> Arguments(w1, 2, a1, p1, q2, NoTimeout, 1)) @@
  (j3 :> Arguments(w2, 3, NoActor, NoApp, q3, NoTimeout, 1))
=============================================================================
