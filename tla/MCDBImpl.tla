------------------------------ MODULE MCDBImpl ------------------------------
(* Instances of DBImpl for TLC. *)
EXTENDS DBImpl, TLC

CONSTANTS t1, t2, r1

Budget(w, n, r, k, o, c, f) ==
  [writes |-> w, flushes |-> n, reads |-> r, kills |-> k, outages |-> o, closes |-> c,
   faults |-> f]
\* More writes, or more of what can go wrong.
Mixed == {Budget(4, 0, 0, 0, 0, 0, 1), Budget(3, 0, 1, 0, 0, 0, 1),
          Budget(3, 0, 0, 0, 2, 0, 0), Budget(3, 0, 0, 0, 1, 0, 1),
          Budget(3, 0, 0, 1, 0, 0, 1), Budget(2, 0, 0, 1, 1, 0, 1),
          Budget(2, 1, 1, 0, 0, 0, 1), Budget(2, 1, 0, 0, 0, 1, 1)}
=============================================================================
