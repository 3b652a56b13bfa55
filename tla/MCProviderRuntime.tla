------------------------- MODULE MCProviderRuntime -------------------------
(* Instances of the Provider's runtime for TLC. *)
EXTENDS ProviderRuntime

CONSTANTS u1, u2, p1, p2, m1, m2

Given(p, n) == [image |-> TRUE, port |-> p, replicas |-> n]
Broken == [image |-> FALSE, port |-> p2, replicas |-> 1]

(* Two callers while the port moves, and while something fails; one caller *)
(* while pods are scaled away and the spec is broken and repaired; and     *)
(* claims that come and go under a running reconcile.                      *)
MCSettings ==
    {[users |-> {u1, u2}, first |-> Given(None, 1), specs |-> {Given(p2, 1)},
      claims |-> {}, edits |-> 1, failures |-> 0],
     [users |-> {u1, u2}, first |-> Given(p2, 1), specs |-> {},
      claims |-> {}, edits |-> 0, failures |-> 1],
     [users |-> {u1}, first |-> Given(None, 1), specs |-> {Given(p2, 0), Broken, Given(p2, 1)},
      claims |-> {}, edits |-> 2, failures |-> 1],
     [users |-> {}, first |-> Given(None, 1), specs |-> {Given(p2, 1)},
      claims |-> {m1, m2}, edits |-> 3, failures |-> 1]}
=============================================================================
