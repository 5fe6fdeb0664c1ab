--------------------------- MODULE MCPebbleLayers ---------------------------
(* A small instance of PebbleLayers: writers, labels and configurations by  *)
(* name.  They are interchangeable, so one choice of requests stands for     *)
(* every other that differs from it by a renaming only.                      *)
EXTENDS PebbleLayers

CONSTANTS w1, w2, w3, l1, l2, c1, c2

Ask(w, l, c) == <<w, [label |-> l, config |-> c]>>

\* One device with c1 twice or with c1 and c2; the third call registers the same
\* device again or the other one, with either configuration.
AllAsks == {Ask(w1, l1, c1), Ask(w2, l1, c1), Ask(w2, l1, c2),
            Ask(w3, l1, c1), Ask(w3, l2, c1), Ask(w3, l2, c2)}
=============================================================================
