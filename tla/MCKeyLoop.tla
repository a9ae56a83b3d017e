----------------------------- MODULE MCKeyLoop -----------------------------
(* Two events fit in the queue, two keys may be down at once, and a pause   *)
(* lasts one or two ticks.                                                  *)
EXTENDS KeyLoop
=============================================================================
