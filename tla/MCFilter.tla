------------------------------ MODULE MCFilter ------------------------------
(* The filter for TLC.  The definitions of Filter are those of the program;  *)
(* only the window, the queues and the inputs are small.                     *)
EXTENDS Filter

\* Temperatures whose means over any part of the window differ.
TwoTemperatures == {15, 29}

\* No value, the values that are accepted, N_MAX and one beyond.
UpToBeyond == 0 .. N_MAX + 1
=============================================================================
