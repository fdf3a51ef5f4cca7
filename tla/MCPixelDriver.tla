--------------------------- MODULE MCPixelDriver ---------------------------
(* Model values for PixelDriver: a strip of pixies, of which the line takes*)
(* fewer than a buffer holds before the timer goes off (64 in 16.7 ms, and *)
(* the timer is set to 2 ms).                                              *)
EXTENDS PixelDriver

MCPerBuf == [m \in {"pixie"} |-> 3]
============================================================================
