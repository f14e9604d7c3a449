--------------------------- MODULE MCIntegration ---------------------------
(* A group of two stories.                                                 *)
EXTENDS Integration

CONSTANTS s1, s2

FirstThenSecond == << s1, s2 >>
=============================================================================
