---------------------------- MODULE MCConnection ----------------------------
(***************************************************************************)
(* Values of Connection's constants that a configuration file cannot write.*)
(***************************************************************************)
EXTENDS Connection

CONSTANTS d1, d2, d3, n1, n2

\* The second and the third device have the same name, as two phones of one
\* model do.
TwoNames == [d \in Devices |-> IF d = d1 THEN n1 ELSE n2]

=============================================================================
