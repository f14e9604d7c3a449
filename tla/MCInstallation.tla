--------------------------- MODULE MCInstallation ---------------------------
(* Instance of Installation for TLC: two invocations that name different    *)
(* projects, of which the second does not require a clean Git.              *)
EXTENDS Installation

CONSTANTS c1, c2

MCProject == (c1 :> "ours") @@ (c2 :> "theirs")
=============================================================================
