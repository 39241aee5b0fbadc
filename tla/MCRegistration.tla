--------------------------- MODULE MCRegistration ---------------------------
(* A small instance of Registration for TLC.                               *)
EXTENDS Registration

\* Negative, zero, below the floor, and above the default.
MCRawCadences == {-1, 0, 1, 4, Unset, Malformed, NonFinite}

=============================================================================
