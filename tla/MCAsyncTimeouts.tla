-------------------------- MODULE MCAsyncTimeouts --------------------------
(* Small instances of AsyncTimeouts.                                       *)
EXTENDS AsyncTimeouts
=============================================================================
