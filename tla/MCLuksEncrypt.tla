--------------------------- MODULE MCLuksEncrypt ---------------------------
(* Instances of LuksEncrypt for TLC. *)
EXTENDS LuksEncrypt, TLC

CONSTANTS planA, planB, system, cache

\* One preparation excludes a directory and has the boot key file, the other
\* neither.
MCDrops == (planA :> {cache}) @@ (planB :> {})
=============================================================================
