---------------------------- MODULE MCMailGateway ----------------------------
(***************************************************************************)
(* Instances of MailGateway for TLC.                                       *)
(***************************************************************************)
EXTENDS MailGateway, TLC

CONSTANTS a1, a2

\* The second mail has no Message-ID, and so no place in Working and Done.
MCWithId == {1, 3}
MCAdapters == {a1, a2}

\* Adapters are told apart by nothing but their state.
Symmetry == Permutations(MCAdapters)
=============================================================================
