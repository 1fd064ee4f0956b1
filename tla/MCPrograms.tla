----------------------------- MODULE MCPrograms -----------------------------
(* Instances for TLC of five programs whose state spaces are small: the     *)
(* keyfile loop and the encryption of MCBoot, and the three of MCServices.  *)
(* A behaviour is one of any of them; of the other group stands the program *)
(* that no fairness moves.                                                  *)
EXTENDS MCBoot, MCServices

VARIABLE group

programVars == <<group, bootAll, serviceAll>>

ProgramsInit ==
    /\ group \in {"boot", "services"} /\ BootInit /\ ServicesInit
    /\ group = "boot" => service = "refresher"
    /\ group = "services" => program = "encrypt"

ProgramsNext ==
    \/ group = "boot" /\ BootNext /\ UNCHANGED <<group, serviceAll>>
    \/ group = "services" /\ ServicesNext /\ UNCHANGED <<group, bootAll>>

ProgramsSpec ==
    ProgramsInit /\ [][ProgramsNext]_programVars /\ BootFairness /\ ServicesFairness
=============================================================================
