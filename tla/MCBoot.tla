------------------------------- MODULE MCBoot -------------------------------
(* Two processes over one database that is created up to twice, in either   *)
(* environment.                                                            *)
EXTENDS Boot

MCProcs == 1..2
MCEnvs  == {"dev", "prod"}
=============================================================================
