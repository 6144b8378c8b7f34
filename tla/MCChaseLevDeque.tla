-------------------------- MODULE MCChaseLevDeque --------------------------
(* ChaseLevDeque for TLC; the .cfg names the tasks and the thieves.        *)
EXTENDS ChaseLevDeque
=============================================================================
