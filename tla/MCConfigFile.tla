---------------------------- MODULE MCConfigFile ----------------------------
(* Two sections, named by model values. *)
EXTENDS ConfigFile

CONSTANTS aws1, aws2

TwoSections == <<aws1, aws2>>
=============================================================================
