------------------------- MODULE MCNginxSupervisor -------------------------
(***************************************************************************)
(* NginxSupervisor with two configs, and two templates that parse.         *)
(***************************************************************************)
EXTENDS NginxSupervisor
CONSTANTS c1, c2
TwoConfigs == {c1, c2}
TwoTemplates == {shipped, broken}
=============================================================================
