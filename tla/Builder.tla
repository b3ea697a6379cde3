------------------------------- MODULE Builder -------------------------------
(***************************************************************************)
(* Builder.Build: one call builds the config of one user for one core, an  *)
(* Xray config (XrayBuild) or a Mihomo one (MihomoBuild).                  *)
(***************************************************************************)
EXTENDS XrayBuild, MihomoBuild

VARIABLE core    \* the core the user asked for

\* The call reads the templates of its own core only; whatever those of the
\* other core are, one will do.
BuildInit ==
  \/ core = "xray" /\ entries = <<>> /\ Init /\ MergeInit
  \/ core = "mihomo" /\ library = (CHOOSE lib \in Libraries : TRUE) /\ squads = <<>> /\ Init /\ MergeInit

BuildNext ==
  \/ core = "xray" /\ Next /\ UNCHANGED <<core, mihomoVars>>
  \/ core = "mihomo" /\ MergeNext /\ UNCHANGED <<core, vars>>

BuildSpec == BuildInit /\ [][BuildNext]_<<core, vars, mihomoVars>>
=============================================================================
