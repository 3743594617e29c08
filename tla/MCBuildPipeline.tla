-------------------------- MODULE MCBuildPipeline --------------------------
(***************************************************************************)
(* Small instances of BuildPipeline: two runs of build.py in one tree.     *)
(***************************************************************************)
EXTENDS BuildPipeline

\* build.py may be killed anywhere but between Popen and the pid file.
KilledElsewhere == Points \ {"writepid"}

=============================================================================
