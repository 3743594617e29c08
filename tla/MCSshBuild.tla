---------------------------- MODULE MCSshBuild ----------------------------
(***************************************************************************)
(* Every conf whose rsync is one of its packages.                          *)
(***************************************************************************)
EXTENDS SshBuild

MCConfs ==
  {c \in [pkgs : BOOLEAN, extra : BOOLEAN, post : BOOLEAN, rsync : BOOLEAN, sshfs : BOOLEAN] :
     c.rsync => c.pkgs}

=============================================================================
