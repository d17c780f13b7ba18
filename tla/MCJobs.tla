-------------------------------- MODULE MCJobs --------------------------------
(* HookJobs on small instances.                                            *)
EXTENDS HookJobs
=============================================================================
