---------------------------- MODULE MCJobLifecycle ----------------------------
(***************************************************************************)
(* Instances of JobLifecycle for TLC.                                      *)
(***************************************************************************)
EXTENDS JobLifecycle, TLC

TwoChapters == "b1" :> 1 @@ "b2" :> 1 @@ "b3" :> 2

=============================================================================
