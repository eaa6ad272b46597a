---------------------------- MODULE MCMgmsServer ----------------------------
(***************************************************************************)
(* The gateway process for TLC: what its queue may hold when it starts.    *)
(***************************************************************************)
EXTENDS MgmsServerProperties

NoStale == {<< >>}

(* Nothing, or one command of a process that had this pid before. *)
MaybeStale == {<< >>, << [stamp |-> 0, count |-> 2] >>}
=============================================================================
