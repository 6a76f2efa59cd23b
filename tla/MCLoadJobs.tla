----------------------------- MODULE MCLoadJobs -----------------------------
(* Instances of the load jobs for TLC: a schedule that fires at every      *)
(* instant and one that fires every other.                                 *)
EXTENDS LoadJobs

TwoSchedules == {Instants, {t \in Instants : t % 2 = MaxTime % 2}}
=============================================================================
