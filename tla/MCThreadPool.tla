---------------------------- MODULE MCThreadPool ----------------------------
(***************************************************************************)
(* Three workers and three tasks: `parent' submits `child', the others submit *)
(* nothing, so a worker can be busy while another sleeps, and a task can   *)
(* be queued while all are busy.                                           *)
(***************************************************************************)
EXTENDS ThreadPool, TLC

CONSTANTS parent, child, other

MCTask == {parent, child, other}
MCSpawns == parent :> {child} @@ child :> {} @@ other :> {}
=============================================================================
