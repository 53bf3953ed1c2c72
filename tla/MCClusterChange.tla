-------------------------- MODULE MCClusterChange --------------------------
(***************************************************************************)
(* Instances of ClusterChange for TLC.                                     *)
(***************************************************************************)
EXTENDS ClusterChange

PutOp      == [kind |-> "PUT", key |-> 1, val |-> 2]
Joins(id)  == [kind |-> "ADD_SERVER", info |-> [id |-> id]]
Leaves(id) == [kind |-> "REMOVE_SERVER", id |-> id]

OnePut       == {PutOp}
Join         == {Joins(2)}
JoinAndLeave == {Joins(2), Leaves(0)}
=============================================================================
