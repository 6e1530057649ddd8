------------------------ MODULE MCElevatorAggregate -------------------------
(* Small instances of ElevatorAggregate for TLC.                            *)
EXTENDS ElevatorAggregate

(* The states the program itself ever writes to a row.                      *)
Written == {"IDLE", "MOVING"}

(* ... and the one an operator may write to take an elevator out of use.    *)
WrittenOrClosed == Written \cup {"MAINTENANCE"}
=============================================================================
