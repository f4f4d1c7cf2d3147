-------------------------- MODULE MCMaintainNode ----------------------------
(* A database, an application that exits without it, a job that never comes  *)
(* up and may stay down, and cadvisor.                                       *)
EXTENDS MaintainNodeProps

MCNames      == {"db", "app", "job", "cadvisor"}
MCFirstId    == [db |-> "1d", app |-> "1a", job |-> "1j", cadvisor |-> "1c"]
MCNextId     == [db |-> "2d", app |-> "2a", job |-> "2j", cadvisor |-> "2c"]
MCNeedsFirst == [db |-> {}, app |-> {"db"}, job |-> {"never"}, cadvisor |-> {}]
=============================================================================
