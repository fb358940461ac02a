----------------------------- MODULE ModelWork -----------------------------
(***************************************************************************)
(* The work on models: the preparation of their data (ModelData) and their *)
(* training, comparison and replay (ModelStudies), which start from        *)
(* versions that were built.  They share no state that is modelled: a      *)
(* behaviour is of one of them.                                            *)
(***************************************************************************)
EXTENDS ModelData, ModelStudies

VARIABLE preparing  \* whether it is a behaviour of ModelData

WorkInit ==
  /\ preparing \in BOOLEAN
  /\ Init /\ StudyInit
  /\ preparing => topic = "scores"
  /\ ~preparing => part = "datasets"

WorkNext ==
  \/ preparing /\ Next /\ UNCHANGED <<preparing, studies>>
  \/ ~preparing /\ StudyNext /\ UNCHANGED <<preparing, vars>>

WorkSpec == WorkInit /\ [][WorkNext]_<<preparing, vars, studies>>
=============================================================================
