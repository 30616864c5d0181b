------------------------------ MODULE Algorithms ------------------------------
(***************************************************************************)
(* The five studies of what is computed rather than run - specifications   *)
(* and designs before an experiment, records and recovery after it - side  *)
(* by side in one state space.  They share no state: a behaviour belongs   *)
(* to one study, chosen at its start.                                      *)
(***************************************************************************)
EXTENDS Configuration, Comparison, RunRecords, RecoveryDetection

VARIABLE study

AlgorithmsInit ==
  /\ study \in {"configuration", "matrix", "comparison", "records", "recovery"}
  /\ ConfigurationInit /\ MatrixInit /\ ComparisonInit /\ RecordsInit /\ RecoveryInit
  /\ study # "recovery" => first = Min(Firsts)

AlgorithmsNext ==
  /\ UNCHANGED study
  /\ \/ /\ study = "configuration" /\ ConfigurationNext
        /\ UNCHANGED <<matrixVars, experiments, recordVars, recoveryVars>>
     \/ /\ study = "matrix" /\ MatrixNext
        /\ UNCHANGED <<configurationVars, experiments, recordVars, recoveryVars>>
     \/ /\ study = "comparison" /\ ComparisonNext
        /\ UNCHANGED <<configurationVars, matrixVars, recordVars, recoveryVars>>
     \/ /\ study = "records" /\ RecordsNext
        /\ UNCHANGED <<configurationVars, matrixVars, experiments, recoveryVars>>
     \/ /\ study = "recovery" /\ RecoveryNext
        /\ UNCHANGED <<configurationVars, matrixVars, experiments, recordVars>>

AlgorithmsSpec ==
  AlgorithmsInit
    /\ [][AlgorithmsNext]_<<study, configurationVars, matrixVars, experiments, recordVars,
                          recoveryVars>>
===============================================================================
