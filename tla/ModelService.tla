---------------------------- MODULE ModelService ----------------------------
(***************************************************************************)
(* ml/model_service.py in one process and the files it loads when it       *)
(* starts, which the training of ml/train_models.py overwrites one after   *)
(* another.  What a model answers to a request is left out: the parts are  *)
(* told apart by the training they are of.                                 *)
(***************************************************************************)
EXTENDS Integers, Sequences

CONSTANT MaxTrainings   \* bound: trainings that save their models

ASSUME TrainingsAssumption == MaxTrainings \in Nat \ {0}

VARIABLES
    trained,     \* trainings that began to save
    saved,       \* steps done of the saving of the last one
    file,        \* file[part]: the training a file is of, Missing or Torn
    step,        \* load_models: "check", the part it reads next, "done"
    loaded,      \* loaded[part]: the training of self.model, scaler, metadata
    rolledBack,  \* self.is_rolled_back
    overlap      \* history: a saving was unfinished at some moment of the loading

modelVars == <<trained, saved, file, step, loaded, rolledBack, overlap>>

Part == {"model", "scaler", "metadata"}
Order == <<"model", "scaler", "metadata">>

Missing == 0
Torn == -1

\* Each file is opened, which empties it, and then written.
SaveSteps == 2 * Len(Order)

ModelTypeOK ==
    /\ trained \in 0..MaxTrainings
    /\ saved \in 0..SaveSteps
    /\ file \in [Part -> Torn..MaxTrainings]
    /\ step \in {"check", "done"} \cup Part
    /\ loaded \in [Part -> 0..MaxTrainings]
    /\ rolledBack \in BOOLEAN /\ overlap \in BOOLEAN

ModelInit ==
    /\ trained \in {0, 1}
    /\ saved = SaveSteps
    /\ file = [part \in Part |-> trained]
    /\ step = "check"
    /\ loaded = [part \in Part |-> Missing]
    /\ rolledBack = FALSE /\ overlap = FALSE

-----------------------------------------------------------------------------
(* save_models, in a process of its own, which may end at any point *)

TrainingBegins ==
    /\ trained < MaxTrainings
    /\ trained' = trained + 1
    /\ saved' = 0
    /\ overlap' = (overlap \/ step \in Part)
    /\ UNCHANGED <<file, step, loaded, rolledBack>>

\* Fault: a scaler that is there is not written anew.
SavesButScaler ==
    LET part == Order[saved \div 2 + 1]
    IN  /\ saved < SaveSteps
        /\ file' = IF part = "scaler" /\ file[part] # Missing THEN file
                   ELSE [file EXCEPT ![part] = IF saved % 2 = 0 THEN Torn ELSE trained]
        /\ saved' = saved + 1
        /\ UNCHANGED <<trained, step, loaded, rolledBack, overlap>>

Saves ==
    LET part == Order[saved \div 2 + 1]
    IN  /\ saved < SaveSteps
        /\ file' = [file EXCEPT ![part] = IF saved % 2 = 0 THEN Torn ELSE trained]
        /\ saved' = saved + 1
        /\ UNCHANGED <<trained, step, loaded, rolledBack, overlap>>

Training == TrainingBegins \/ Saves

-----------------------------------------------------------------------------
(* load_models *)

FindsFiles ==
    /\ step = "check"
    /\ step' = IF Missing \in {file["model"], file["scaler"]} THEN "done" ELSE "model"
    /\ overlap' = (saved < SaveSteps)
    /\ UNCHANGED <<trained, saved, file, loaded, rolledBack>>

After(part) ==
    CASE part = "model" -> "scaler" [] part = "scaler" -> "metadata" [] OTHER -> "done"

\* Fault: whatever is in the file is taken.
LoadsAnything ==
    /\ step \in Part
    /\ loaded' = [loaded EXCEPT ![step] = file[step]]
    /\ step' = After(step)
    /\ UNCHANGED <<trained, saved, file, rolledBack, overlap>>

\* A file that does not load ends the loading, and what was loaded before stays.
LoadsPart ==
    /\ step \in Part
    /\ IF file[step] \in {Torn, Missing}
         THEN step' = "done" /\ UNCHANGED loaded
         ELSE /\ loaded' = [loaded EXCEPT ![step] = file[step]]
              /\ step' = After(step)
    /\ UNCHANGED <<trained, saved, file, rolledBack, overlap>>

LoadModels == FindsFiles \/ LoadsPart

-----------------------------------------------------------------------------
(* The operators' endpoints, in the one process that gets the request *)

RollsBack ==
    /\ rolledBack' = TRUE
    /\ UNCHANGED <<trained, saved, file, step, loaded, overlap>>

Recovers ==
    /\ rolledBack' = FALSE
    /\ UNCHANGED <<trained, saved, file, step, loaded, overlap>>

\* get_health, which asks for the model only
Health ==
    CASE rolledBack -> "rolled_back"
      [] ~rolledBack /\ loaded["model"] # Missing -> "healthy"
      [] OTHER -> "standby"

\* should_evaluate_ml and score_request ask for the scaler too.
Operational ==
    ~rolledBack /\ loaded["model"] # Missing /\ loaded["scaler"] # Missing

\* A process that starts anew has forgotten the rollback.
ModelRestart ==
    /\ step' = "check"
    /\ loaded' = [part \in Part |-> Missing]
    /\ rolledBack' = FALSE /\ overlap' = FALSE
    /\ UNCHANGED <<trained, saved, file>>
=============================================================================
