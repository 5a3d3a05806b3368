--------------------------- MODULE ReadinessProofs ---------------------------
(***************************************************************************)
(* Theorems about one process from its start on, for any rule files, any   *)
(* number of trainings, and any operators: its types, that no change of    *)
(* the rules file is lost, and that a ready process can score.             *)
(***************************************************************************)
EXTENDS Readiness, TLAPS

-----------------------------------------------------------------------------
(* Types *)

LEMMA ParsedType == \A text \in Content : Parsed(text) \in Rules
  BY DEF Parsed, Content, Rules

LEMMA OrderFacts ==
    /\ SaveSteps = 6
    /\ Order[1] = "model" /\ Order[2] = "scaler" /\ Order[3] = "metadata"
  BY DEF SaveSteps, Order

\* The file the training writes next
LEMMA NextFile ==
    ASSUME NEW n \in Nat, n < SaveSteps
    PROVE  /\ n \div 2 + 1 \in 1..3
           /\ Order[n \div 2 + 1] \in Part
  <1>1. n \in 0..5
    BY OrderFacts
  <1>2. n \div 2 + 1 \in 1..3
    BY <1>1
  <1> QED BY <1>2, OrderFacts DEF Part

LEMMA AfterType == \A part \in Part : After(part) \in {"done"} \cup Part
  BY DEF After, Part

LEMMA LoadTypes == RulesTypeOK /\ Load => RulesTypeOK'
  <1> SUFFICES ASSUME RulesTypeOK, Load PROVE RulesTypeOK'
    OBVIOUS
  <1>1. CASE Stamps
    BY <1>1 DEF RulesTypeOK, Stamps, Rules
  <1>2. CASE Reads
    BY <1>2, ParsedType DEF RulesTypeOK, Reads
  <1> QED BY <1>1, <1>2 DEF Load

LEMMA OperatorTypes == RulesTypeOK /\ Operator => RulesTypeOK'
  <1> SUFFICES ASSUME RulesTypeOK, Operator PROVE RulesTypeOK'
    OBVIOUS
  <1>1. ASSUME NEW new \in Content, Truncates(new) PROVE RulesTypeOK'
    BY <1>1 DEF RulesTypeOK, Truncates, Changes, Content
  <1>2. CASE Completes
    <2>1. writing \in Ruleset \cup {"broken"}
      BY <1>2 DEF RulesTypeOK, Completes
    <2>2. writing # "absent" /\ writing \in Content
      BY <2>1, RulesAssumption DEF Content
    <2> QED BY <1>2, <2>2 DEF RulesTypeOK, Completes, Changes
  <1>3. ASSUME NEW new \in Content, Replaces(new) PROVE RulesTypeOK'
    <2>1. new # "absent"
      BY <1>3, RulesAssumption DEF Replaces
    <2> QED BY <1>3, <2>1 DEF RulesTypeOK, Replaces, Changes
  <1>4. CASE Removes
    BY <1>4 DEF RulesTypeOK, Removes, Changes, Content
  <1> QED BY <1>1, <1>2, <1>3, <1>4 DEF Operator

LEMMA TrainingTypes == ModelTypeOK /\ Training => ModelTypeOK'
  <1> SUFFICES ASSUME ModelTypeOK, Training PROVE ModelTypeOK'
    OBVIOUS
  <1>1. CASE TrainingBegins
    BY <1>1, TrainingsAssumption, OrderFacts DEF TrainingBegins, ModelTypeOK
  <1>2. CASE Saves
    <2>1. saved \in Nat /\ saved < SaveSteps
      BY <1>2, OrderFacts DEF Saves, ModelTypeOK
    <2>2. file' \in [Part -> Torn..MaxTrainings]
      BY <1>2, <2>1, NextFile, TrainingsAssumption DEF Saves, ModelTypeOK, Torn
    <2>3. saved' \in 0..SaveSteps
      BY <1>2, <2>1, OrderFacts DEF Saves
    <2> QED BY <1>2, <2>2, <2>3 DEF Saves, ModelTypeOK
  <1> QED BY <1>1, <1>2 DEF Training

LEMMA LoadModelsTypes == ModelTypeOK /\ LoadModels => ModelTypeOK'
  <1> SUFFICES ASSUME ModelTypeOK, LoadModels PROVE ModelTypeOK'
    OBVIOUS
  <1>1. CASE FindsFiles
    BY <1>1 DEF FindsFiles, ModelTypeOK, Part
  <1>2. CASE LoadsPart
    <2>1. CASE file[step] \in {Torn, Missing}
      BY <1>2, <2>1 DEF LoadsPart, ModelTypeOK
    <2>2. CASE file[step] \notin {Torn, Missing}
      <3>1. step \in Part /\ file[step] \in 0..MaxTrainings
        BY <1>2, <2>2, TrainingsAssumption DEF LoadsPart, ModelTypeOK, Torn, Missing
      <3>2. loaded' \in [Part -> 0..MaxTrainings] /\ step' \in {"done"} \cup Part
        BY <1>2, <2>2, <3>1, AfterType DEF LoadsPart, ModelTypeOK
      <3> QED BY <1>2, <3>2 DEF LoadsPart, ModelTypeOK
    <2> QED BY <2>1, <2>2
  <1> QED BY <1>1, <1>2 DEF LoadModels

LEMMA RestartTypes == TypeOK /\ Restarts => TypeOK'
  <1> SUFFICES ASSUME TypeOK, Restarts PROVE TypeOK'
    OBVIOUS
  <1>1. newer' \in BOOLEAN /\ (content' = "absent" => ~newer')
    BY DEF Restarts, RulesRestart
  <1>2. RulesTypeOK'
    BY <1>1 DEF TypeOK, RulesTypeOK, Restarts, RulesRestart, Rules
  <1>3. loaded' \in [Part -> 0..MaxTrainings]
    BY TrainingsAssumption DEF Restarts, ModelRestart, Missing
  <1>4. ModelTypeOK'
    BY <1>3 DEF TypeOK, ModelTypeOK, Restarts, ModelRestart
  <1> QED BY <1>2, <1>4 DEF TypeOK

LEMMA InitTypes == Init => TypeOK
  <1> SUFFICES ASSUME Init PROVE TypeOK
    OBVIOUS
  <1>1. newer \in BOOLEAN /\ (content = "absent" => ~newer)
    BY DEF Init, RulesInit
  <1>2. RulesTypeOK
    BY <1>1 DEF Init, RulesInit, RulesTypeOK, Content, Rules
  <1>3. /\ loaded \in [Part -> 0..MaxTrainings]
        /\ trained \in 0..MaxTrainings
        /\ file \in [Part -> Torn..MaxTrainings]
    BY TrainingsAssumption DEF Init, ModelInit, Missing, Torn
  <1>4. ModelTypeOK
    <2>1. saved \in 0..SaveSteps
      BY OrderFacts DEF Init, ModelInit
    <2> QED BY <1>3, <2>1 DEF Init, ModelInit, ModelTypeOK
  <1> QED BY <1>2, <1>4 DEF TypeOK

\* A step is one of the process at its rules, of the process at its models, of an
\* operator at either, or of a training.
LEMMA StepCases ==
    ASSUME [Next]_vars
    PROVE  \/ (NoticesChange \/ Load \/ Operator) /\ UNCHANGED modelVars
           \/ (LoadModels \/ Training \/ RollsBack \/ Recovers) /\ UNCHANGED rulesVars
           \/ Restarts
           \/ UNCHANGED <<rulesVars, modelVars>>
  BY DEF Next, vars, Serves, Evaluate, EvaluatesAsBefore, Starts, Operates

LEMMA NextTypes == TypeOK /\ [Next]_vars => TypeOK'
  <1> SUFFICES ASSUME TypeOK, [Next]_vars PROVE TypeOK'
    OBVIOUS
  <1> USE DEF TypeOK
  <1>1. ASSUME UNCHANGED rulesVars PROVE RulesTypeOK'
    BY <1>1 DEF rulesVars, fileVars, RulesTypeOK
  <1>2. ASSUME UNCHANGED modelVars PROVE ModelTypeOK'
    BY <1>2 DEF modelVars, ModelTypeOK
  <1>3. ASSUME NoticesChange PROVE RulesTypeOK'
    BY <1>3 DEF NoticesChange, fileVars, RulesTypeOK
  <1>4. ASSUME RollsBack \/ Recovers PROVE ModelTypeOK'
    BY <1>4 DEF RollsBack, Recovers, ModelTypeOK
  <1> QED BY <1>1, <1>2, <1>3, <1>4, StepCases, LoadTypes, OperatorTypes, TrainingTypes,
             LoadModelsTypes, RestartTypes

\* Rules, models and files are of their types whatever loads, saves and restarts do.
THEOREM TypeCorrect == Spec => []TypeOK
  BY InitTypes, NextTypes, PTL DEF Spec

-----------------------------------------------------------------------------
(* The rules.  A change leaves the process something to notice, a newer     *)
(* time, or is one that brought none; the time is marked as seen before the *)
(* content is read.                                                         *)

LEMMA NextSeen == ChangesAreSeen /\ [Next]_vars => ChangesAreSeen'
  <1> SUFFICES ASSUME ChangesAreSeen, [Next]_vars PROVE ChangesAreSeen'
    OBVIOUS
  <1>1. CASE NoticesChange
    BY <1>1 DEF NoticesChange, ChangesAreSeen
  <1>2. CASE Load
    <2>1. CASE Stamps
      BY <2>1 DEF Stamps, ChangesAreSeen
    <2>2. CASE Reads
      BY <2>2 DEF Reads, ChangesAreSeen, Parsed
    <2> QED BY <1>2, <2>1, <2>2 DEF Load
  <1>3. CASE Operator
    BY <1>3 DEF Operator, Truncates, Completes, Replaces, Removes, Changes, ChangesAreSeen
  <1>4. CASE UNCHANGED rulesVars
    BY <1>4 DEF rulesVars, fileVars, ChangesAreSeen, Parsed
  <1>5. CASE Restarts
    BY <1>5 DEF Restarts, RulesRestart, ChangesAreSeen
  <1> QED BY <1>1, <1>2, <1>3, <1>4, <1>5, StepCases

\* No change of the rules file that brings a newer modification time is lost
\* between the process's look at the time and its reading of the content
\* (_load_rules and check_hot_reload of rules_engine.py).
THEOREM ChangesSeen == Spec => []ChangesAreSeen
  <1>1. Init => ChangesAreSeen
    BY DEF Init, RulesInit, ChangesAreSeen
  <1> QED BY <1>1, NextSeen, PTL DEF Spec

-----------------------------------------------------------------------------
(* The models.  A file whose turn in the saving is over is of the last      *)
(* training, so that a loading during which nothing is saved finds three    *)
(* files of one training, or none.                                          *)

FilesOfOne == \A i \in 1..3 : saved >= 2 * i => file[Order[i]] = trained

Loads(part) == loaded[part] = trained

LoadingUndisturbed ==
    step \in Part /\ ~overlap =>
        /\ saved = SaveSteps /\ trained # Missing
        /\ step # "model" => Loads("model")
        /\ step = "metadata" => Loads("scaler")

NothingYet == step \in {"check", "model"} => \A part \in Part : loaded[part] = Missing

LoadedOne == step = "done" /\ ~overlap => \A part \in Part : loaded[part] = loaded["model"]

ModelsInv == FilesOfOne /\ LoadingUndisturbed /\ NothingYet /\ LoadedOne

LEMMA InitModels == Init => ModelsInv
  BY OrderFacts
     DEF Init, ModelInit, ModelsInv, FilesOfOne, LoadingUndisturbed, NothingYet, LoadedOne, Part

LEMMA AllSaved ==
    ASSUME FilesOfOne, saved = SaveSteps
    PROVE  \A part \in Part : file[part] = trained
  BY OrderFacts DEF FilesOfOne, Part

LEMMA TrainingKeeps == ModelTypeOK /\ ModelsInv /\ Training => ModelsInv'
  <1> SUFFICES ASSUME ModelTypeOK, ModelsInv, Training PROVE ModelsInv'
    OBVIOUS
  <1>1. CASE TrainingBegins
    <2>1. saved' = 0 /\ UNCHANGED <<file, step, loaded>>
      BY <1>1 DEF TrainingBegins
    <2>2. ~overlap' => ~overlap /\ step \notin Part
      BY <1>1 DEF TrainingBegins
    <2>3. FilesOfOne'
      BY <2>1 DEF FilesOfOne
    <2>4. LoadingUndisturbed' /\ NothingYet' /\ LoadedOne'
      BY <2>1, <2>2 DEF ModelsInv, LoadingUndisturbed, NothingYet, LoadedOne
    <2> QED BY <2>3, <2>4 DEF ModelsInv
  <1>2. CASE Saves
    <2> DEFINE n == saved \div 2 + 1
    <2>1. saved \in 0..5 /\ saved' = saved + 1 /\ saved < SaveSteps
      BY <1>2, OrderFacts DEF Saves, ModelTypeOK
    <2>2. n \in 1..3 /\ Order[n] \in Part
      BY <2>1, NextFile
    <2>3. file' = [file EXCEPT ![Order[n]] = IF saved % 2 = 0 THEN Torn ELSE trained]
      BY <1>2 DEF Saves
    <2>4. ASSUME NEW i \in 1..3, saved' >= 2 * i PROVE file'[Order[i]] = trained
      <3>1. CASE i = n
        <4>1. saved % 2 # 0
          BY <2>1, <2>4, <3>1
        <4> QED BY <2>2, <2>3, <3>1, <4>1 DEF ModelTypeOK
      <3>2. CASE i # n
        <4>1. saved >= 2 * i
          BY <2>1, <2>4, <3>2
        <4>2. Order[i] # Order[n] /\ Order[i] \in Part
          BY <2>2, <3>2, OrderFacts DEF Part
        <4> QED BY <2>3, <4>1, <4>2 DEF ModelTypeOK, ModelsInv, FilesOfOne
      <3> QED BY <3>1, <3>2
    <2>5. FilesOfOne'
      BY <1>2, <2>4 DEF FilesOfOne, Saves
    <2> QED BY <1>2, <2>1, <2>5
            DEF Saves, ModelsInv, LoadingUndisturbed, NothingYet, LoadedOne, Loads
  <1> QED BY <1>1, <1>2 DEF Training

LEMMA LoadModelsKeeps == ModelTypeOK /\ ModelsInv /\ LoadModels => ModelsInv'
  <1> SUFFICES ASSUME ModelTypeOK, ModelsInv, LoadModels PROVE ModelsInv'
    OBVIOUS
  <1>1. FilesOfOne'
    BY DEF LoadModels, FindsFiles, LoadsPart, ModelsInv, FilesOfOne
  <1>2. CASE FindsFiles
    <2>1. \A part \in Part : loaded[part] = Missing
      BY <1>2 DEF FindsFiles, ModelsInv, NothingYet
    <2>2. ASSUME step' \in Part, ~overlap' PROVE saved = SaveSteps /\ trained # Missing
      <3>1. saved = SaveSteps /\ file["model"] # Missing
        <4>1. ~(saved < SaveSteps) /\ saved \in 0..SaveSteps
          BY <1>2, <2>2 DEF FindsFiles, ModelTypeOK
        <4>2. step' # "done"
          BY <2>2 DEF Part
        <4> QED BY <1>2, <4>1, <4>2, OrderFacts DEF FindsFiles
      <3> QED BY <3>1, AllSaved DEF ModelsInv, Part
    <2> QED BY <1>1, <1>2, <2>1, <2>2
            DEF FindsFiles, ModelsInv, LoadingUndisturbed, NothingYet, LoadedOne, Part
  <1>3. CASE LoadsPart
    <2>1. CASE overlap
      BY <1>1, <1>3, <2>1
         DEF LoadsPart, After, ModelsInv, LoadingUndisturbed, NothingYet, LoadedOne, Part
    <2>2. CASE ~overlap
      <3>1. step \in Part /\ saved = SaveSteps /\ trained # Missing /\ trained \in Nat
        BY <1>3, <2>2 DEF LoadsPart, ModelsInv, LoadingUndisturbed, ModelTypeOK
      <3>2. file[step] = trained
        BY <3>1, AllSaved DEF ModelsInv
      <3>3. file[step] \notin {Torn, Missing}
        BY <3>1, <3>2 DEF Torn, Missing
      <3>4. /\ loaded' = [loaded EXCEPT ![step] = trained] /\ step' = After(step)
            /\ UNCHANGED <<trained, saved, file, overlap>>
        BY <1>3, <3>2, <3>3 DEF LoadsPart
      <3>5. loaded'[step] = trained
        BY <3>1, <3>4 DEF ModelTypeOK
      <3>6. \A part \in Part : part # step => loaded'[part] = loaded[part]
        BY <3>4 DEF ModelTypeOK
      <3>7. LoadingUndisturbed' /\ NothingYet' /\ LoadedOne'
        BY <2>2, <3>1, <3>4, <3>5, <3>6
           DEF After, ModelsInv, LoadingUndisturbed, NothingYet, LoadedOne, Loads, Part
      <3> QED BY <1>1, <3>7 DEF ModelsInv
    <2> QED BY <2>1, <2>2
  <1> QED BY <1>2, <1>3 DEF LoadModels

LEMMA NextModels == TypeOK /\ ModelsInv /\ [Next]_vars => ModelsInv'
  <1> SUFFICES ASSUME TypeOK, ModelsInv, [Next]_vars PROVE ModelsInv'
    OBVIOUS
  <1> USE DEF TypeOK
  <1>1. CASE UNCHANGED modelVars
    BY <1>1 DEF modelVars, ModelsInv, FilesOfOne, LoadingUndisturbed, NothingYet, LoadedOne, Loads
  <1>2. CASE RollsBack \/ Recovers
    BY <1>2 DEF RollsBack, Recovers, ModelsInv, FilesOfOne, LoadingUndisturbed, NothingYet,
                LoadedOne, Loads
  <1>3. CASE Restarts
    BY <1>3 DEF Restarts, ModelRestart, ModelsInv, FilesOfOne, LoadingUndisturbed, NothingYet,
                LoadedOne, Part
  <1> QED BY <1>1, <1>2, <1>3, StepCases, TrainingKeeps, LoadModelsKeeps

\* Where the probe of ha_dr.py says ready, and no saving fell into the loading, the
\* process has a model, a scaler and metadata of one training, although the probe
\* looks at the model only.
THEOREM ReadyCanScore == Spec => []ReadyScores
  <1>1. ModelsInv => ReadyScores
    BY DEF ModelsInv, LoadedOne, ReadyScores, Up, Ready, Health, Operational, Part
  <1> QED BY <1>1, InitModels, NextModels, TypeCorrect, PTL DEF Spec

=============================================================================
