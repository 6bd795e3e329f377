----------------------- MODULE FrozenEvaluationProofs -----------------------
(***************************************************************************)
(* Machine-checked proofs about FrozenEvaluation, for any number of runs,  *)
(* edits, fits, scorings and freezes.                                      *)
(***************************************************************************)
EXTENDS FrozenEvaluation, TLAPS

Versions == 0..MaxEdits
Stages == Reading \cup Computed \cup {"idle", "stopped"}
Inputs == [script : Versions, pairs : Versions,
           models : ModelFiles \cup {NoFile}, scored : ScoredFiles \cup {NoFile}]

RunRecords == [at : Stages, force : BOOLEAN, used : Inputs, noted : Inputs]

Types ==
  /\ TypeOK
  /\ run \in [Runs -> RunRecords]
  /\ pinned \in [Runs -> Pins \cup {NoFile}]
  /\ watch \in [Runs -> SUBSET {"change", "fit", "run"}]
  /\ \A s \in Sources : file[s] <= count.edits

(* Two runs alive at the same time both know, and so does a run that has   *)
(* found no result if another one has written one since.                   *)
Cleared == {"cleared", "modelled", "read", "noted", "writing"}
Alone ==
  /\ \A p, q \in Runs : p # q /\ Live(p) /\ Live(q) => "run" \in watch[p]
  /\ \A r \in Runs :
       run[r].at \in Cleared /\ ~run[r].force /\ out # NoFile
         => out.by = r \/ "run" \in watch[r]

(* No fit is under way around a run that has seen none, so the models it   *)
(* has read stand; once a v9 or v10 result is there no fit begins.         *)
Unfitted ==
  /\ \A r \in Runs :
       "fit" \notin watch[r] =>
         /\ Live(r) => fit = NoFile
         /\ run[r].at \in {"modelled", "read", "noted", "writing"}
              => models = run[r].used.models
         /\ run[r].at = "ended" /\ design # "v8"
              => fit = NoFile /\ models = run[r].used.models
  /\ \A r \in Runs : run[r].at = "ended" => out # NoFile
  /\ out # NoFile /\ out.whole => run[out.by].at = "ended"

(* What an undisturbed run has checked, and read, is what is there.        *)
Pinned(r) ==
  /\ pinned[r] \in Pins
  /\ \A s \in Compared : pinned[r].source[s] = file[s]
  /\ design # "v8" => pinned[r].models = models /\ pinned[r].scored = scored
Undisturbed ==
  \A r \in Runs : "change" \notin watch[r] =>
    /\ run[r].at \in Reading => run[r].used.script = file["script"]
    /\ run[r].at \in Reading \ {"started"} => Pinned(r)
    /\ run[r].at = "modelled" => run[r].used.models = models

(* Sources, models and scored files only grow newer, so a run sees them in *)
(* that order.                                                             *)
Newer(m, n) == m # NoFile /\ n # NoFile /\ \A s \in Trained : m[s] <= n[s]
Later(m, n) == m # NoFile /\ n # NoFile /\ m <= n
InOrder(r) ==
  /\ run[r].at \in (Reading \ {"started"}) \cup Computed => pinned[r] \in Pins
  /\ run[r].at \in {"checked", "cleared"} =>
       Newer(pinned[r].models, models) /\ Later(pinned[r].scored, scored)
  /\ run[r].at = "modelled" =>
       /\ Newer(pinned[r].models, run[r].used.models)
       /\ Newer(run[r].used.models, models)
       /\ Later(pinned[r].scored, scored)
  /\ run[r].at \in Computed =>
       /\ Newer(pinned[r].models, run[r].used.models)
       /\ Later(pinned[r].scored, run[r].used.scored)
  /\ run[r].at = "read" =>
       Newer(run[r].used.models, models) /\ Later(run[r].used.scored, scored)
  /\ run[r].at \in {"noted", "writing", "ended"} =>
       /\ Newer(run[r].used.models, run[r].noted.models)
       /\ Later(run[r].used.scored, run[r].noted.scored)
FilesInOrder ==
  /\ fit # NoFile => Newer(fit, Fitted) /\ (models # NoFile => Newer(models, fit))
  /\ models # NoFile => Newer(models, Fitted)
  /\ scored # NoFile => scored <= count.scorings
Ordered == FilesInOrder /\ \A r \in Runs : design = "v9" => InOrder(r)


-----------------------------------------------------------------------------
LEMMA IdleTyped ==
  Idle \in RunRecords /\ Stopped \in RunRecords /\ ~Idle.force /\ ~Stopped.force
<1>1. 0 \in Versions
  BY FrozenAssumption DEF Versions
<1>2. Nothing \in Inputs
  BY <1>1 DEF Nothing, Inputs
<1> QED
  BY <1>2 DEF Idle, Stopped, RunRecords, Stages

LEMMA TypesInit == Init => Types
<1> SUFFICES ASSUME Init PROVE Types
  OBVIOUS
<1>1. run \in [Runs -> RunRecords] /\ \A r \in Runs : run[r] = Idle
  BY IdleTyped DEF Init
<1>2. file \in [Sources -> 0..MaxEdits] /\ \A s \in Sources : file[s] = 0
  BY FrozenAssumption DEF Init
<1>3. count \in [edits : 0..MaxEdits, fits : 0..MaxFits,
                 scorings : 0..MaxScorings, freezes : 0..MaxFreezes]
      /\ count.edits = 0
  BY FrozenAssumption DEF Init
<1>4. pinned \in [Runs -> Pins \cup {NoFile}]
      /\ watch \in [Runs -> SUBSET {"change", "fit", "run"}]
      /\ \A r \in Runs : watch[r] = {}
  BY DEF Init
<1>5. \A r \in Runs : run[r].at = "idle" /\ ~run[r].force
  BY <1>1, IdleTyped DEF Idle
<1>6. TypeOK
  BY <1>2, <1>3, <1>4, <1>5 DEF Init, TypeOK
<1> QED
  BY <1>1, <1>2, <1>3, <1>4, <1>6, FrozenAssumption DEF Init, Types

(* Editing raises a version below the bound.                               *)
LEMMA TypesEdit ==
  ASSUME Types, NEW s \in Sources, Edit(s)
  PROVE  Types'
<1>1. /\ file[s] + 1 \in 0..MaxEdits
      /\ \A x \in Sources : file[x] <= count.edits
      /\ count.edits + 1 \in 0..MaxEdits
  BY FrozenAssumption DEF Types, TypeOK, Edit
<1>2. file' \in [Sources -> 0..MaxEdits] /\ count'.edits = count.edits + 1
  BY <1>1 DEF Types, TypeOK, Edit
<1>3. \A x \in Sources : file'[x] <= count'.edits
  BY <1>1, <1>2 DEF Types, TypeOK, Edit
<1>4. count' \in [edits : 0..MaxEdits, fits : 0..MaxFits,
                  scorings : 0..MaxScorings, freezes : 0..MaxFreezes]
  BY <1>1 DEF Types, TypeOK, Edit
<1>5. watch' \in [Runs -> SUBSET {"change", "fit", "run"}]
  BY DEF Types, Edit, Changing, Witness
<1> QED
  BY <1>2, <1>3, <1>4, <1>5 DEF Types, TypeOK, Edit, Changing, Witness

LEMMA TypesPeople ==
  ASSUME Types, PeopleStep
  PROVE  Types'
<1>1. ASSUME NEW s \in Sources, Edit(s) PROVE Types'
  BY <1>1, TypesEdit
<1>2. CASE FitStarts
  <2>1. Fitted \in ModelFiles
    BY DEF Types, TypeOK, Fitted, ModelFiles, Trained, Sources
  <2> QED
    BY <1>2, <2>1, FrozenAssumption DEF Types, TypeOK, FitStarts, Witness, files
<1>3. CASE FitWrites
  BY <1>3, FrozenAssumption DEF Types, TypeOK, FitWrites, Changing, Witness
<1>4. CASE Freeze
  <2>1. Current \in Pins
    BY DEF Types, TypeOK, Current, Pins
  <2> QED
    BY <1>4, <2>1, FrozenAssumption DEF Types, TypeOK, Freeze, Changing, Witness
<1>5. CASE FreezeScored
  BY <1>5, FrozenAssumption DEF Types, TypeOK, FreezeScored, Changing, Witness
<1>6. CASE Score
  BY <1>6, FrozenAssumption DEF Types, TypeOK, Score, Changing, Witness, ScoredFiles
<1> QED
  BY <1>1, <1>2, <1>3, <1>4, <1>5, <1>6 DEF PeopleStep

(* A step of a run changes its own record only.                            *)
LEMMA RecordChanged ==
  ASSUME Types, NEW r \in Runs, NEW new \in RunRecords,
         run' = [run EXCEPT ![r] = new], new.force => design = "v8",
         design' = design
  PROVE  /\ run' \in [Runs -> RunRecords]
         /\ \A q \in Runs :
              /\ run'[q].at \in Reading \cup Computed \cup {"idle", "stopped"}
              /\ run'[q].force => design' = "v8"
<1>1. run' \in [Runs -> RunRecords]
  BY DEF Types
<1>2. \A q \in Runs : run'[q] = IF q = r THEN new ELSE run[q]
  BY DEF Types
<1> QED
  BY <1>1, <1>2 DEF Types, TypeOK, RunRecords, Stages

(* A step that changes the record of its run and nothing else.             *)
LEMMA OnlyRecord ==
  ASSUME Types, NEW r \in Runs, NEW new \in RunRecords,
         run' = [run EXCEPT ![r] = new], new.force = run[r].force,
         UNCHANGED <<design, files, fit, out, count, pinned, watch>>
  PROVE  Types'
<1>1. new.force => design = "v8"
  BY DEF Types, TypeOK
<1>2. /\ run' \in [Runs -> RunRecords]
      /\ \A q \in Runs :
           /\ run'[q].at \in Reading \cup Computed \cup {"idle", "stopped"}
           /\ run'[q].force => design' = "v8"
  BY <1>1, RecordChanged
<1> QED
  BY <1>2 DEF files, Types, TypeOK

LEMMA TypesRun ==
  ASSUME Types, NEW r \in Runs, RunStep(r)
  PROVE  Types'
<1> DEFINE old == run[r]
<1>0. old \in RunRecords /\ (old.force => design = "v8")
  BY DEF Types, TypeOK
<1>1. CASE Start(r)
  <2>1. PICK force \in BOOLEAN :
          /\ force => design = "v8"
          /\ run' = [run EXCEPT ![r].at = "started", ![r].force = force,
                                ![r].used.script = file["script"]]
    BY <1>1 DEF Start
  <2> DEFINE new == [old EXCEPT !.at = "started", !.force = force,
                                !.used.script = file["script"]]
  <2>2. file["script"] \in Versions
    BY DEF Types, TypeOK, Versions, Sources
  <2>3. new \in RunRecords /\ new.force = force
    BY <1>0, <2>2 DEF RunRecords, Inputs, Stages, Reading
  <2>4. run' = [run EXCEPT ![r] = new]
    BY <2>1 DEF Types
  <2>5. watch' \in [Runs -> SUBSET {"change", "fit", "run"}]
    BY <1>1 DEF Start, Types
  <2>6. design' = design /\ (new.force => design = "v8")
    BY <1>1, <2>1, <2>3 DEF Start
  <2>7. /\ run' \in [Runs -> RunRecords]
        /\ \A q \in Runs :
             /\ run'[q].at \in Reading \cup Computed \cup {"idle", "stopped"}
             /\ run'[q].force => design' = "v8"
    BY <2>3, <2>4, <2>6, RecordChanged
  <2> QED
    BY <1>1, <2>5, <2>7 DEF Start, files, Types, TypeOK
<1>2. ASSUME NEW to \in Stages, Go(r, to), design' = design
      PROVE  /\ run' \in [Runs -> RunRecords]
             /\ \A q \in Runs :
                  /\ run'[q].at \in Reading \cup Computed \cup {"idle", "stopped"}
                  /\ run'[q].force => design' = "v8"
  <2> DEFINE new == [old EXCEPT !.at = to]
  <2>1. new \in RunRecords /\ new.force = old.force
    BY <1>0, <1>2 DEF RunRecords
  <2>2. run' = [run EXCEPT ![r] = new]
    BY <1>2 DEF Go, Types
  <2> QED
    BY <1>0, <1>2, <2>1, <2>2, RecordChanged
<1>3. "checked" \in Stages /\ "cleared" \in Stages /\ "writing" \in Stages
      /\ "ended" \in Stages
  BY DEF Stages, Reading, Computed
<1>4. CASE CheckFreeze(r)
  <2>1. freeze \in Pins
    BY <1>4 DEF CheckFreeze, Accepted, Types, TypeOK
  <2>2. design = "v10" => [freeze EXCEPT !.scored = scoredFreeze] \in Pins
    BY <2>1 DEF Pins, Types, TypeOK
  <2> QED
    BY <1>2, <1>3, <1>4, <2>1, <2>2 DEF CheckFreeze, files, Types, TypeOK
<1>5. CASE CheckOut(r)
  BY <1>2, <1>3, <1>5 DEF CheckOut, files, Types, TypeOK
<1>6. CASE ReadModels(r)
  <2> DEFINE new == [old EXCEPT !.at = "modelled", !.used.models = models]
  <2>1. new \in RunRecords /\ new.force = old.force
    BY <1>0 DEF RunRecords, Inputs, Stages, Reading, Types, TypeOK
  <2>2. run' = [run EXCEPT ![r] = new]
    BY <1>6 DEF ReadModels, Types
  <2>3. UNCHANGED <<design, files, fit, out, count, pinned, watch>>
    BY <1>6 DEF ReadModels
  <2> HIDE DEF new
  <2> QED
    BY <2>1, <2>2, <2>3, OnlyRecord
<1>7. CASE ReadData(r)
  <2> DEFINE new == [old EXCEPT !.at = "read", !.used.pairs = file["pairs"],
                                !.used.scored = scored]
  <2>1. file["pairs"] \in Versions /\ scored \in ScoredFiles \cup {NoFile}
    BY DEF Types, TypeOK, Versions, Sources
  <2>2. new \in RunRecords /\ new.force = old.force
    BY <1>0, <2>1 DEF RunRecords, Inputs, Stages, Computed
  <2>3. run' = [run EXCEPT ![r] = new]
    BY <1>7 DEF ReadData, Types
  <2>4. UNCHANGED <<design, files, fit, out, count, pinned, watch>>
    BY <1>7 DEF ReadData
  <2> HIDE DEF new
  <2> QED
    BY <2>2, <2>3, <2>4, OnlyRecord
<1>8. ASSUME Stop(r), UNCHANGED <<design, files, fit, out, count>> PROVE Types'
  <2> QED
    BY <1>8, IdleTyped, RecordChanged DEF Stop, files, Types, TypeOK
<1>9. CASE NoteHashes(r)
  <2>1. /\ file["script"] \in Versions /\ file["pairs"] \in Versions
        /\ scored \in ScoredFiles \cup {NoFile} /\ 0 \in Versions
        /\ models \in ModelFiles \cup {NoFile}
    BY FrozenAssumption DEF Types, TypeOK, Versions, Sources
  <2>2. Noted(r) \in Inputs
    BY <2>1 DEF Noted, Nothing, Inputs
  <2> DEFINE new == [old EXCEPT !.at = "noted", !.noted = Noted(r)]
  <2>3. new \in RunRecords /\ new.force = old.force
    BY <1>0, <2>2 DEF RunRecords, Stages, Computed
  <2>4. run' = [run EXCEPT ![r] = new]
    BY <1>9 DEF NoteHashes, Types
  <2>5. UNCHANGED <<design, files, fit, out, count, pinned, watch>>
    BY <1>9 DEF NoteHashes
  <2> HIDE DEF new
  <2> QED
    BY <2>3, <2>4, <2>5, OnlyRecord
<1>10. CASE WriteOpens(r)
  BY <1>2, <1>3, <1>10 DEF WriteOpens, files, Types, TypeOK
<1>11. CASE WriteCloses(r)
  <2>1. out' \in [by : Runs, whole : BOOLEAN]
    <3>1. PICK whole \in BOOLEAN : out' = [by |-> r, whole |-> whole]
      BY <1>11, Zenon DEF WriteCloses
    <3> QED
      BY <3>1
  <2> QED
    BY <1>2, <1>3, <1>11, <2>1 DEF WriteCloses, files, Types, TypeOK
<1> QED
  BY <1>1, <1>4, <1>5, <1>6, <1>7, <1>8, <1>9, <1>10, <1>11 DEF RunStep, Refuse, Crash

LEMMA TypesStep == Types /\ [Next]_vars => Types'
<1>1. ASSUME Types, UNCHANGED vars PROVE Types'
  BY <1>1 DEF Types, TypeOK, vars, files
<1> QED
  BY <1>1, TypesPeople, TypesRun DEF Next

(* Type correctness of the campaign around a frozen evaluation: a FREEZE   *)
(* file holds contents its files had, a result names its run, and force is *)
(* v8's alone.                                                             *)
THEOREM TypeCorrect == Spec => []TypeOK
<1>1. Types => TypeOK
  BY DEF Types
<1> QED
  BY <1>1, TypesInit, TypesStep, PTL DEF Spec

-----------------------------------------------------------------------------
(* What the steps of a run make of its record, field by field.             *)
Others(r) == \A q \in Runs : q # r => run'[q] = run[q]

LEMMA GoFields ==
  ASSUME Types, NEW r \in Runs, NEW to, Go(r, to)
  PROVE  /\ Others(r)
         /\ run'[r].at = to /\ run'[r].force = run[r].force
         /\ run'[r].used = run[r].used /\ run'[r].noted = run[r].noted
<1>1. run[r] \in RunRecords
  BY DEF Types
<1> QED
  BY <1>1 DEF Types, Go, Others, RunRecords

LEMMA StartFields ==
  ASSUME Types, NEW r \in Runs, Start(r)
  PROVE  /\ Others(r)
         /\ run'[r].at = "started" /\ run'[r].used.script = file["script"]
<1>1. run[r] \in RunRecords
  BY DEF Types
<1>2. PICK force \in BOOLEAN :
        run' = [run EXCEPT ![r].at = "started", ![r].force = force,
                           ![r].used.script = file["script"]]
  BY DEF Start
<1> QED
  BY <1>1, <1>2 DEF Types, Others, RunRecords, Inputs

LEMMA ReadModelsFields ==
  ASSUME Types, NEW r \in Runs, ReadModels(r)
  PROVE  /\ Others(r)
         /\ run'[r].at = "modelled" /\ run'[r].force = run[r].force
         /\ run'[r].used.models = models
         /\ run'[r].used.script = run[r].used.script
<1>1. run[r] \in RunRecords
  BY DEF Types
<1> QED
  BY <1>1 DEF Types, ReadModels, Others, RunRecords, Inputs

LEMMA ReadDataFields ==
  ASSUME Types, NEW r \in Runs, ReadData(r)
  PROVE  /\ Others(r)
         /\ run'[r].at = "read" /\ run'[r].force = run[r].force
         /\ run'[r].used.models = run[r].used.models
         /\ run'[r].used.script = run[r].used.script
         /\ run'[r].used.pairs = file["pairs"]
         /\ run'[r].used.scored = scored
<1>1. run[r] \in RunRecords
  BY DEF Types
<1> QED
  BY <1>1 DEF Types, ReadData, Others, RunRecords, Inputs

LEMMA NoteFields ==
  ASSUME Types, NEW r \in Runs, NoteHashes(r)
  PROVE  /\ Others(r)
         /\ run'[r].at = "noted" /\ run'[r].force = run[r].force
         /\ run'[r].used = run[r].used
         /\ design = "v9" => run'[r].noted.models = models
                             /\ run'[r].noted.scored = scored
<1>1. run[r] \in RunRecords
  BY DEF Types
<1>2. run'[r].noted = Noted(r)
  BY <1>1 DEF Types, NoteHashes, RunRecords
<1>3. design = "v9" => Noted(r).models = models /\ Noted(r).scored = scored
  BY DEF Noted, Nothing
<1> QED
  BY <1>1, <1>2, <1>3 DEF Types, NoteHashes, Others, RunRecords

LEMMA StopFields ==
  ASSUME Types, NEW r \in Runs, Stop(r)
  PROVE  Others(r) /\ run'[r].at = "stopped" /\ ~run'[r].force
<1> QED
  BY IdleTyped DEF Types, Stop, Stopped, Idle, Others

(* What people do goes on around the runs and touches no result.           *)
LEMMA PeopleFields ==
  ASSUME Types, PeopleStep
  PROVE  /\ UNCHANGED <<design, run, out, pinned>>
         /\ \A r \in Runs : watch[r] \subseteq watch'[r]
<1> DEFINE Watched == \A r \in Runs : watch[r] \subseteq watch'[r]
<1>1. ASSUME NEW stages, NEW e, Witness(stages, e) PROVE Watched
  BY <1>1 DEF Witness, Types
<1>2. Changing => Watched
  BY <1>1 DEF Changing
<1>3. Watched
  BY <1>1, <1>2 DEF PeopleStep, Edit, FitStarts, FitWrites, Freeze, FreezeScored, Score
<1> QED
  BY <1>3 DEF PeopleStep, Edit, FitStarts, FitWrites, Freeze, FreezeScored, Score,
       Changing, Witness, files

-----------------------------------------------------------------------------
(* A single result.                                                        *)
LEMMA AloneStep ==
  ASSUME Types, Alone, [Next]_vars
  PROVE  Alone'
<1> USE DEF Alone, Live, Cleared, Reading, Computed
<1>1. CASE UNCHANGED vars
  BY <1>1 DEF vars, files
<1>2. CASE PeopleStep
  BY <1>2, PeopleFields
<1>3. ASSUME NEW r \in Runs, RunStep(r) PROVE Alone'
  <2>1. CASE Start(r)
    <3>1. \A q \in Runs : q # r => watch[q] \subseteq watch'[q]
            /\ (Live(q) => "run" \in watch'[q] /\ "run" \in watch'[r])
      BY <2>1 DEF Start, Types
    <3>2. out' = out /\ Others(r) /\ run'[r].at = "started"
      BY <2>1, StartFields DEF Start
    <3> QED
      BY <3>1, <3>2 DEF Others
  <2>2. CASE CheckFreeze(r)
    <3>1. Go(r, "checked") /\ run[r].at = "started" /\ UNCHANGED <<out, watch>>
      BY <2>2 DEF CheckFreeze
    <3> QED
      BY <3>1, GoFields DEF Others
  <2>3. CASE CheckOut(r)
    <3>1. Go(r, "cleared") /\ run[r].at = "checked" /\ UNCHANGED <<out, watch>>
          /\ (out # NoFile => run[r].force)
      BY <2>3 DEF CheckOut, MayWrite
    <3> QED
      BY <3>1, GoFields DEF Others
  <2>4. CASE ReadModels(r)
    <3>1. run[r].at = "cleared" /\ UNCHANGED <<out, watch>>
      BY <2>4 DEF ReadModels
    <3> QED
      BY <2>4, <3>1, ReadModelsFields DEF Others
  <2>5. CASE ReadData(r)
    <3>1. run[r].at = "modelled" /\ UNCHANGED <<out, watch>>
      BY <2>5 DEF ReadData
    <3> QED
      BY <2>5, <3>1, ReadDataFields DEF Others
  <2>6. ASSUME Stop(r), out' = out PROVE Alone'
    <3>1. \A q \in Runs : q # r => watch'[q] = watch[q]
      BY <2>6 DEF Stop, Types
    <3> QED
      BY <2>6, <3>1, StopFields DEF Others
  <2>7. CASE NoteHashes(r)
    <3>1. run[r].at = "read" /\ UNCHANGED <<out, watch>>
      BY <2>7 DEF NoteHashes
    <3> QED
      BY <2>7, <3>1, NoteFields DEF Others
  <2>8. ASSUME NEW to \in {"writing", "ended"}, Go(r, to), Live(r),
               run[r].at \in Cleared,
               out'.by = r, watch' = watch
        PROVE  Alone'
    BY <2>8, GoFields DEF Others
  <2>9. CASE WriteOpens(r)
    <3>1. out'.by = r
      BY <2>9 DEF WriteOpens
    <3> QED
      BY <2>8, <2>9, <3>1 DEF WriteOpens
  <2>10. CASE WriteCloses(r)
    <3>1. PICK whole \in BOOLEAN : out' = [by |-> r, whole |-> whole]
      BY <2>10, Zenon DEF WriteCloses
    <3>2. out'.by = r
      BY <3>1
    <3> QED
      BY <2>8, <2>10, <3>2 DEF WriteCloses
  <2> QED
    BY <1>3, <2>1, <2>2, <2>3, <2>4, <2>5, <2>6, <2>7, <2>9, <2>10
       DEF RunStep, Refuse, Crash
<1> QED
  BY <1>1, <1>2, <1>3 DEF Next

(* A result, whole or torn, is replaced only by its own run, by a run that *)
(* was alive together with another one, or by one told to.                 *)
THEOREM ResultStands == Spec => SingleResult
<1> DEFINE Kept == out # NoFile /\ out' # out =>
                     \/ out'.by = out.by
                     \/ "run" \in watch[out'.by] \/ run[out'.by].force
<1>1. Init => Alone
  <2>1. Init => \A r \in Runs : run[r].at = "idle" /\ out = NoFile
    BY DEF Init, Idle
  <2> QED
    BY <2>1 DEF Alone, Live, Cleared, Reading, Computed
<1>2. Types /\ Alone /\ [Next]_vars => Kept
  <2> SUFFICES ASSUME Types, Alone, [Next]_vars, out' # out PROVE Kept
    OBVIOUS
  <2>1. PICK r \in Runs : WriteOpens(r) \/ WriteCloses(r)
    BY DEF Next, PeopleStep, Edit, FitStarts, FitWrites, Freeze, FreezeScored, Score,
       RunStep, Start, CheckFreeze, CheckOut, ReadModels, ReadData, Refuse,
       NoteHashes, Crash, vars
  <2>2. out'.by = r /\ run[r].at \in Cleared
    <3>1. CASE WriteOpens(r)
      BY <3>1 DEF WriteOpens, Cleared
    <3>2. CASE WriteCloses(r)
      <4>1. PICK whole \in BOOLEAN : out' = [by |-> r, whole |-> whole]
        BY <3>2, Zenon DEF WriteCloses
      <4> QED
        BY <3>2, <4>1 DEF WriteCloses, Cleared
    <3> QED
      BY <2>1, <3>1, <3>2
  <2> QED
    BY <2>2 DEF Alone
<1>3. Types /\ Alone /\ [Next]_vars => [Kept]_vars
  BY <1>2
<1>4. Types /\ Alone /\ [Next]_vars => Alone'
  BY AloneStep
<1> QED
  BY <1>1, <1>3, <1>4, TypesInit, TypesStep, PTL DEF Spec, SingleResult

-----------------------------------------------------------------------------
(* The models of a result.                                                 *)
LEMMA UnfittedPeople ==
  ASSUME Types, Unfitted, PeopleStep
  PROVE  Unfitted'
<1> USE DEF Unfitted, Live, Reading, Computed
<1>1. UNCHANGED <<design, run, out>> /\ \A r \in Runs : watch[r] \subseteq watch'[r]
  BY PeopleFields
<1>2. CASE UNCHANGED <<models, fit>>
  BY <1>1, <1>2
<1>3. CASE FitStarts
  <2>1. UNCHANGED <<models, design>> /\ (design = "v8" \/ out = NoFile)
    BY <1>3 DEF FitStarts, files, MayFit
  <2>2. \A r \in Runs : Live(r) => "fit" \in watch'[r]
    BY <1>3 DEF FitStarts, Witness, Types
  <2> QED
    BY <1>1, <2>1, <2>2
<1>4. CASE FitWrites
  <2>1. fit # NoFile /\ fit' = NoFile
    BY <1>4 DEF FitWrites
  <2> QED
    BY <1>1, <2>1
<1> QED
  BY <1>2, <1>3, <1>4 DEF PeopleStep, Edit, Freeze, FreezeScored, Score

LEMMA UnfittedRun ==
  ASSUME Types, Unfitted, NEW r \in Runs, RunStep(r)
  PROVE  Unfitted'
<1> USE DEF Unfitted, Live, Reading, Computed
<1>0. UNCHANGED <<design, models, fit>>
  BY DEF RunStep, Start, CheckFreeze, CheckOut, ReadModels, ReadData, Refuse,
     NoteHashes, WriteOpens, WriteCloses, Crash, files
<1>1. CASE Start(r)
  <2>1. /\ \A q \in Runs : q # r => watch[q] \subseteq watch'[q]
        /\ fit # NoFile => "fit" \in watch'[r]
        /\ out' = out /\ run[r].at = "idle"
    BY <1>1 DEF Start, Types
  <2>2. Others(r) /\ run'[r].at = "started"
    BY <1>1, StartFields
  <2>3. out # NoFile => out.by \in Runs
    BY DEF Types, TypeOK
  <2> QED
    BY <1>0, <2>1, <2>2, <2>3 DEF Others
<1>2. ASSUME NEW to \in {"checked", "cleared"}, Go(r, to), Live(r), run[r].at # "writing",
             UNCHANGED <<out, watch>>
      PROVE  Unfitted'
  <2>1. out # NoFile => out.by \in Runs
    BY DEF Types, TypeOK
  <2> QED
    BY <1>0, <1>2, <2>1, GoFields DEF Others
<1>3. CASE CheckFreeze(r)
  BY <1>2, <1>3 DEF CheckFreeze
<1>4. CASE CheckOut(r)
  BY <1>2, <1>4 DEF CheckOut
<1>5. CASE ReadModels(r)
  <2>1. run[r].at = "cleared" /\ UNCHANGED <<out, watch>>
    BY <1>5 DEF ReadModels
  <2>2. out # NoFile => out.by \in Runs
    BY DEF Types, TypeOK
  <2> QED
    BY <1>0, <1>5, <2>1, <2>2, ReadModelsFields DEF Others
<1>6. CASE ReadData(r)
  <2>1. run[r].at = "modelled" /\ UNCHANGED <<out, watch>>
    BY <1>6 DEF ReadData
  <2>2. out # NoFile => out.by \in Runs
    BY DEF Types, TypeOK
  <2> QED
    BY <1>0, <1>6, <2>1, <2>2, ReadDataFields DEF Others
<1>7. ASSUME Stop(r), out' = out, run[r].at # "ended" PROVE Unfitted'
  <2>1. \A q \in Runs : q # r => watch'[q] = watch[q]
    BY <1>7 DEF Stop, Types
  <2>2. out # NoFile => out.by \in Runs
    BY DEF Types, TypeOK
  <2> QED
    BY <1>0, <1>7, <2>1, <2>2, StopFields DEF Others
<1>8. CASE NoteHashes(r)
  <2>1. run[r].at = "read" /\ UNCHANGED <<out, watch>>
    BY <1>8 DEF NoteHashes
  <2>2. out # NoFile => out.by \in Runs
    BY DEF Types, TypeOK
  <2> QED
    BY <1>0, <1>8, <2>1, <2>2, NoteFields DEF Others
<1>9. CASE WriteOpens(r)
  <2>1. out' = [by |-> r, whole |-> FALSE] /\ Go(r, "writing") /\ run[r].at = "noted"
        /\ watch' = watch
    BY <1>9 DEF WriteOpens
  <2>2. out' # NoFile /\ ~out'.whole
    <3>1. out' \in [by : Runs, whole : BOOLEAN]
      BY <2>1
    <3> QED
      BY <2>1, <3>1, FrozenAssumption
  <2> QED
    BY <1>0, <2>1, <2>2, GoFields DEF Others
<1>10. CASE WriteCloses(r)
  <2>1. PICK whole \in BOOLEAN : out' = [by |-> r, whole |-> whole]
    BY <1>10, Zenon DEF WriteCloses
  <2>2. out' # NoFile /\ out'.by = r
    <3>1. out' \in [by : Runs, whole : BOOLEAN]
      BY <2>1
    <3> QED
      BY <2>1, <3>1, FrozenAssumption
  <2>3. Go(r, "ended") /\ run[r].at = "writing" /\ watch' = watch
    BY <1>10 DEF WriteCloses
  <2> QED
    BY <1>0, <2>2, <2>3, GoFields DEF Others
<1> QED
  BY <1>1, <1>3, <1>4, <1>5, <1>6, <1>7, <1>8, <1>9, <1>10
     DEF RunStep, Refuse, Crash

(* The models on disk stay those of a v9 or v10 result, unless a fit was   *)
(* under way around the run that wrote it.                                 *)
THEOREM ModelsOfResult == Spec => []ModelsStand
<1>1. Init => Unfitted
  <2>1. Init => (\A r \in Runs : run[r].at = "idle") /\ out = NoFile
    BY DEF Init, Idle
  <2> QED
    BY <2>1 DEF Unfitted, Live, Reading, Computed
<1>2. Types /\ Unfitted /\ [Next]_vars => Unfitted'
  <2>1. ASSUME Unfitted, UNCHANGED vars PROVE Unfitted'
    BY <2>1 DEF Unfitted, Live, vars, files
  <2> QED
    BY <2>1, UnfittedPeople, UnfittedRun DEF Next
<1>3. Types /\ Unfitted => ModelsStand
  BY DEF Types, TypeOK, Unfitted, ModelsStand
<1> QED
  BY <1>1, <1>2, <1>3, TypesInit, TypesStep, PTL DEF Spec

-----------------------------------------------------------------------------
(* What is pinned and what is used.                                        *)
LEMMA PinnedPeople ==
  ASSUME Types, Undisturbed, PinnedUsed, PeopleStep
  PROVE  Undisturbed' /\ PinnedUsed'
<1>1. UNCHANGED <<design, run, out, pinned>>
      /\ \A r \in Runs : watch[r] \subseteq watch'[r]
  BY PeopleFields
<1>2. CASE Changing
  <2>1. \A r \in Runs : run[r].at \in Reading => "change" \in watch'[r]
    BY <1>2 DEF Changing, Witness, Types
  <2>2. Undisturbed'
    BY <1>1, <2>1 DEF Undisturbed, Reading
  <2>3. PinnedUsed'
    BY <1>1 DEF PinnedUsed
  <2> QED
    BY <2>2, <2>3
<1>3. CASE FitStarts
  <2>1. UNCHANGED files
    BY <1>3 DEF FitStarts
  <2>2. Undisturbed'
    BY <1>1, <2>1 DEF files, Undisturbed, Pinned, Compared
  <2>3. PinnedUsed'
    BY <1>1 DEF PinnedUsed
  <2> QED
    BY <2>2, <2>3
<1> QED
  BY <1>2, <1>3 DEF PeopleStep, Edit, FitWrites, Freeze, FreezeScored, Score

LEMMA PinnedRun ==
  ASSUME Types, Undisturbed, PinnedUsed, NEW r \in Runs, RunStep(r)
  PROVE  Undisturbed' /\ PinnedUsed'
<1> USE DEF Undisturbed, PinnedUsed, Pinned, Reading, Computed
<1>0. UNCHANGED <<design, files>> /\ Compared' = Compared
  BY DEF RunStep, Start, CheckFreeze, CheckOut, ReadModels, ReadData, Refuse,
     NoteHashes, WriteOpens, WriteCloses, Crash, Compared
<1>1. /\ "script" \in Compared
      /\ design = "v10" => "pairs" \in Compared
  BY DEF Compared
<1>2. CASE Start(r)
  <2>1. (\A q \in Runs : q # r => watch[q] \subseteq watch'[q]) /\ pinned' = pinned
    BY <1>2 DEF Start, Types
  <2> QED
    BY <1>0, <1>2, <2>1, StartFields DEF Others, files
<1>3. CASE CheckFreeze(r)
  <2>1. Go(r, "checked") /\ run[r].at = "started" /\ watch' = watch /\ freeze \in Pins
    BY <1>3 DEF CheckFreeze, Accepted, Types, TypeOK
  <2>2. \A q \in Runs : q # r => pinned'[q] = pinned[q]
    BY <1>3 DEF CheckFreeze, Types
  <2> DEFINE held == IF design = "v10" THEN [freeze EXCEPT !.scored = scoredFreeze]
                                       ELSE freeze
  <2>3. pinned'[r] = held
    BY <1>3 DEF CheckFreeze, Types
  <2>4. /\ held \in Pins /\ held.source = freeze.source /\ held.models = freeze.models
        /\ design = "v10" => held.scored = scoredFreeze
        /\ design # "v10" => held.scored = freeze.scored
    BY <2>1 DEF Pins, Types, TypeOK
  <2>5. /\ \A s \in Compared : held.source[s] = file[s]
        /\ design # "v8" => held.models = models /\ held.scored = scored
    BY <1>3, <2>4 DEF CheckFreeze, Accepted, Types, TypeOK, Designs
  <2> HIDE DEF held
  <2> QED
    BY <1>0, <2>1, <2>2, <2>3, <2>4, <2>5, GoFields DEF Others, files
<1>4. ASSUME NEW to \in {"cleared", "writing", "ended"}, Go(r, to),
             to = "cleared" => run[r].at = "checked",
             to # "cleared" => run[r].at \in {"noted", "writing"},
             UNCHANGED <<pinned, watch>>
      PROVE  Undisturbed' /\ PinnedUsed'
  BY <1>0, <1>4, GoFields DEF Others, files
<1>5. CASE CheckOut(r)
  BY <1>4, <1>5 DEF CheckOut
<1>6. CASE ReadModels(r)
  <2>1. run[r].at = "cleared" /\ UNCHANGED <<pinned, watch>>
    BY <1>6 DEF ReadModels
  <2> QED
    BY <1>0, <1>6, <2>1, ReadModelsFields DEF Others, files
<1>7. CASE ReadData(r)
  <2>1. run[r].at = "modelled" /\ UNCHANGED <<pinned, watch>>
    BY <1>7 DEF ReadData
  <2> QED
    BY <1>0, <1>1, <1>7, <2>1, ReadDataFields DEF Others, files
<1>8. ASSUME Stop(r) PROVE Undisturbed' /\ PinnedUsed'
  <2>1. \A q \in Runs : q # r => watch'[q] = watch[q] /\ pinned'[q] = pinned[q]
    BY <1>8 DEF Stop, Types
  <2> QED
    BY <1>0, <1>8, <2>1, StopFields DEF Others, files
<1>9. CASE NoteHashes(r)
  <2>1. run[r].at = "read" /\ UNCHANGED <<pinned, watch>>
    BY <1>9 DEF NoteHashes
  <2> QED
    BY <1>0, <1>9, <2>1, NoteFields DEF Others, files
<1>10. CASE WriteOpens(r)
  BY <1>4, <1>10 DEF WriteOpens
<1>11. CASE WriteCloses(r)
  BY <1>4, <1>11 DEF WriteCloses
<1> QED
  BY <1>2, <1>3, <1>5, <1>6, <1>7, <1>8, <1>9, <1>10, <1>11 DEF RunStep, Refuse, Crash

(* A run that nobody disturbed while it read has used what is pinned.      *)
THEOREM PinnedIsUsed == Spec => []PinnedUsed
<1>1. Init => Undisturbed /\ PinnedUsed
  <2>1. Init => \A r \in Runs : run[r].at = "idle"
    BY DEF Init, Idle
  <2> QED
    BY <2>1 DEF Undisturbed, PinnedUsed, Reading, Computed
<1>2. Types /\ Undisturbed /\ PinnedUsed /\ [Next]_vars => Undisturbed' /\ PinnedUsed'
  <2>1. ASSUME Undisturbed, PinnedUsed, UNCHANGED vars PROVE Undisturbed' /\ PinnedUsed'
    BY <2>1 DEF Undisturbed, PinnedUsed, Pinned, Compared, vars, files
  <2> QED
    BY <2>1, PinnedPeople, PinnedRun DEF Next
<1> QED
  BY <1>1, <1>2, TypesInit, TypesStep, PTL DEF Spec

-----------------------------------------------------------------------------
(* What a result can be checked against.                                   *)
LEMMA NewerOrder ==
  /\ \A m \in ModelFiles : Newer(m, m)
  /\ \A m, n, o \in ModelFiles \cup {NoFile} :
       Newer(m, n) /\ Newer(n, o) => Newer(m, o)
  /\ \A m, n \in ModelFiles \cup {NoFile} : Newer(m, n) /\ Newer(n, m) => m = n
<1>1. \A m \in ModelFiles : m # NoFile /\ \A s \in Trained : m[s] \in Nat
  BY FrozenAssumption DEF ModelFiles
<1>2. \A m, n \in ModelFiles : (\A s \in Trained : m[s] = n[s]) => m = n
  BY DEF ModelFiles
<1> QED
  BY <1>1, <1>2 DEF Newer

LEMMA LaterOrder ==
  /\ \A m \in ScoredFiles : Later(m, m)
  /\ \A m, n, o \in ScoredFiles \cup {NoFile} :
       Later(m, n) /\ Later(n, o) => Later(m, o)
  /\ \A m, n \in ScoredFiles \cup {NoFile} : Later(m, n) /\ Later(n, m) => m = n
<1>1. \A m \in ScoredFiles : m # NoFile /\ m \in Nat
  BY FrozenAssumption DEF ScoredFiles
<1> QED
  BY <1>1 DEF Later

LEMMA RecordTypes ==
  ASSUME Types, NEW r \in Runs
  PROVE  /\ run[r].used.models \in ModelFiles \cup {NoFile}
         /\ run[r].noted.models \in ModelFiles \cup {NoFile}
         /\ run[r].used.scored \in ScoredFiles \cup {NoFile}
         /\ run[r].noted.scored \in ScoredFiles \cup {NoFile}
<1>1. run[r] \in RunRecords
  BY DEF Types
<1> QED
  BY <1>1 DEF RunRecords, Inputs

LEMMA FittedGrows ==
  ASSUME Types, FilesInOrder, PeopleStep
  PROVE  /\ FilesInOrder'
         /\ models # NoFile => Newer(models, models')
         /\ scored # NoFile => Later(scored, scored')
<1>0. /\ Fitted \in ModelFiles
      /\ models \in ModelFiles \cup {NoFile} /\ fit \in ModelFiles \cup {NoFile}
      /\ scored \in ScoredFiles \cup {NoFile}
  BY DEF Types, TypeOK, Fitted, ModelFiles, Trained, Sources
<1> USE DEF FilesInOrder
<1>1. ASSUME NEW s \in Sources, Edit(s)
      PROVE  UNCHANGED <<models, fit, scored>> /\ Newer(Fitted, Fitted')
             /\ Fitted' \in ModelFiles /\ count'.scorings = count.scorings
  <2>1. /\ file' = [file EXCEPT ![s] = @ + 1]
        /\ count' = [count EXCEPT !.edits = @ + 1]
        /\ UNCHANGED <<models, fit, scored>>
    BY <1>1 DEF Edit
  <2>2. Fitted' \in ModelFiles
    BY <1>1, TypesEdit DEF Types, TypeOK, Fitted, ModelFiles, Trained, Sources
  <2>3. \A x \in Sources : file[x] \in Nat /\ file'[x] \in Nat /\ file[x] <= file'[x]
    BY <2>1 DEF Types, TypeOK
  <2>4. Fitted # NoFile /\ Fitted' # NoFile
    BY <1>0, <2>2, FrozenAssumption DEF ModelFiles
  <2>5. Newer(Fitted, Fitted')
    BY <2>3, <2>4 DEF Newer, Fitted, Trained, Sources
  <2> QED
    BY <2>1, <2>2, <2>5 DEF Types, TypeOK
<1>2. ASSUME NEW s \in Sources, Edit(s)
      PROVE  /\ FilesInOrder'
             /\ models # NoFile => Newer(models, models')
             /\ scored # NoFile => Later(scored, scored')
  <2>1. /\ UNCHANGED <<models, fit, scored>> /\ Newer(Fitted, Fitted')
        /\ Fitted' \in ModelFiles /\ count'.scorings = count.scorings
    BY <1>1, <1>2
  <2> QED
    BY <1>0, <2>1, NewerOrder, LaterOrder
<1>3. CASE FitStarts
  <2>1. fit' = Fitted /\ UNCHANGED <<models, scored, file>>
        /\ count'.scorings = count.scorings
    BY <1>3 DEF FitStarts, files, Types, TypeOK
  <2>2. Fitted' = Fitted
    BY <2>1 DEF Fitted
  <2> QED
    BY <1>0, <2>1, <2>2, NewerOrder, LaterOrder
<1>4. CASE FitWrites
  <2>1. fit # NoFile /\ models' = fit /\ fit' = NoFile /\ UNCHANGED <<scored, file, count>>
    BY <1>4 DEF FitWrites
  <2>2. Fitted' = Fitted
    BY <2>1 DEF Fitted
  <2> QED
    BY <1>0, <2>1, <2>2, NewerOrder, LaterOrder
<1>5. ASSUME UNCHANGED <<models, fit, scored, file>>, count'.scorings = count.scorings
      PROVE  /\ FilesInOrder'
             /\ models # NoFile => Newer(models, models')
             /\ scored # NoFile => Later(scored, scored')
  <2>1. Fitted' = Fitted
    BY <1>5 DEF Fitted
  <2> QED
    BY <1>0, <1>5, <2>1, NewerOrder, LaterOrder
<1>6. CASE Freeze
  BY <1>5, <1>6 DEF Freeze, Types, TypeOK
<1>7. CASE FreezeScored
  BY <1>5, <1>7 DEF FreezeScored
<1>8. CASE Score
  <2>1. /\ scored' = count.scorings + 1 /\ count'.scorings = count.scorings + 1
        /\ UNCHANGED <<models, fit, file>>
        /\ count.scorings \in Nat /\ count.scorings < MaxScorings
    BY <1>8, FrozenAssumption DEF Score, Types, TypeOK
  <2>2. Fitted' = Fitted
    BY <2>1 DEF Fitted
  <2>3. scored' \in ScoredFiles /\ scored' # NoFile
    BY <2>1, FrozenAssumption DEF ScoredFiles
  <2>4. scored # NoFile => Later(scored, scored')
    BY <1>0, <2>1, <2>3 DEF Later, ScoredFiles
  <2> QED
    BY <1>0, <2>1, <2>2, <2>4, NewerOrder
<1> QED
  BY <1>2, <1>3, <1>4, <1>6, <1>7, <1>8 DEF PeopleStep

LEMMA OrderedPeople ==
  ASSUME Types, Ordered, PeopleStep
  PROVE  Ordered'
<1>1. /\ UNCHANGED <<design, run, pinned>>
      /\ models \in ModelFiles \cup {NoFile} /\ models' \in ModelFiles \cup {NoFile}
      /\ scored \in ScoredFiles \cup {NoFile} /\ scored' \in ScoredFiles \cup {NoFile}
  BY TypesPeople, PeopleFields DEF Types, TypeOK
<1>2. /\ FilesInOrder'
      /\ models # NoFile => Newer(models, models')
      /\ scored # NoFile => Later(scored, scored')
  BY FittedGrows DEF Ordered
<1>3. ASSUME NEW r \in Runs, design = "v9" PROVE InOrder(r)'
  <2>1. InOrder(r)
    BY <1>3 DEF Ordered
  <2>3. ASSUME NEW m \in ModelFiles \cup {NoFile}, Newer(m, models) PROVE Newer(m, models')
    BY <1>1, <1>2, <2>3, NewerOrder DEF Newer
  <2>4. ASSUME NEW n \in ScoredFiles \cup {NoFile}, Later(n, scored) PROVE Later(n, scored')
    BY <1>1, <1>2, <2>4, LaterOrder DEF Later
  <2>5. pinned[r] \in Pins => /\ pinned[r].models \in ModelFiles \cup {NoFile}
                             /\ pinned[r].scored \in ScoredFiles \cup {NoFile}
    BY DEF Pins
  <2>6. UNCHANGED <<run[r], pinned[r]>>
    BY <1>1
  <2>7. CASE run[r].at \in {"checked", "cleared", "modelled"}
    BY <2>1, <2>3, <2>4, <2>5, <2>6, <2>7, RecordTypes DEF InOrder, Reading, Computed
  <2>8. CASE run[r].at \in Computed
    BY <2>1, <2>3, <2>4, <2>6, <2>8, RecordTypes DEF InOrder, Reading, Computed
  <2>9. CASE run[r].at \notin {"checked", "cleared", "modelled"} \cup Computed
    BY <2>6, <2>9 DEF InOrder, Reading, Computed
  <2> QED
    BY <2>7, <2>8, <2>9
<1> QED
  BY <1>1, <1>2, <1>3 DEF Ordered

LEMMA OrderedRun ==
  ASSUME Types, Ordered, NEW r \in Runs, RunStep(r)
  PROVE  Ordered'
<1>1. UNCHANGED <<design, files, fit, count>>
  BY DEF RunStep, Start, CheckFreeze, CheckOut, ReadModels, ReadData, Refuse,
     NoteHashes, WriteOpens, WriteCloses, Crash
<1>2. FilesInOrder'
  BY <1>1 DEF Ordered, FilesInOrder, files, Fitted
<1>3. ASSUME NEW q \in Runs, q # r, run'[q] = run[q], pinned'[q] = pinned[q],
             design = "v9"
      PROVE  InOrder(q)'
  <2>1. InOrder(q)
    BY <1>3 DEF Ordered
  <2> QED
    BY <1>1, <1>3, <2>1 DEF InOrder, files
<1> SUFFICES ASSUME design = "v9"
             PROVE  /\ \A q \in Runs : q # r => run'[q] = run[q] /\ pinned'[q] = pinned[q]
                    /\ InOrder(r)'
  BY <1>1, <1>2, <1>3 DEF Ordered
<1> DEFINE Rest == \A q \in Runs : q # r => run'[q] = run[q] /\ pinned'[q] = pinned[q]
<1>4. InOrder(r) /\ (models # NoFile => Newer(models, models))
      /\ (scored # NoFile => Later(scored, scored))
  BY NewerOrder, LaterOrder DEF Ordered, Types, TypeOK
<1> USE <1>1, <1>4 DEF InOrder, Reading, Computed, files
<1>5. CASE Start(r)
  BY <1>5, StartFields DEF Start, Others
<1>6. CASE CheckFreeze(r)
  <2>1. Go(r, "checked") /\ freeze \in Pins
        /\ models # NoFile /\ freeze.models = models
        /\ scored # NoFile /\ freeze.scored = scored
    BY <1>6 DEF CheckFreeze, Accepted, Types, TypeOK
  <2>2. pinned'[r] = freeze /\ \A q \in Runs : q # r => pinned'[q] = pinned[q]
    BY <1>6 DEF CheckFreeze, Types
  <2> QED
    BY <2>1, <2>2, GoFields DEF Others
<1>7. ASSUME NEW to \in {"cleared", "writing", "ended"}, Go(r, to), pinned' = pinned,
             to = "cleared" => run[r].at = "checked",
             to # "cleared" => run[r].at \in {"noted", "writing"}
      PROVE  Rest /\ InOrder(r)'
  BY <1>7, GoFields DEF Others
<1>8. CASE CheckOut(r)
  BY <1>7, <1>8 DEF CheckOut
<1>9. CASE ReadModels(r)
  <2>1. run[r].at = "cleared" /\ models # NoFile /\ pinned' = pinned
    BY <1>9 DEF ReadModels
  <2> QED
    BY <1>9, <2>1, ReadModelsFields DEF Others
<1>10. CASE ReadData(r)
  <2>1. run[r].at = "modelled" /\ scored # NoFile /\ pinned' = pinned
    BY <1>10 DEF ReadData
  <2> QED
    BY <1>10, <2>1, ReadDataFields DEF Others
<1>11. ASSUME Stop(r) PROVE Rest /\ InOrder(r)'
  BY <1>11, StopFields DEF Stop, Others, Types
<1>12. CASE NoteHashes(r)
  <2>1. run[r].at = "read" /\ pinned' = pinned
    BY <1>12 DEF NoteHashes
  <2> QED
    BY <1>12, <2>1, NoteFields DEF Others
<1>13. CASE WriteOpens(r)
  BY <1>7, <1>13 DEF WriteOpens
<1>14. CASE WriteCloses(r)
  BY <1>7, <1>14 DEF WriteCloses
<1> QED
  BY <1>5, <1>6, <1>8, <1>9, <1>10, <1>11, <1>12, <1>13, <1>14 DEF RunStep, Refuse, Crash

(* Whatever changes while a v9 run goes on, its models and its scored file *)
(* are the pinned ones if the hashes it records are.                       *)
THEOREM AuditableResult == Spec => []ResultAuditable
<1>1. Init => Ordered
  <2> SUFFICES ASSUME Init PROVE Ordered
    OBVIOUS
  <2>1. \A r \in Runs : run[r].at = "idle"
    BY DEF Init, Idle
  <2>2. fit = NoFile /\ models = NoFile /\ scored = NoFile
    BY DEF Init
  <2> QED
    BY <2>1, <2>2 DEF Ordered, FilesInOrder, InOrder, Reading, Computed
<1>2. Types /\ Ordered /\ [Next]_vars => Ordered'
  <2>1. ASSUME Ordered, UNCHANGED vars PROVE Ordered'
    BY <2>1 DEF Ordered, FilesInOrder, InOrder, Fitted, vars, files
  <2> QED
    BY <2>1, OrderedPeople, OrderedRun DEF Next
<1>3. Types /\ Ordered => ResultAuditable
  <2> SUFFICES ASSUME Types, Ordered, design = "v9", NEW r \in Runs,
                      run[r].at \in {"noted", "writing", "ended"}
               PROVE  /\ run[r].noted.models = pinned[r].models =>
                           run[r].used.models = pinned[r].models
                      /\ run[r].noted.scored = pinned[r].scored =>
                           run[r].used.scored = pinned[r].scored
    BY DEF ResultAuditable
  <2>1. InOrder(r) /\ run[r].at \in Computed
    BY DEF Ordered, Computed
  <2>2. /\ Newer(pinned[r].models, run[r].used.models)
        /\ Newer(run[r].used.models, run[r].noted.models)
        /\ Later(pinned[r].scored, run[r].used.scored)
        /\ Later(run[r].used.scored, run[r].noted.scored)
    BY <2>1 DEF InOrder
  <2> QED
    BY <2>2, NewerOrder, LaterOrder, RecordTypes
<1> QED
  BY <1>1, <1>2, <1>3, TypesInit, TypesStep, PTL DEF Spec
=============================================================================
