--------------------------- MODULE FrozenEvaluation ---------------------------
(***************************************************************************)
(* The frozen evaluations: experiments/final/evaluate_v8.py (run --split   *)
(* test), evaluate_v9.py (run --split val) and evaluate_v10.py (run), with *)
(* the stages that fit what they apply and the scripts that write the      *)
(* FREEZE file.  A run compares what it is about to use with the hashes of *)
(* the FREEZE file, refuses to start when there already is a result, reads *)
(* its inputs, and writes the result with write_text, which first empties  *)
(* the file.  There is no lock: people may edit, fit, freeze, score and    *)
(* start a second run meanwhile, and a run may be killed at any step.      *)
(*                                                                         *)
(* The content of a file is a version number; a hash is the content.       *)
(***************************************************************************)
EXTENDS Naturals, FiniteSets

CONSTANTS
  Runs,        \* processes `run', each started at most once
  MaxEdits,    \* bound: edits of the sources
  MaxFits,     \* bound: fits
  MaxScorings, \* bound: times a harness writes the scored file
  MaxFreezes,  \* bound: times the FREEZE file is written
  NoFile       \* a file that does not exist

Designs == {"v8", "v9", "v10"}

(* script    evaluate_vN.py (v10: and evaluate_v9, evaluate_v4_dev)        *)
(* scorer    extraction.py, the V6 genome, score_v6_experimental.py        *)
(* pairs     pairs_<split>.jsonl and the manifest                          *)
(* train     the scored file the models (v8: the threshold) come from      *)
(* rest      what else the FREEZE file holds hashes of: statistics.py,     *)
(*           fit_weights.py, the V5 genomes, the variant files ...         *)
Sources == {"script", "scorer", "pairs", "train", "rest"}
Trained == {"script", "train", "rest"}

ASSUME FrozenAssumption ==
  /\ MaxEdits \in Nat /\ MaxFits \in Nat
  /\ MaxScorings \in Nat /\ MaxFreezes \in Nat
  /\ NoFile \notin 1..MaxScorings
  /\ NoFile \notin [Trained -> 0..MaxEdits]
  /\ NoFile \notin [by : Runs, whole : BOOLEAN]

VARIABLES
  design,      \* which evaluation
  file,        \* the content of the sources
  models,      \* V9/V10_MODELS_FROZEN.json, THRESHOLD_V8_FROZEN.json
  fit,         \* the stage that writes models: where it is, what it loaded
  freeze,      \* FREEZE_V8_AMENDMENT1 / FREEZE_V9 / FREEZE_V10.json
  scored,      \* the scored pair file: NoFile or which writing it is
  scoredFreeze,\* FREEZE_V10_SCORED.json
  out,         \* the result: which run wrote it, is it whole
  run,         \* the processes: where each is and what it has read
  count,       \* edits, fits and freezes so far (for the bounds)
  \* history, read by no action
  pinned,      \* what the FREEZE files held when a run had checked them
  watch        \* what happened around a run: "change" of a file before it
               \* had read everything, a "fit" or another "run" meanwhile

files == <<file, models, freeze, scored, scoredFreeze>>
vars == <<design, files, fit, out, run, count, pinned, watch>>

-----------------------------------------------------------------------------
(* Contents.                                                               *)

ModelFiles == [Trained -> 0..MaxEdits]
Fitted == [s \in Trained |-> file[s]]

(* What a FREEZE file holds hashes of.                                     *)
ScoredFiles == 1..MaxScorings
Pins == [source : [Sources -> 0..MaxEdits], models : ModelFiles \cup {NoFile},
         scored : ScoredFiles \cup {NoFile}]
CurrentSlip == [source |-> file, models |-> models]     \* no scored file
Current == [source |-> file, models |-> models, scored |-> scored]

(* What a run has used: its code when it started, the rest when read; and  *)
(* the hashes of these files that it puts into the result.                 *)
Nothing == [script |-> 0, pairs |-> 0, models |-> NoFile, scored |-> NoFile]
Idle == [at |-> "idle", force |-> FALSE, used |-> Nothing, noted |-> Nothing]
Stopped == [Idle EXCEPT !.at = "stopped"]
Reading == {"started", "checked", "cleared", "modelled"}
Computed == {"read", "noted", "writing", "ended"}
Live(r) == run[r].at \in (Reading \cup Computed) \ {"ended"}

-----------------------------------------------------------------------------
(* Conditions.  A definition named ...Slip is a plausible programming      *)
(* error in the definition that follows it; no action uses it.             *)

(* The sources whose hashes the run compares with the FREEZE file.         *)
Compared ==                             \* v8 261, v9 247, v10 77-83
  IF design = "v10" THEN {"script", "scorer", "pairs"} ELSE {"script"}

AcceptedSlip ==                         \* FREEZE_V10_SCORED only need exist
  /\ freeze # NoFile
  /\ \A s \in Compared : freeze.source[s] = file[s]
  /\ design # "v8" => models # NoFile /\ freeze.models = models
  /\ design = "v9" => freeze.scored = scored
  /\ design = "v10" => scoredFreeze # NoFile /\ scored # NoFile
Accepted ==                             \* v8 258-262, v9 243-255, v10 72-89
  /\ freeze # NoFile
  /\ \A s \in Compared : freeze.source[s] = file[s]
  /\ design # "v8" => models # NoFile /\ freeze.models = models
  /\ design = "v9" => scored # NoFile /\ freeze.scored = scored
  /\ design = "v10" => scoredFreeze # NoFile /\ scoredFreeze = scored

MayWriteSlip(r) ==                      \* a torn result is no result
  IF out = NoFile THEN TRUE ELSE ~out.whole
MayWrite(r) ==                          \* v8 263, v9 256, v10 94
  out = NoFile \/ run[r].force

MayFitSlip == TRUE                      \* no check
MayFit == design = "v8" \/ out = NoFile  \* v9 286, v10 43; none in v8

(* The hashes of its inputs that the result records.                       *)
NotedSlip(r) ==                         \* copied from the FREEZE file
  [Nothing EXCEPT !.script = freeze.source["script"], !.pairs = freeze.source["pairs"],
                  !.models = freeze.models, !.scored = freeze.scored]
Noted(r) ==                             \* v8 273-278, v9 264-270; none in v10
  IF design = "v10" THEN Nothing
  ELSE [Nothing EXCEPT !.script = file["script"], !.pairs = file["pairs"],
                       !.models = models, !.scored = scored]

-----------------------------------------------------------------------------
Init ==
  /\ design \in Designs
  /\ file = [s \in Sources |-> 0]
  /\ models = NoFile
  /\ fit = NoFile
  /\ freeze = NoFile
  /\ scored = NoFile
  /\ scoredFreeze = NoFile
  /\ out = NoFile
  /\ run = [r \in Runs |-> Idle]
  /\ count = [edits |-> 0, fits |-> 0, scorings |-> 0, freezes |-> 0]
  /\ pinned = [r \in Runs |-> NoFile]
  /\ watch = [r \in Runs |-> {}]

Witness(stages, e) ==
  /\ watch' = [r \in Runs |-> IF run[r].at \in stages THEN watch[r] \cup {e}
                                                      ELSE watch[r]]
  /\ UNCHANGED pinned
Changing == Witness(Reading, "change")

Edit(s) ==                              \* somebody changes a source
  /\ count.edits < MaxEdits
  /\ file' = [file EXCEPT ![s] = @ + 1]
  /\ count' = [count EXCEPT !.edits = @ + 1]
  /\ Changing
  /\ UNCHANGED <<design, models, freeze, scored, scoredFreeze, fit, out, run>>

FitStarts ==                            \* v8 237-239, v9 285-289, v10 42-59
  /\ fit = NoFile
  /\ count.fits < MaxFits
  /\ MayFit
  /\ fit' = Fitted
  /\ count' = [count EXCEPT !.fits = @ + 1]
  /\ Witness((Reading \cup Computed) \ {"ended"}, "fit")
  /\ UNCHANGED <<design, files, out, run>>

FitWrites ==                            \* v8 251, v9 290-295, v10 60-64
  /\ fit # NoFile
  /\ models' = fit
  /\ fit' = NoFile
  /\ Changing
  /\ UNCHANGED <<design, file, freeze, scored, scoredFreeze, out, run, count>>

(* make_freeze_amendment1.py, make_freeze_v9.py: hashing a file that does  *)
(* not exist raises.  FREEZE_V10.json has no script in the repository.     *)
Freeze ==
  /\ count.freezes < MaxFreezes
  /\ design # "v8" => models # NoFile
  /\ design = "v9" => scored # NoFile
  /\ freeze' = Current
  /\ count' = [count EXCEPT !.freezes = @ + 1]
  /\ Changing
  /\ UNCHANGED <<design, file, models, scored, scoredFreeze, fit, out, run>>

(* FREEZE_V10_SCORED.json, "written after scoring"; once, by hand.         *)
FreezeScored ==
  /\ design = "v10"
  /\ scored # NoFile
  /\ scoredFreeze = NoFile
  /\ scoredFreeze' = scored
  /\ Changing
  /\ UNCHANGED <<design, file, models, freeze, scored, fit, out, run, count>>

(* A harness writes the scored pair file, as ScoredFile says.              *)
Score ==
  /\ count.scorings < MaxScorings
  /\ count' = [count EXCEPT !.scorings = @ + 1]
  /\ scored' = count.scorings + 1
  /\ Changing
  /\ UNCHANGED <<design, file, models, freeze, scoredFreeze, fit, out, run>>

(* A process that stops leaves nothing behind but what it has written.     *)
Go(r, to) == run' = [run EXCEPT ![r].at = to]
Stop(r) ==
  /\ run' = [run EXCEPT ![r] = Stopped]
  /\ watch' = [watch EXCEPT ![r] = IF out # NoFile /\ out.by = r THEN @ ELSE {}]
  /\ pinned' = [pinned EXCEPT ![r] = NoFile]

(* Python loads the script and what it imports.  --allow-overwrite-never-  *)
(* use exists in v8 only.                                                  *)
Start(r) ==                             \* v8 298-306, v9 299-307, v10 188-189
  /\ run[r].at = "idle"
  /\ \E force \in BOOLEAN :
       /\ force => design = "v8"
       /\ run' = [run EXCEPT ![r].at = "started", ![r].force = force,
                             ![r].used.script = file["script"]]
  /\ watch' = [q \in Runs |->
       IF q = r
       THEN (IF fit # NoFile THEN {"fit"} ELSE {})
            \cup (IF \E p \in Runs : Live(p) THEN {"run"} ELSE {})
       ELSE watch[q] \cup (IF Live(q) THEN {"run"} ELSE {})]
  /\ UNCHANGED <<design, files, fit, out, count, pinned>>

CheckFreeze(r) ==                       \* v8 258-262, v9 243-255, v10 93
  /\ run[r].at = "started"
  /\ Accepted
  /\ Go(r, "checked")
  /\ pinned' = [pinned EXCEPT ![r] =
                  IF design = "v10" THEN [freeze EXCEPT !.scored = scoredFreeze]
                                    ELSE freeze]
  /\ UNCHANGED <<design, files, fit, out, count, watch>>

CheckOut(r) ==                          \* v8 263-264, v9 256-257, v10 94-95
  /\ run[r].at = "checked"
  /\ MayWrite(r)
  /\ Go(r, "cleared")
  /\ UNCHANGED <<design, files, fit, out, count, pinned, watch>>

ReadModels(r) ==                        \* v8 265, v9 258, v10 96-97
  /\ run[r].at = "cleared"
  /\ models # NoFile
  /\ run' = [run EXCEPT ![r].at = "modelled", ![r].used.models = models]
  /\ UNCHANGED <<design, files, fit, out, count, pinned, watch>>

(* load_scored, load: the pair file and the scored rows.                   *)
ReadData(r) ==                          \* v8 266, v9 259, v10 98-117
  /\ run[r].at = "modelled"
  /\ scored # NoFile
  /\ run' = [run EXCEPT ![r].at = "read", ![r].used.pairs = file["pairs"],
                        ![r].used.scored = scored]
  /\ UNCHANGED <<design, files, fit, out, count, pinned, watch>>

(* SystemExit("REFUSED ..."), or the exception of reading no file.         *)
Refuse(r) ==
  /\ \/ run[r].at = "started" /\ ~Accepted
     \/ run[r].at = "checked" /\ ~MayWrite(r)
     \/ run[r].at = "cleared" /\ models = NoFile
     \/ run[r].at = "modelled" /\ scored = NoFile
  /\ Stop(r)
  /\ UNCHANGED <<design, files, fit, out, count>>

NoteHashes(r) ==                        \* v8 269-283, v9 260-270, v10 129-135
  /\ run[r].at = "read"
  /\ run' = [run EXCEPT ![r].at = "noted", ![r].noted = Noted(r)]
  /\ UNCHANGED <<design, files, fit, out, count, pinned, watch>>

WriteOpens(r) ==                        \* v8 288, v9 272, v10 178
  /\ run[r].at = "noted"
  /\ out' = [by |-> r, whole |-> FALSE]
  /\ Go(r, "writing")
  /\ UNCHANGED <<design, files, fit, count, pinned, watch>>

(* Over what another run has written meanwhile, which may be longer.       *)
WriteCloses(r) ==                       \* v8 288, v9 272, v10 178
  /\ run[r].at = "writing"
  /\ \E whole \in (IF out.by # r /\ out.whole THEN BOOLEAN ELSE {TRUE}) :
       out' = [by |-> r, whole |-> whole]
  /\ Go(r, "ended")
  /\ UNCHANGED <<design, files, fit, count, pinned, watch>>

Crash(r) ==
  /\ Live(r)
  /\ Stop(r)
  /\ UNCHANGED <<design, files, fit, out, count>>

RunStep(r) ==
  \/ Start(r)
  \/ CheckFreeze(r)
  \/ CheckOut(r)
  \/ ReadModels(r)
  \/ ReadData(r)
  \/ Refuse(r)
  \/ NoteHashes(r)
  \/ WriteOpens(r)
  \/ WriteCloses(r)
  \/ Crash(r)

PeopleStep ==
  \/ \E s \in Sources : Edit(s)
  \/ FitStarts
  \/ FitWrites
  \/ Freeze
  \/ FreezeScored
  \/ Score

Next == PeopleStep \/ \E r \in Runs : RunStep(r)

Spec == Init /\ [][Next]_vars

-----------------------------------------------------------------------------
(* Properties.                                                             *)

TypeOK ==
  /\ design \in Designs
  /\ file \in [Sources -> 0..MaxEdits]
  /\ models \in ModelFiles \cup {NoFile}
  /\ fit \in ModelFiles \cup {NoFile}
  /\ freeze \in Pins \cup {NoFile}
  /\ scored \in ScoredFiles \cup {NoFile}
  /\ scoredFreeze \in ScoredFiles \cup {NoFile}
  /\ out \in [by : Runs, whole : BOOLEAN] \cup {NoFile}
  /\ \A r \in Runs :
       /\ run[r].at \in Reading \cup Computed \cup {"idle", "stopped"}
       /\ run[r].force => design = "v8"
       /\ watch[r] \subseteq {"change", "fit", "run"}
  /\ count \in [edits : 0..MaxEdits, fits : 0..MaxFits,
               scorings : 0..MaxScorings, freezes : 0..MaxFreezes]

(* A run that nobody disturbed while it read has used the code, the pair   *)
(* file, the models and the scored file that the FREEZE files pin, as far  *)
(* as its design compares them (v8 pins its script alone).                 *)
PinnedUsed ==
  \A r \in Runs :
    run[r].at \in Computed /\ "change" \notin watch[r] =>
      LET used == run[r].used IN
      /\ used.script = pinned[r].source["script"]
      /\ design = "v10" => used.pairs = pinned[r].source["pairs"]
      /\ design # "v8" => used.models = pinned[r].models /\ used.scored = pinned[r].scored

(* Whatever changes while it runs, the models and the scored file of a v9  *)
(* result are the pinned ones if the hashes it records are: they are taken *)
(* after the files were read, as the check was made before (260-270).      *)
ResultAuditable ==
  \A r \in Runs :
    run[r].at \in {"noted", "writing", "ended"} /\ design = "v9" =>
      LET Agrees(used, f) == used[f] = pinned[r][f] IN
      \A f \in {"models", "scored"} : Agrees(run[r].noted, f) => Agrees(run[r].used, f)

(* "A single run": what a run has written, whole or torn by a crash, is    *)
(* replaced only by a run that was alive at the same time (neither holds a *)
(* lock) or that was told to.                                              *)
SingleResult ==
  [][out # NoFile /\ out' # out =>
       \/ out'.by = out.by
       \/ "run" \in watch[out'.by] \/ run[out'.by].force]_vars

(* In v9 and v10 the models on disk stay those of the result, unless a fit *)
(* was going on around the run: fit refuses once there is a result.        *)
ModelsStand ==
  out # NoFile /\ out.whole /\ design # "v8" /\ "fit" \notin watch[out.by]
    => models = run[out.by].used.models
=============================================================================
