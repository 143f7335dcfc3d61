------------------------------- MODULE Trainer -------------------------------
(***************************************************************************)
(* Training the click model (services/trainer): the exposure log a run     *)
(* reads, the split that holds the latest requests out, the grouped folds, *)
(* the gate that recommends, and the artifact written once.                *)
(* Request numbers follow the first exposure: they are version 7 UUIDs.    *)
(* StratifiedGroupKFold, external, may return any grouped folds.           *)
(* The second half is the registry the artifacts go to.                    *)
(***************************************************************************)
EXTENDS Integers, Sequences, FiniteSets, FiniteSetsExt, SequencesExt, Collections

CONSTANTS
    MIN_TOTAL_SAMPLES, MIN_SAMPLES_PER_CLASS, MIN_UNIQUE_REQUESTS, MIN_REQUESTS_PER_CLASS,
    MAX_REQUEST_SHARE,                      \* percent of the samples
    CV_FOLDS, MIN_FOLD_CLASS_SAMPLES,
    MIN_TEMPORAL_SAMPLES, MIN_TEMPORAL_CLASS_SAMPLES, MIN_TEMPORAL_GROUPS,
    TrainingRuns, Metrics,                  \* run identifiers; the eight compared metrics
    MaxSamples, MaxRequests                 \* bounds of the exposure log

ASSUME TrainerConstants ==
    /\ {MIN_TOTAL_SAMPLES, MIN_TEMPORAL_SAMPLES, MIN_TEMPORAL_GROUPS, MaxSamples} \subseteq Nat \ {0}
    /\ {MIN_SAMPLES_PER_CLASS, MIN_UNIQUE_REQUESTS, MIN_REQUESTS_PER_CLASS, MaxRequests,
        MIN_FOLD_CLASS_SAMPLES, MIN_TEMPORAL_CLASS_SAMPLES} \subseteq Nat
    /\ CV_FOLDS \in Nat /\ CV_FOLDS >= 2

VARIABLES exposures,    \* the training file, in order of exposure
          output        \* the artifact at the output path, NoArtifact before there is one

trainerVars == <<exposures, output>>
NoArtifact == [run |-> "none"]

-----------------------------------------------------------------------------
Requests(s) == {s[i].request : i \in DOMAIN s}
Of(s, request) == {i \in DOMAIN s : s[i].request = request}
Clicks(s, part) == {i \in part : s[i].clicked}
SmallerClass(s, part) ==
    LET clicks == Cardinality(Clicks(s, part)) IN Min({clicks, Cardinality(part) - clicks})

\* load_samples, of lines that parse.
Loads(s) ==
    /\ Len(s) >= MIN_TOTAL_SAMPLES
    /\ SmallerClass(s, DOMAIN s) >= Max({1, MIN_SAMPLES_PER_CLASS})
    /\ Cardinality(Requests(s)) >= MIN_UNIQUE_REQUESTS
    /\ \A r \in Requests(s) : Cardinality(Of(s, r)) * 100 <= MAX_REQUEST_SHARE * Len(s)
    /\ \A clicked \in BOOLEAN :
         Cardinality({s[i].request : i \in {j \in DOMAIN s : s[j].clicked = clicked}})
             >= MIN_REQUESTS_PER_CLASS

(* temporal_holdout_indices. *)
First(s, r) == Min({s[i].at : i \in Of(s, r)})
Latest(s, r) == Max({s[i].at : i \in Of(s, r)})
Earlier(s, a, b) ==
    \/ First(s, a) < First(s, b)
    \/ First(s, a) = First(s, b) /\ Latest(s, a) < Latest(s, b)
    \/ First(s, a) = First(s, b) /\ Latest(s, a) = Latest(s, b) /\ a < b
GroupRows(s) == InOrder(Requests(s), {p \in Requests(s) \X Requests(s) : Earlier(s, p[1], p[2])})
ComparesNeighbours(s, rows, i) == First(s, rows[i - 1]) # First(s, rows[i])
IsBoundary(s, rows, i) ==
    \A j \in 1..i - 1 : First(s, rows[j]) # First(s, rows[i]) /\ Latest(s, rows[j]) < First(s, rows[i])
Suffix(s, rows, i) == UNION {Of(s, rows[j]) : j \in i..Len(rows)}

\* How far a boundary leaves the holdout from a fifth of the samples, then of the requests.
Distance(whole, share) == IF 5 * share >= whole THEN 5 * share - whole ELSE whole - 5 * share
Closer(s, rows, i, j) ==
    LET size(k) == Cardinality(Suffix(s, rows, k))
        off(k) == Distance(Len(s), size(k))
        groups(k) == Distance(Len(rows), Len(rows) - k + 1) IN
    \/ off(i) < off(j)
    \/ off(i) = off(j) /\ groups(i) < groups(j)
    \/ off(i) = off(j) /\ groups(i) = groups(j) /\ size(i) > size(j)

\* The samples held out, none when the log cannot be split.
TemporalHoldout(s) ==
    LET rows == GroupRows(s)
        valid == {i \in 2..Len(rows) :
                    /\ Len(rows) >= MIN_TEMPORAL_GROUPS + 1 /\ IsBoundary(s, rows, i)
                    /\ Cardinality(Suffix(s, rows, i)) >= MIN_TEMPORAL_SAMPLES
                    /\ Len(rows) - i + 1 >= MIN_TEMPORAL_GROUPS
                    /\ SmallerClass(s, Suffix(s, rows, i)) >= MIN_TEMPORAL_CLASS_SAMPLES}
        best == {i \in valid : \A j \in valid : ~Closer(s, rows, j, i)} IN
    IF valid = {} THEN {} ELSE Suffix(s, rows, Min(best))

(* grouped_fold_indices: a fold tests some requests and trains on the others. *)
FoldsInto(requests) ==
    {f \in [requests -> 1..CV_FOLDS] : \A k \in 1..CV_FOLDS : \E r \in requests : f[r] = k}
FoldsBalanced(s, train, folds) ==
    \A k \in 1..CV_FOLDS :
        LET test == {i \in train : folds[s[i].request] = k} IN
        /\ SmallerClass(s, test) >= MIN_FOLD_CLASS_SAMPLES
        /\ SmallerClass(s, train \ test) >= MIN_FOLD_CLASS_SAMPLES

\* One metric below its threshold, or not better than its baseline, is enough.
GateRecommendation(failing) == IF failing = {} THEN "approve" ELSE "reject"

-----------------------------------------------------------------------------
TrainerInit == exposures = <<>> /\ output = NoArtifact

\* The log grows while no run has written its artifact.
Expose(request, later, clicked) ==
    LET now == IF exposures = <<>> THEN 0 ELSE Last(exposures).at IN
    /\ output = NoArtifact /\ Len(exposures) < MaxSamples
    /\ request \in 1..Min({MaxRequests, Max(Requests(exposures) \cup {0}) + 1})
    /\ exposures' = Append(exposures, [request |-> request, clicked |-> clicked,
                                       at |-> IF later THEN now + 1 ELSE now])
    /\ UNCHANGED output

\* write_immutable_artifact: another artifact at the path is a conflict, and
\* the rename leaves a whole file or none.
WriteImmutableArtifact(artifact) ==
    /\ output \in {NoArtifact, artifact} /\ output' = artifact

TrainModel(run) ==
    LET held == TemporalHoldout(exposures) IN
    LET train == DOMAIN exposures \ held IN
    /\ Loads(exposures) /\ held # {} /\ train # {}
    /\ Max({exposures[i].at : i \in train}) < Min({exposures[i].at : i \in held})
    /\ \E folds \in FoldsInto({exposures[i].request : i \in train}),
          failing \in {{}} \cup {{m} : m \in Metrics} :
         /\ FoldsBalanced(exposures, train, folds)
         /\ WriteImmutableArtifact(
              [run |-> run, status |-> "candidate",
               recommendation |-> GateRecommendation(failing)])
    /\ UNCHANGED exposures

TrainerNext ==
    \/ \E r \in 1..MaxRequests, later, clicked \in BOOLEAN : Expose(r, later, clicked)
    \/ \E run \in TrainingRuns : TrainModel(run)

TrainerSpec == TrainerInit /\ [][TrainerNext]_trainerVars

-----------------------------------------------------------------------------
(* Whatever was exposed, and in whatever order requests overlap, a split   *)
(* that is found separates past from future: every sample trained on is    *)
(* older than every sample held out, no request has samples on both sides, *)
(* and both classes are held out.  The code checks the overlap once more   *)
(* before it returns (train.py): that check can never fire.                *)
HoldoutFollowsTraining ==
    LET held == TemporalHoldout(exposures) IN
    held # {} =>
        /\ \A i \in DOMAIN exposures \ held, j \in held :
             exposures[i].at < exposures[j].at /\ exposures[i].request # exposures[j].request
        /\ SmallerClass(exposures, held) >= MIN_TEMPORAL_CLASS_SAMPLES

-----------------------------------------------------------------------------
(***************************************************************************)
(* The trainer's model registry (model_store.py): one file several         *)
(* processes read and write under a lock, content-addressed artifacts that *)
(* carry the reviewers' decision, one active version and its epoch, and    *)
(* the handles predictions go through.                                     *)
(* The lock makes each operation one step; a process may die inside it,    *)
(* after its artifact and before the registry.  An operator may restore an *)
(* older registry file, or lose an artifact.  A digest is its artifact.    *)
(***************************************************************************)

CONSTANTS
    Versions, Processes,
    Recommended,            \* run -> what its gate recommends
    Audits,                 \* decisions reviewers take: [outcome, reason, decision, reviewer]
    MaxEpoch                \* bound of the activations

ASSUME RegistryConstants ==
    /\ MaxEpoch \in Nat
    /\ \A a \in Audits : a.outcome \in {"approved", "rejected"}

VARIABLES
    file,       \* [epoch, models]: version -> [artifact, status], NoRecord if absent
    backup,     \* a copy of the file an operator has
    disk,       \* artifacts in the managed directory
    floor,      \* process -> _epoch_floor, the latest epoch it has read or written
    handle,     \* process -> the ActiveModel it holds
    predicted   \* process -> its last prediction since it started

registryVars == <<file, backup, disk, floor, handle, predicted>>

NoHandle == [epoch |-> 0]
NoAudit == [outcome |-> "none"]
Candidate(run) == [run |-> run, status |-> "candidate", audit |-> NoAudit]
NoRecord == [artifact |-> Candidate("none"), status |-> "absent"]

Active(models) == {v \in Versions : models[v].status = "active"}

-----------------------------------------------------------------------------
\* _validate_decision_audit, of a decision on a candidate.
ValidAudit(run, audit) ==
    LET recommended == IF Recommended[run] = "approve" THEN "approved" ELSE "rejected" IN
    /\ audit.decision # audit.reviewer
    /\ \/ audit.reason = "gate-recommendation-accepted" /\ audit.outcome = recommended
       \/ audit.reason = "gate-recommendation-overridden" /\ audit.outcome # recommended
       \/ audit.reason = "policy-review-approved" /\ audit.outcome = "approved"
       \/ audit.reason = "policy-review-rejected" /\ audit.outcome = "rejected"

\* _read_unlocked.  A missing file reads as the empty registry of epoch 0.
ReadsAnyEpoch(p) == TRUE
Readable(p) == file.epoch >= floor[p]

\* _validate_bound_artifact_unlocked.
Bound(record) ==
    /\ record.artifact \in disk
    /\ record.artifact.status =
         IF record.status \in {"candidate", "rejected"} THEN record.status ELSE "approved"

RegistryInit ==
    /\ file = [epoch |-> 0, models |-> [v \in Versions |-> NoRecord]] /\ backup = file
    /\ disk = {}
    /\ floor = [p \in Processes |-> 0]
    /\ handle = [p \in Processes |-> NoHandle] /\ predicted = handle

Forgets(p) ==
    /\ floor' = [floor EXCEPT ![p] = 0]
    /\ handle' = [handle EXCEPT ![p] = NoHandle]
    /\ predicted' = [predicted EXCEPT ![p] = NoHandle]

\* A successful read raises the floor; the file is replaced as a whole.
Reads(p) == floor' = [floor EXCEPT ![p] = IF Readable(p) THEN file.epoch ELSE floor[p]]
Write(p, models, epoch) ==
    /\ file' = [epoch |-> epoch, models |-> models] /\ floor' = [floor EXCEPT ![p] = epoch]
Record(p, version, artifact) ==
    /\ Write(p, [file.models EXCEPT ![version] = [artifact |-> artifact, status |-> artifact.status]],
             file.epoch)
    /\ UNCHANGED <<handle, predicted>>

\* register: the artifact is managed before the registry is read, so a
\* conflict or a death leaves it behind.
Register(p, version, artifact) ==
    LET fits == file.models[version] \in
                    {NoRecord, [artifact |-> artifact, status |-> artifact.status]} IN
    /\ disk' = disk \cup {artifact} /\ UNCHANGED backup
    /\ \/ Readable(p) /\ fits /\ Record(p, version, artifact)
       \/ (Readable(p) => ~fits) /\ Reads(p) /\ UNCHANGED <<file, handle, predicted>>
       \/ Forgets(p) /\ UNCHANGED file

\* decide: a decision already taken is returned again, another is refused;
\* either way only the floor moves.
Decide(p, version, audit) ==
    LET record == file.models[version] IN
    /\ Readable(p) /\ record # NoRecord /\ Bound(record)
    /\ ValidAudit(record.artifact.run, audit)
    /\ LET decided == [record.artifact EXCEPT !.status = audit.outcome, !.audit = audit] IN
       IF record.artifact.status = "candidate"
       THEN /\ disk' = disk \cup {decided} /\ UNCHANGED backup
            /\ \/ Record(p, version, decided)
               \/ Forgets(p) /\ UNCHANGED file
       ELSE Reads(p) /\ UNCHANGED <<file, backup, disk, handle, predicted>>

Activate(p, version) ==
    LET record == file.models[version] IN
    /\ Readable(p) /\ record.status \in {"approved", "active"} /\ Bound(record)
    /\ IF record.status = "active"
       THEN Reads(p) /\ UNCHANGED file
       ELSE /\ file.epoch < MaxEpoch
            /\ Write(p, [v \in Versions |->
                  IF v = version THEN [record EXCEPT !.status = "active"]
                  ELSE IF file.models[v].status = "active" THEN [file.models[v] EXCEPT !.status = "retired"]
                  ELSE file.models[v]], file.epoch + 1)
    /\ UNCHANGED <<backup, disk, handle, predicted>>

LoadActive(p) ==
    \E version \in Active(file.models) :
        LET record == file.models[version] IN
        /\ Readable(p) /\ Bound(record) /\ Reads(p)
        /\ handle' = [handle EXCEPT ![p] =
              [epoch |-> file.epoch, version |-> version, artifact |-> record.artifact]]
        /\ UNCHANGED <<file, backup, disk, predicted>>

\* predict_probability: the handle must still be what the registry has active.
PredictProbability(p) ==
    /\ handle[p] # NoHandle /\ Readable(p) /\ handle[p].epoch = file.epoch
    /\ LET record == file.models[handle[p].version] IN
       /\ record.status = "active" /\ record.artifact = handle[p].artifact /\ Bound(record)
       /\ predicted' = [predicted EXCEPT ![p] = [handle[p] EXCEPT !.artifact = record.artifact]]
    /\ Reads(p) /\ UNCHANGED <<file, backup, disk, handle>>

(* The environment. *)
RestartService(p) == Forgets(p) /\ UNCHANGED <<file, backup, disk>>
BackUp == backup' = file /\ UNCHANGED <<file, disk, floor, handle, predicted>>
Restore == file' = backup /\ UNCHANGED <<backup, disk, floor, handle, predicted>>
LoseArtifact(artifact) ==
    disk' = disk \ {artifact} /\ UNCHANGED <<file, backup, floor, handle, predicted>>

RegistryNext ==
    \/ \E p \in Processes :
         \/ \E v \in Versions :
              \/ \E artifact \in disk \cup {Candidate(r) : r \in DOMAIN Recommended} : Register(p, v, artifact)
              \/ \E audit \in Audits : Decide(p, v, audit)
              \/ Activate(p, v)
         \/ LoadActive(p) \/ PredictProbability(p) \/ RestartService(p)
    \/ \E artifact \in disk : LoseArtifact(artifact)
    \/ BackUp \/ Restore

RegistrySpec == RegistryInit /\ [][RegistryNext]_registryVars

-----------------------------------------------------------------------------
(* Whichever processes write, die and restart, and whatever older file is  *)
(* restored under them: a running process never predicts with a model of   *)
(* an older epoch than its last prediction, nor within an epoch with a     *)
(* version the registry has retired, and only with an artifact approved by *)
(* a decision that fits its gate.  The file never holds two active models. *)
OnlyReviewedModelsServe ==
    [][/\ Cardinality(Active(file'.models)) <= 1
       /\ (Active(file'.models) = {}) <=> (file'.epoch = 0)
       /\ \A p \in Processes :
            predicted'[p] \notin {NoHandle, predicted[p]} =>
                LET served == predicted'[p] IN
                /\ served.epoch >= predicted[p].epoch
                /\ Active(file.models) = {served.version}
                /\ served.artifact.audit.outcome = "approved"
                /\ ValidAudit(served.artifact.run, served.artifact.audit)]_registryVars
=============================================================================
