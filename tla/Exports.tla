------------------------------- MODULE Exports -------------------------------
(***************************************************************************)
(* Export jobs: the worker that claims and runs them (export/job.rs), and  *)
(* the single-use link to the archive (export/repo.rs, export/routes.rs).  *)
(***************************************************************************)
EXTENDS Naturals, FiniteSets

CONSTANTS
    Job,                \* numbers, in order of creation
    Exporter,           \* worker replicas
    MaxExportFaults     \* bound: failed steps, lost answers and crashes

ASSUME ExportAssumption == Job \subseteq Nat \ {0} /\ MaxExportFaults \in Nat

VARIABLES
    export,             \* each row: status, and whether it has a link
    running,            \* each worker: its next step and its job
    archive,            \* archives in storage
    downloads,          \* history: archives handed out
    orphaned,           \* history: jobs whose worker died or could not write their end
    exportFaults

exportVars == <<export, running, archive, downloads, orphaned, exportFaults>>

Free == [does |-> "wait", job |-> 0]

ExportInit ==
    /\ export = [j \in Job |-> [status |-> "none", link |-> FALSE]]
    /\ running = [w \in Exporter |-> Free]
    /\ archive = {} /\ downloads = [j \in Job |-> 0] /\ orphaned = {}
    /\ exportFaults = 0

ExportFault == exportFaults < MaxExportFaults /\ exportFaults' = exportFaults + 1
Frees(w) == running' = [running EXCEPT ![w] = Free]

(* create_workspace_export and create_user_export *)
RequestExport(j) ==
    /\ export[j].status = "none"
    /\ \A i \in Job : i < j => export[i].status # "none"
    /\ export' = [export EXCEPT ![j].status = "pending"]
    /\ UNCHANGED <<running, archive, downloads, orphaned, exportFaults>>

(* Mutant: a job that runs is claimed as well. *)
MayRunAgain(j) == export[j].status \in {"pending", "running"}

(* claim_next, its WHERE *)
MayRun(j) == export[j].status = "pending"

(* claim_next: the oldest pending job becomes running *)
ClaimJob(w, j) ==
    /\ running[w] = Free /\ MayRun(j)
    /\ \A i \in Job : i < j => ~MayRun(i)
    /\ export' = [export EXCEPT ![j].status = "running"]
    /\ running' = [running EXCEPT ![w] = [does |-> "upload", job |-> j]]
    /\ UNCHANGED <<archive, downloads, orphaned, exportFaults>>

(* run: the rows, the archive and its upload *)
Upload(w) ==
    LET j == running[w].job IN
    /\ running[w].does = "upload"
    /\ \/ /\ archive' = archive \cup {j}
          /\ running' = [running EXCEPT ![w].does = "complete"]
          /\ UNCHANGED exportFaults
       \/ /\ ExportFault
          /\ running' = [running EXCEPT ![w].does = "fail"]
          /\ UNCHANGED archive
    /\ UNCHANGED <<export, downloads, orphaned>>

(* complete: the row and the link in one update.  The answer may be lost   *)
(* with the update done or not done.                                       *)
CompleteExport(w) ==
    LET j == running[w].job IN
    /\ running[w].does = "complete"
    /\ \/ /\ export' = [export EXCEPT ![j] = [status |-> "complete", link |-> TRUE]]
          /\ \/ Frees(w) /\ UNCHANGED exportFaults
             \/ running' = [running EXCEPT ![w].does = "fail"] /\ ExportFault
       \/ /\ ExportFault
          /\ running' = [running EXCEPT ![w].does = "fail"]
          /\ UNCHANGED export
    /\ UNCHANGED <<archive, downloads, orphaned>>

(* ExportRepo::fail, by id *)
FailedJob(j) == [export EXCEPT ![j].status = "failed"]

(* start_export_worker: the error of fail is dropped *)
FailExport(w) ==
    LET j == running[w].job IN
    /\ running[w].does = "fail"
    /\ \/ /\ export' = FailedJob(j)
          /\ UNCHANGED <<orphaned, exportFaults>>
       \/ /\ ExportFault
          /\ orphaned' = orphaned \cup {j}
          /\ UNCHANGED export
    /\ Frees(w)
    /\ UNCHANGED <<archive, downloads>>

ExporterDies(w) ==
    /\ running[w] # Free /\ ExportFault
    /\ orphaned' = orphaned \cup {running[w].job}
    /\ Frees(w)
    /\ UNCHANGED <<export, archive, downloads>>

(* claim_download, its SET *)
LinkTaken(j) == [export EXCEPT ![j].link = FALSE]

(* download: claim_download, then the archive from storage *)
Download(j) ==
    /\ export[j].link /\ export[j].status = "complete"
    /\ downloads[j] < 2
    /\ export' = LinkTaken(j)
    /\ downloads' = [downloads EXCEPT ![j] = @ + 1]
    /\ UNCHANGED <<running, archive, orphaned, exportFaults>>

LinkExpires(j) ==
    /\ export[j].link
    /\ export' = [export EXCEPT ![j].link = FALSE]
    /\ UNCHANGED <<running, archive, downloads, orphaned, exportFaults>>

ExportStep(w) ==
    Upload(w) \/ CompleteExport(w) \/ FailExport(w) \/ \E j \in Job : ClaimJob(w, j)

ExportNext ==
    \/ \E j \in Job : RequestExport(j) \/ Download(j) \/ LinkExpires(j)
    \/ \E w \in Exporter : ExportStep(w) \/ ExporterDies(w)

(* start_export_worker loops for ever. *)
ExportFairness == \A w \in Exporter : WF_exportVars(ExportStep(w))

-----------------------------------------------------------------------------
(* Every variable stays in its domain. *)
ExportTypeOK ==
    /\ export \in [Job -> [status : {"none", "pending", "running", "complete", "failed"},
                           link : BOOLEAN]]
    /\ running \in [Exporter -> [does : {"wait", "upload", "complete", "fail"},
                                 job : Job \cup {0}]]
    /\ archive \subseteq Job /\ downloads \in [Job -> Nat] /\ orphaned \subseteq Job
    /\ exportFaults \in 0..MaxExportFaults

(* "Two worker replicas cannot both run the same export", and a job that   *)
(* reads as running has its worker, unless that one died.                  *)
RunningHasItsWorker ==
    /\ \A j \in Job :
          Cardinality({w \in Exporter : running[w].job = j}) <= 1
    /\ \A j \in Job \ orphaned :
          export[j].status = "running" => \E w \in Exporter : running[w].job = j

(* "A download link works once", and it leads to an archive that is there. *)
LinkWorksOnce ==
    \A j \in Job : downloads[j] <= 1 /\ (export[j].link => j \in archive)

(* A job that was asked for is complete or failed in the end, unless its   *)
(* worker died: nothing takes it over.                                     *)
ExportSettles ==
    \A j \in Job :
        export[j].status = "pending" ~>
            export[j].status \in {"complete", "failed"} \/ j \in orphaned

(* A running export has its one worker, and the link to an archive works   *)
(* once.                                                                   *)
ExportSafety == ExportTypeOK /\ RunningHasItsWorker /\ LinkWorksOnce
=============================================================================
