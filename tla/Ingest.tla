------------------------------- MODULE Ingest -------------------------------
(***************************************************************************)
(* Uploads: POST /ingest, the upload form of the Streamlit app, and the    *)
(* session that goes on to run what it uploaded.                           *)
(*                                                                         *)
(* An upload writes its three files one after the other into a directory   *)
(* of its own, whose name nobody is told before they all are there.        *)
(* Streamlit runs a session's script in one thread, which it may stop      *)
(* where the script calls it, when the user touches another widget.        *)
(***************************************************************************)
EXTENDS Naturals, FiniteSets

CONSTANTS
  ApiUploads,   \* requests to POST /ingest, each named by its dataset_id
  AppUploads,   \* uploads of the form, named by theirs
  Demo,         \* the dataset "demo"
  NoDataset,    \* a session_state without the key
  Payloads      \* what may be sent as the three files, see Contents

Files == 1..3    \* the bank statement, the settlement batch, the internal ledger

\* Over MAX_UPLOAD_BYTES, over MAX_ROWS, or neither; of these, what the loaders
\* cannot parse is found by a run only.
Contents == {"too_big", "too_long", "unparsable", "good"}
OverLimit == {"too_big", "too_long"}

ASSUME IngestAssumption ==
  /\ Payloads \subseteq [Files -> Contents]
  /\ ApiUploads \cap AppUploads = {}
  /\ {Demo, NoDataset} \cap (ApiUploads \cup AppUploads) = {} /\ Demo # NoDataset

VARIABLES
  payload,    \* what each upload sends as its three files
  disk,       \* how much of them is in its directory
  phase, pos, \* where an upload is, and at which file
  form, failed,     \* the upload of the form, and the form's flag
  recorded,   \* the uploads with an ingest event in the audit log
  script,     \* what the session's script does
  dataset, shown,   \* session_state: dataset_id, and the dataset of run_id
  halfSwitched      \* history: the script was stopped between two of its assignments

vars == <<payload, disk, phase, pos, form, failed, recorded, script, dataset, shown, halfSwitched>>

Uploads == ApiUploads \cup AppUploads
Phases == {"new", "open", "write", "check", "record", "answer", "answered", "rejected", "ended"}
Scripts == {"idle", "upload", "set_dataset", "pop_run", "count_rows", "reconcile", "set_run"}

Init ==
  /\ payload \in [Uploads -> Payloads]
  /\ disk = [u \in Uploads |-> [f \in Files |-> "absent"]]
  /\ phase = [u \in Uploads |-> "new"]
  /\ pos = [u \in Uploads |-> 1]
  /\ form = NoDataset /\ failed = FALSE
  /\ recorded = {}
  /\ script = "idle" /\ dataset = NoDataset /\ shown = NoDataset
  /\ halfSwitched = FALSE

Session == <<form, script, dataset, shown, halfSwitched>>

Goto(u, to) == phase' = [phase EXCEPT ![u] = to]
OnDisk(u, state) == disk' = [disk EXCEPT ![u][pos[u]] = state]
Content(u) == payload[u][pos[u]]

-----------------------------------------------------------------------------
(* One file after the other                                                *)

BeginIngest(u) ==
  /\ u \in ApiUploads /\ phase[u] = "new"
  /\ Goto(u, "open")
  /\ UNCHANGED <<payload, disk, pos, failed, recorded, Session>>

\* "Validate and use these files"
BeginForm(u) ==
  /\ u \in AppUploads /\ phase[u] = "new"
  /\ script = "idle" /\ script' = "upload"
  /\ Goto(u, "open")
  /\ form' = u /\ failed' = FALSE
  /\ UNCHANGED <<payload, disk, pos, recorded, dataset, shown, halfSwitched>>

OpenFile(u) ==
  /\ phase[u] = "open"
  /\ OnDisk(u, "part")
  /\ Goto(u, "write")
  /\ UNCHANGED <<payload, pos, failed, recorded, Session>>

\* Mutant: the flag tells of the last file only.
FileDoneLastOnly(u, ok) ==
  LET last == pos[u] = 3
  IN  /\ failed' = (IF u \in AppUploads THEN ~ok ELSE failed)
      /\ pos' = [pos EXCEPT ![u] = IF last THEN @ ELSE @ + 1]
      /\ Goto(u, CASE u \in ApiUploads /\ ~ok -> "rejected"
                   [] u \in ApiUploads /\ ok /\ last -> "record"
                   [] u \in AppUploads /\ last -> "ended"
                   [] OTHER -> "open")
      /\ script' = CASE u \in ApiUploads \/ ~last -> script
                     [] u \in AppUploads /\ last /\ failed' -> "idle"
                     [] OTHER -> "set_dataset"

\* ok: the file is within both limits.  The endpoint raises 413 at the first that is
\* not, the form shows an error and goes on with the next.
FileDone(u, ok) ==
  LET last == pos[u] = 3
  IN  /\ failed' = (failed \/ (u \in AppUploads /\ ~ok))
      /\ pos' = [pos EXCEPT ![u] = IF last THEN @ ELSE @ + 1]
      /\ Goto(u, CASE u \in ApiUploads /\ ~ok -> "rejected"
                   [] u \in ApiUploads /\ ok /\ last -> "record"
                   [] u \in AppUploads /\ last -> "ended"
                   [] OTHER -> "open")
      /\ script' = CASE u \in ApiUploads \/ ~last -> script
                     [] u \in AppUploads /\ last /\ failed' -> "idle"
                     [] OTHER -> "set_dataset"

\* stream_upload_to_file: a file over the byte limit is removed as soon as it is.
WriteFile(u) ==
  /\ phase[u] = "write"
  /\ IF Content(u) = "too_big"
       THEN OnDisk(u, "absent") /\ FileDone(u, FALSE)
       ELSE OnDisk(u, "whole") /\ Goto(u, "check") /\ UNCHANGED <<pos, failed, script>>
  /\ UNCHANGED <<payload, recorded, form, dataset, shown, halfSwitched>>

\* enforce_row_limit: only the endpoint removes a file with too many rows.
CheckRows(u) ==
  /\ phase[u] = "check"
  /\ IF Content(u) = "too_long"
       THEN /\ FileDone(u, FALSE)
            /\ IF u \in ApiUploads THEN OnDisk(u, "absent") ELSE UNCHANGED disk
       ELSE FileDone(u, TRUE) /\ UNCHANGED disk
  /\ UNCHANGED <<payload, recorded, form, dataset, shown, halfSwitched>>

\* The file system, or the log, fails: the endpoint answers 500, the script ends.
FailUpload(u) ==
  /\ phase[u] \in {"open", "write", "check", "record"}
  /\ Goto(u, "ended")
  /\ script' = IF u \in AppUploads THEN "idle" ELSE script
  /\ UNCHANGED <<payload, disk, pos, form, failed, recorded, dataset, shown, halfSwitched>>

RecordIngest(u) ==
  /\ phase[u] = "record"
  /\ recorded' = recorded \cup {u}
  /\ Goto(u, "answer")
  /\ UNCHANGED <<payload, disk, pos, failed, Session>>

AnswerIngest(u) ==
  /\ phase[u] = "answer"
  /\ Goto(u, "answered")
  /\ UNCHANGED <<payload, disk, pos, failed, recorded, Session>>

CrashApi ==
  /\ \E u \in ApiUploads : phase[u] \in Phases \ {"new", "answered", "rejected", "ended"}
  /\ phase' = [u \in Uploads |->
       IF u \in ApiUploads /\ phase[u] \notin {"new", "answered", "rejected"}
         THEN "ended" ELSE phase[u]]
  /\ UNCHANGED <<payload, disk, pos, failed, recorded, Session>>

-----------------------------------------------------------------------------
(* The session                                                             *)

Uploading == <<payload, disk, phase, pos, form, failed, recorded>>

UseDemo ==
  /\ script = "idle"
  /\ dataset' = Demo /\ script' = "pop_run"
  /\ UNCHANGED <<Uploading, shown, halfSwitched>>

\* Mutant: the run of the dataset before stays in the session.
SetDatasetKeepingRun ==
  /\ script = "set_dataset"
  /\ dataset' = form /\ script' = "idle"
  /\ UNCHANGED <<Uploading, shown, halfSwitched>>

\* The form's files are all within the limits.
SetDataset ==
  /\ script = "set_dataset"
  /\ dataset' = form /\ script' = "pop_run"
  /\ UNCHANGED <<Uploading, shown, halfSwitched>>

PopRun ==
  /\ script = "pop_run"
  /\ shown' = NoDataset /\ halfSwitched' = FALSE
  /\ script' = "idle"
  /\ UNCHANGED <<Uploading, dataset>>

HasDirectory ==
  IF dataset = Demo THEN TRUE ELSE \E f \in Files : disk[dataset][f] # "absent"
Readable ==
  IF dataset = Demo THEN TRUE ELSE \A f \in Files : disk[dataset][f] # "absent"
Parsed ==
  IF dataset = Demo THEN TRUE ELSE \A f \in Files : payload[dataset][f] # "unparsable"

\* "Run reconciliation": a dataset without a directory is an error message.
BeginRun ==
  /\ script = "idle" /\ dataset # NoDataset
  /\ HasDirectory
  /\ script' = "count_rows"
  /\ UNCHANGED <<Uploading, dataset, shown, halfSwitched>>

\* read_text of the three files
CountRows ==
  /\ script = "count_rows"
  /\ script' = IF Readable THEN "reconcile" ELSE "idle"
  /\ UNCHANGED <<Uploading, dataset, shown, halfSwitched>>

\* reconcile (module ReconcileService) returns a run on the dataset, or raises.
Reconcile ==
  /\ script = "reconcile"
  /\ \/ Parsed /\ script' = "set_run"
     \/ script' = "idle"
  /\ UNCHANGED <<Uploading, dataset, shown, halfSwitched>>

SetRun ==
  /\ script = "set_run"
  /\ shown' = dataset /\ halfSwitched' = FALSE
  /\ script' = "idle"
  /\ UNCHANGED <<Uploading, dataset>>

\* The form shows an error: the script has just rejected a file.
ShowsError ==
  /\ script = "upload" /\ phase[form] = "open"
  /\ pos[form] > 1 /\ payload[form][pos[form] - 1] \in OverLimit

\* Another widget is touched, and Streamlit stops the script at its next call: one of
\* st.error or status.write, or an access to session_state.
Interrupt ==
  /\ script \in {"set_dataset", "pop_run", "count_rows", "set_run"} \/ ShowsError
  /\ script' = "idle"
  /\ halfSwitched' = (halfSwitched \/ script = "pop_run")
  /\ phase' = IF ShowsError THEN [phase EXCEPT ![form] = "ended"] ELSE phase
  /\ UNCHANGED <<payload, disk, pos, form, failed, recorded, dataset, shown>>

\* session_state is kept in memory.
CrashApp ==
  /\ script' = "idle" /\ dataset' = NoDataset /\ shown' = NoDataset
  /\ halfSwitched' = FALSE
  /\ phase' = [u \in Uploads |->
       IF u = form /\ script = "upload" THEN "ended" ELSE phase[u]]
  /\ UNCHANGED <<payload, disk, pos, form, failed, recorded>>

Upload(u) ==
  \/ BeginIngest(u) \/ BeginForm(u)
  \/ OpenFile(u) \/ WriteFile(u) \/ CheckRows(u) \/ FailUpload(u)
  \/ RecordIngest(u) \/ AnswerIngest(u)

Next ==
  \/ \E u \in Uploads : Upload(u)
  \/ CrashApi
  \/ UseDemo \/ SetDataset \/ PopRun
  \/ BeginRun \/ CountRows \/ Reconcile \/ SetRun
  \/ Interrupt \/ CrashApp

Spec == Init /\ [][Next]_vars

-----------------------------------------------------------------------------
Complete(u) == \A f \in Files : disk[u][f] = "whole" /\ payload[u][f] \notin OverLimit

\* A dataset the server accepts - it is in the audit log, in an answer, or a session's -
\* has its three files, whole and within the limits, whatever was rejected, stopped or
\* crashed on the way; and one that is in an answer is in the log.
AcceptedIsComplete ==
  /\ \A u \in Uploads : u \in recorded \/ dataset = u => Complete(u)
  /\ \A u \in ApiUploads : phase[u] = "answered" => u \in recorded

\* The pages after the upload show a run on the dataset the session has chosen, unless
\* Streamlit stopped the script between the assignments that switch it, and no run was
\* shown and no switch completed since.  This is of a session alone on its connection: on
\* DuckDB a fetchone may hand it the run of another (FetchKey of SharedConnection).
ShownRunIsOfTheDataset ==
  shown \in {NoDataset, dataset} \/ script = "pop_run" \/ halfSwitched
=============================================================================
