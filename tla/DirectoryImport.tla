---------------------------- MODULE DirectoryImport ----------------------------
(***************************************************************************)
(* store.py, import_hsds_services: a curator replaces what the directory   *)
(* says of some services by an HSDS file, in one transaction.              *)
(*                                                                         *)
(* A file has at most one entry per service; of two services of one        *)
(* organization either may come last.  An entry writes into the rows that  *)
(* are there (ids are stable), and its first phone becomes the number of   *)
(* the organization as well.                                               *)
(***************************************************************************)
EXTENDS ReviewDesk

CONSTANTS
  ImportFiles,   \* the files that may be imported
  ImportFields   \* what the task of an imported service asks about

\* An entry names the organization, the first phone if there is one, and the
\* fields of the record it brings.
ASSUME ImportAssumption ==
  /\ ImportFields \subseteq Fields
  /\ \A file \in ImportFiles : \A s \in DOMAIN file :
       /\ s \in Services
       /\ file[s].org \in Organizations /\ file[s].phone \subseteq Numbers
       /\ \A f \in DOMAIN file[s].values : <<s, f>> \in Rows /\ file[s].values[f] \in Values

\* An invalid schedule raises a ValueError, and nothing of the file is written;
\* no other field is checked.
ScheduleField == "schedule"
IsAccepted(file) ==
  \A s \in DOMAIN file :
    ScheduleField \in DOMAIN file[s].values =>
      <<ScheduleField, file[s].values[ScheduleField]>> \in Canonical

ImportedRecord(file) ==
  [s \in Services |-> [f \in Fields |->
     IF s \in DOMAIN file /\ f \in DOMAIN file[s].values THEN file[s].values[f] ELSE record[s][f]]]

ImportedOrganizations(file) ==
  [s \in Services |-> IF s \in DOMAIN file THEN file[s].org ELSE organizationOf[s]]

PhonesFor(file, org) == UNION {file[s].phone : s \in {r \in DOMAIN file : file[r].org = org}}

\* The services the file says are active.
ActiveIn(file) ==
  {s \in DOMAIN file : \A f \in DOMAIN file[s].values : <<f, file[s].values[f]>> \notin Removals}

\* Fault: a task is inserted beside the one that is open.
ImportTasksUnconditionally(file) ==
  tasks' = [t \in TaskIds |->
    IF ServiceOf(t) \in ActiveIn(file) /\ IsNextTask(t, file[ServiceOf(t)].org)
    THEN NewTask(ImportFields) ELSE tasks[t]]

\* INSERT OR IGNORE: an open task stays as it is, with its organization.
ImportTasks(file) ==
  /\ \A s \in ActiveIn(file) :
       HasOpenTask(s) \/ \E t \in TaskIds : ServiceOf(t) = s /\ IsNextTask(t, file[s].org)
  /\ tasks' = [t \in TaskIds |->
       LET s == ServiceOf(t) IN
       IF s \in ActiveIn(file) /\ ~HasOpenTask(s) /\ IsNextTask(t, file[s].org)
       THEN NewTask(ImportFields) ELSE tasks[t]]

ImportServices(file) ==
  /\ IsAccepted(file)
  /\ organizationOf' = ImportedOrganizations(file)
  /\ record' = ImportedRecord(file)
  /\ publicPhone' \in [Organizations -> Numbers]
  /\ \A org \in Organizations :
       IF PhonesFor(file, org) = {} THEN publicPhone'[org] = publicPhone[org]
       ELSE publicPhone'[org] \in PhonesFor(file, org)
  /\ ImportTasks(file)
  /\ UNCHANGED <<reports, consents, doNotCall, calls, assured, runs, proposals, flags>>
=============================================================================
