------------------------------ MODULE ExportFile ------------------------------
(***************************************************************************)
(* The analysis export of src_web/main.rs: every download removes the      *)
(* export file, creates it anew, copies the tables of the application's    *)
(* database one statement after the other and then reads the file by its   *)
(* path.  Nothing keeps two downloads apart, nor a download and an import. *)
(* A file that was removed lives on for the connection that has it open.   *)
(***************************************************************************)
EXTENDS Naturals

CONSTANTS Downloads, NoTable

VARIABLES
  download, \* [download -> where it is]
  handle,   \* [download -> the file its connection has open, by number]
  onDisk,   \* number of the file under the export path; 0 if there is none
  tables,   \* [file -> [reports, findings]]: states of the database that were copied
  shown,    \* [download -> what it sent, or NoTable]
  alone     \* history: [download -> no other download, commit or crash met it]

exportVars == <<download, handle, onDisk, tables, shown, alone>>

Empty == [reports |-> NoTable, findings |-> NoTable]

Numbers == 1..2  \* bound: files that are distinguished at a time

ExportInit ==
  /\ download = [d \in Downloads |-> "none"]
  /\ handle = [d \in Downloads |-> 0]
  /\ onDisk = 0 /\ tables = [f \in Numbers |-> Empty]
  /\ shown = [d \in Downloads |-> NoTable]
  /\ alone = [d \in Downloads |-> TRUE]

Running(d) == download[d] \notin {"none", "over"}

At(d, here, next) ==
  download[d] = here /\ download' = [download EXCEPT ![d] = next]

\* Faulty variant: a file that is there is taken to be good enough
AfterLookKeeping == IF onDisk = 0 THEN "open" ELSE "read"

AfterLook == IF onDisk = 0 THEN "open" ELSE "remove"

\* regenerate_export: does the file exist?
LookForFile(d) ==
  /\ download[d] = "none"
  /\ download' = [download EXCEPT ![d] = AfterLook]
  /\ alone' = [e \in Downloads |->
                 IF e = d THEN \A b \in Downloads : ~Running(b)
                 ELSE alone[e] /\ ~Running(e)]
  /\ UNCHANGED <<handle, onDisk, tables, shown>>

\* remove_file fails when another download was faster
Remove(d) ==
  /\ At(d, "remove", IF onDisk = 0 THEN "over" ELSE "open")
  /\ onDisk' = 0
  /\ UNCHANGED <<handle, tables, shown, alone>>

Fresh == CHOOSE f \in Numbers : f # onDisk /\ \A d \in Downloads : handle[d] # f

\* Connection::open creates the file, or opens one that another download created
Open(d) ==
  /\ At(d, "open", "reports")
  /\ IF onDisk = 0
     THEN /\ onDisk' = Fresh /\ tables' = [tables EXCEPT ![Fresh] = Empty]
          /\ handle' = [handle EXCEPT ![d] = Fresh]
     ELSE /\ handle' = [handle EXCEPT ![d] = onDisk] /\ UNCHANGED <<onDisk, tables>>
  /\ UNCHANGED <<shown, alone>>

\* CREATE TABLE reports AS SELECT: the table exists when another one created it
CopyReports(d, db) ==
  /\ download[d] = "reports"
  /\ LET f == handle[d]
     IN  IF tables[f].reports = NoTable
         THEN /\ At(d, "reports", "findings")
              /\ tables' = [tables EXCEPT ![f].reports = db] /\ UNCHANGED handle
         ELSE /\ At(d, "reports", "over") /\ UNCHANGED tables
              /\ handle' = [handle EXCEPT ![d] = 0]
  /\ UNCHANGED <<onDisk, shown, alone>>

\* The other tables, and the connection is closed
CopyOthers(d, db) ==
  /\ download[d] = "findings"
  /\ LET f == handle[d]
     IN  IF tables[f].findings = NoTable
         THEN /\ At(d, "findings", "read")
              /\ tables' = [tables EXCEPT ![f].findings = db]
         ELSE At(d, "findings", "over") /\ UNCHANGED tables
  /\ handle' = [handle EXCEPT ![d] = 0]
  /\ UNCHANGED <<onDisk, shown, alone>>

\* A statement fails: the file stays behind with the tables that it has
CopyFails(d) ==
  /\ download[d] \in {"reports", "findings"}
  /\ download' = [download EXCEPT ![d] = "over"]
  /\ handle' = [handle EXCEPT ![d] = 0]
  /\ UNCHANGED <<onDisk, tables, shown, alone>>

\* fs::read of whatever lies under the path
ReadFile(d) ==
  /\ At(d, "read", "over")
  /\ shown' = [shown EXCEPT ![d] = IF onDisk = 0 THEN NoTable ELSE tables[onDisk]]
  /\ UNCHANGED <<handle, onDisk, tables, alone>>

ExportStep(d, db) ==
  \/ Remove(d) \/ Open(d) \/ CopyReports(d, db) \/ CopyOthers(d, db)
  \/ CopyFails(d) \/ ReadFile(d)

\* An import commits while downloads are on their way, or has just been seen
CommitMeets == alone' = [d \in Downloads |-> alone[d] /\ download[d] = "none"]

ExportCrash ==
  /\ download' = [d \in Downloads |-> IF download[d] = "none" THEN "none" ELSE "over"]
  /\ handle' = [d \in Downloads |-> 0]
  /\ CommitMeets
  /\ UNCHANGED <<onDisk, tables, shown>>

-----------------------------------------------------------------------------

\* What download d sent is the database as it is: every table, and of one moment
Current(d, db) == shown[d] # NoTable => shown[d] = [reports |-> db, findings |-> db]
=============================================================================
