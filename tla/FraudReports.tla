---- MODULE FraudReports ----
(***************************************************************************)
(* The investigation reports of a case (report.service.ts,                 *)
(* generateFraudReport to getFraudReports): documents in the same database *)
(* as the evidence, numbered by version.  Editing and approving read the   *)
(* document, change it in memory, and write every field of it through      *)
(* updateDocument, which reads the revision anew.                          *)
(***************************************************************************)
EXTENDS DocumentStore

(* The versions the reports filed under the case say they are.              *)
Versions == {docs[id].version : id \in Live \cap ReportIds} \ {0}
NextVersion == IF Versions = {} THEN 1
               ELSE 1 + CHOOSE v \in Versions : \A w \in Versions : w <= v

(* The file of a report is named after its version.                         *)
ReportFile(r) == [name |-> CHOOSE n \in Names : TRUE, copy |-> 1, call |-> reqs[r].call]

(* Every task called "investigate" is completed.                            *)
GenerateCheck(r) ==
    /\ phase # "investigating"
    /\ Starts(r, "generate", "version", <<>>, {}, Absent)
    /\ UNCHANGED <<docs, rows, inserts, now, phase, moves, died>>

(* The versions are looked up in a query of its own, and the next one taken *)
(* without a lock.                                                          *)
GenerateVersion(r) ==
    /\ reqs[r].op = "generate" /\ reqs[r].step = "version"
    /\ NextVersion \in 1..MaxVersions
    /\ reqs' = [reqs EXCEPT ![r].id = <<"report", NextVersion>>,
                            ![r].doc.version = NextVersion, ![r].step = "create"]
    /\ UNCHANGED <<docs, rows, inserts, now, calls, phase, moves, died>>

GenerateCreate(r) ==
    /\ reqs[r].op = "generate" /\ reqs[r].step = "create"
    /\ Create(r, "attach")
    /\ UNCHANGED <<rows, inserts, now, calls, phase, moves, died>>

GenerateAttach(r) ==
    /\ reqs[r].op = "generate" /\ reqs[r].step = "attach"
    /\ \/ Attach(r, ReportFile(r), "reread")
       \/ /\ ~Current(r)
          /\ Ends(r)
          /\ UNCHANGED docs
    /\ UNCHANGED <<rows, inserts, now, calls, phase, moves, died>>

(* The body of an edit is a Partial<FraudReport> nobody validates: it may   *)
(* set any field but the files.  Three matter to other requests: the lock,  *)
(* the version and the case.                                                *)
Bodies == [locked : Locks, version : 0..MaxVersions]

(* An edit spreads the metadata array into an object, which no download     *)
(* finds a file in, and the body over the document.  A locked report is to  *)
(* become a new version, inserted with the _rev of the old one: CouchDB     *)
(* refuses a revision for an id it does not have.                           *)
EditRead(r) ==
    /\ \E id \in Live \cap ReportIds, body \in Bodies :
          Starts(r, "edit", IF docs[id].locked = "yes" THEN "insert" ELSE "reread", id, {},
                 [docs[id] EXCEPT !.isList = FALSE, !.version = body.version,
                                  !.locked = LockAfter(docs[id], body)])
    /\ UNCHANGED <<docs, rows, inserts, now, phase, moves, died>>

EditInsert(r) ==
    /\ reqs[r].op = "edit" /\ reqs[r].step = "insert"
    /\ Ends(r)
    /\ UNCHANGED <<docs, rows, inserts, now, calls, phase, moves, died>>

ApproveRead(r) ==
    /\ \E id \in Live \cap ReportIds :
          Starts(r, "approve", "reread", id, {}, [docs[id] EXCEPT !.locked = "yes"])
    /\ UNCHANGED <<docs, rows, inserts, now, phase, moves, died>>

ReportStep(r) == \/ GenerateCheck(r) \/ GenerateVersion(r) \/ GenerateCreate(r)
                 \/ GenerateAttach(r) \/ EditRead(r) \/ EditInsert(r) \/ ApproveRead(r)
====
