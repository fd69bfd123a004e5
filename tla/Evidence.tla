---- MODULE Evidence ----
(***************************************************************************)
(* Evidence files (evidence.service.ts): uploading to a task and deleting. *)
(* An upload creates the document, attaches the files one by one, sends a  *)
(* row to the table for each without awaiting it, and lists the files in   *)
(* the document at the end.  The web client sends one file per request and *)
(* all the chosen files at once (TaskEvidenceTab.tsx); the endpoint takes  *)
(* ten, of any names.                                                      *)
(***************************************************************************)
EXTENDS DocumentStore

(* The two ends of a file's life are allowed while the case is in progress; *)
(* closing the case afterwards does not stop a request that passed.         *)
CaseAllows == phase # "closed"

(* `ev_${taskId}_${Date.now()}`: two uploads to one task in one millisecond *)
(* draw the same id.                                                        *)
EvidenceId(task) == <<"evidence", task, now>>

(* The files of a request, each a name and a number among those of the name. *)
Uploads == {files \in SUBSET (Names \X (1..MaxFiles)) :
              /\ Cardinality(files) \in 1..MaxFiles
              /\ \A f \in files : \A n \in 1..f[2] : <<f[1], n>> \in files}

UploadCheck(r) ==
    /\ CaseAllows
    /\ \E task \in Tasks, files \in Uploads :
          Starts(r, "upload", "create", EvidenceId(task), files, Absent)
    /\ UNCHANGED <<docs, rows, inserts, now, phase, moves, died>>

UploadCreate(r) ==
    /\ reqs[r].op = "upload" /\ reqs[r].step = "create"
    /\ Create(r, "attach")
    /\ UNCHANGED <<rows, inserts, now, calls, phase, moves, died>>

(* Of two files of one name, the second takes the place of the first among  *)
(* the attachments, and the document lists both.                            *)
UploadAttach(r) ==
    /\ reqs[r].op = "upload" /\ reqs[r].step = "attach"
    /\ \/ \E next \in reqs[r].todo :
             LET file == [name |-> next[1], copy |-> next[2], call |-> reqs[r].call]
             IN /\ Attach(r, file, IF reqs[r].todo = {next} THEN "reread" ELSE "attach")
                /\ inserts' = inserts \cup {[id |-> reqs[r].id, file |-> file]}
       \/ /\ ~Current(r)
          /\ Ends(r)
          /\ UNCHANGED <<docs, inserts>>
    /\ UNCHANGED <<rows, now, calls, phase, moves, died>>

(* createEvidence arrives.  The key of the table is the id of the document, *)
(* so the second file of a document has no room; nobody handles the         *)
(* rejection, and Node ends the process.                                    *)
RowArrives(i) ==
    /\ \/ /\ rows[i.id] = NoFile
          /\ rows' = [rows EXCEPT ![i.id] = i.file]
          /\ inserts' = inserts \ {i}
          /\ UNCHANGED <<reqs, died>>
       \/ /\ rows[i.id] # NoFile
          /\ \E taken \in SUBSET (inserts \ {i}) : Dies(taken)
    /\ UNCHANGED <<docs, now, calls, phase, moves>>

(* A delete is asked for from a list the client was given: by then another  *)
(* millisecond has come, and no upload that drew the same id has yet to     *)
(* create its document.  It names one attachment and destroys the document  *)
(* with all of them.                                                        *)
DeleteCheck(r) ==
    /\ CaseAllows
    /\ \E id \in Live \cap EvidenceIds :
          /\ id[3] < now
          /\ \A q \in Requests : reqs[q].id = id => reqs[q].step # "create"
          /\ Starts(r, "delete", "destroy", id, {}, docs[id])
    /\ UNCHANGED <<docs, rows, inserts, now, phase, moves, died>>

\* Mutant: a conflict is logged and swallowed, and the row deleted all the same.
DeleteRegardless(r) ==
    /\ reqs[r].op = "delete" /\ reqs[r].step = "destroy"
    /\ docs' = IF Current(r)
               THEN [docs EXCEPT ![reqs[r].id] = [Absent EXCEPT !.rev = docs[reqs[r].id].rev + 1]]
               ELSE docs
    /\ Goes(r, "row")
    /\ UNCHANGED <<rows, inserts, now, calls, phase, moves, died>>

DeleteDocument(r) ==
    /\ reqs[r].op = "delete" /\ reqs[r].step = "destroy"
    /\ \/ /\ Current(r)
          /\ docs' = [docs EXCEPT ![reqs[r].id] = [Absent EXCEPT !.rev = docs[reqs[r].id].rev + 1]]
          /\ Goes(r, "row")
       \/ /\ ~Current(r)
          /\ Ends(r)
          /\ UNCHANGED docs
    /\ UNCHANGED <<rows, inserts, now, calls, phase, moves, died>>

(* The row may not be there (yet): the delete then fails, with the document *)
(* gone.                                                                    *)
DeleteRow(r) ==
    /\ reqs[r].op = "delete" /\ reqs[r].step = "row"
    /\ rows' = [rows EXCEPT ![reqs[r].id] = NoFile]
    /\ Ends(r)
    /\ UNCHANGED <<docs, inserts, now, calls, phase, moves, died>>

EvidenceStep(r) == \/ UploadCheck(r) \/ UploadCreate(r) \/ UploadAttach(r)
                   \/ DeleteCheck(r) \/ DeleteDocument(r) \/ DeleteRow(r)

(* downloadEvidence and verifyEvidence fetch an attachment for each file of *)
(* the list, by its name, and compare it with the hash listed: the files    *)
(* held must be among those listed.  One name listed once is then that very *)
(* file; of two of one name, one is refused.                                *)
Intact(listed, held) == \A f \in listed : \E g \in held \cap listed : g.name = f.name
====
