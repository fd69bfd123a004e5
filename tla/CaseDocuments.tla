---- MODULE CaseDocuments ----
(***************************************************************************)
(* The documents of one case: uploads, deletions and reports handled at    *)
(* the same time, any of which may break off after any of its calls (an    *)
(* error of CouchDB or of the database), or end with the whole process.    *)
(***************************************************************************)
EXTENDS Evidence, FraudReports

CONSTANT MayBreak

Init == /\ docs = [id \in Ids |-> Absent]
        /\ rows = [id \in Ids |-> NoFile]
        /\ inserts = {}
        /\ reqs = [r \in Requests |-> Idle]
        /\ now = 0 /\ calls = 0 /\ moves = 0
        /\ phase = "investigating"
        /\ died = FALSE

Breaks(r) == /\ MayBreak
             /\ reqs[r] # Idle
             /\ Ends(r)
             /\ UNCHANGED <<docs, rows, inserts, now, calls, phase, moves, died>>

Next == \/ \E r \in Requests : EvidenceStep(r) \/ ReportStep(r) \/ Reread(r) \/ Rewrite(r)
                               \/ Breaks(r)
        \/ \E i \in inserts : RowArrives(i)
        \/ Tick
        \/ CaseMoves

Spec == Init /\ [][Next]_vars

(* Still being written by the request that created it. *)
Busy(id) == \E r \in Requests : /\ reqs[r].op \in {"upload", "generate"}
                                /\ reqs[r].id = id
                                /\ reqs[r].step # "create"
Complete(id) == docs[id].live /\ docs[id].listed # {} /\ ~Busy(id)

(* What a document holds under a name it lists is a file it lists under     *)
(* that name: a name listed once downloads and verifies without a report of *)
(* tampered evidence, whatever was uploaded, edited or approved beside it.  *)
(* No other request's attachment or list of files has come between the two  *)
(* writes (updateDocument, uploadEvidence).  Of two files that came under   *)
(* one name in one request, one is lost, and verifying says so.             *)
FilesIntact == \A id \in Live : Intact(docs[id].listed, docs[id].held)

(* Until a process dies, every uploaded document has its row in the         *)
(* evidence table, or the row is on its way (evidence.service.ts:262): a    *)
(* deletion that fails halfway leaves a row too many, never a file no row   *)
(* speaks of.                                                               *)
RowFollows ==
    ~died => \A id \in EvidenceIds :
        Complete(id) => \/ rows[id] \in docs[id].listed
                        \/ \E i \in inserts : i.id = id /\ i.file \in docs[id].listed

(* What was uploaded or generated is there until it is deleted: no step of  *)
(* any request replaces the files of a complete document, be it a second    *)
(* upload to the task in the same millisecond or a second report that took  *)
(* the same version.                                                        *)
FilesKept == [][\A id \in Ids : Complete(id) /\ docs'[id].live
                                 => docs'[id].held = docs[id].held]_vars

(* An approved report stays locked (editFraudReport, approveFraudReport),   *)
(* whatever edits read it before the approval and write it afterwards, with *)
(* one exception: an edit whose copy says `locked: false`, which only the   *)
(* body of an edit, this one or an earlier one, puts there.                 *)
Reopens(r, id) == /\ reqs[r].op = "edit" /\ reqs[r].step = "rewrite" /\ reqs[r].id = id
                  /\ reqs[r].doc.locked = "no"
StaysLocked ==
    [][\A id \in Live : docs[id].locked = "yes" =>
          docs'[id].locked = "yes" \/ \E r \in Requests : Reopens(r, id)]_vars
=============================================================================
