---- MODULE DocumentStore ----
(***************************************************************************)
(* The CouchDB database that holds the evidence files and the              *)
(* investigation reports of a case, as couchdb.service.ts uses it, and the *)
(* requests that work on it.  CouchDB takes one document at a time: a      *)
(* write names the revision it read and is refused (409) when the document *)
(* has another one by then; a document is created with no revision and     *)
(* refused when its id is taken.  There is no transaction around two       *)
(* writes, nor around a document and the evidence table of the database.   *)
(*                                                                         *)
(* A document is its revision, the files its `metadata` array lists, the   *)
(* attachments it holds, and, for a report, its version and what editing   *)
(* and approving it change.  A file's content is named by the request that *)
(* sent it and, among the files of one name in that request, its number:   *)
(* every encryption draws a new key, so no two have the same hash.         *)
(***************************************************************************)
EXTENDS Naturals, FiniteSets

CONSTANTS Tasks, Names, Requests,
          MaxFiles,        \* files that one request uploads
          MaxCalls,        \* requests ever started
          MaxVersions,     \* versions of a report
          MaxTicks,        \* milliseconds that pass
          MaxPhases        \* times the case moves on

ASSUME DocumentAssumption == /\ Names # {}
                             /\ MaxFiles \in Nat \ {0}
                             /\ MaxCalls \in Nat
                             /\ MaxVersions \in Nat
                             /\ MaxTicks \in Nat
                             /\ MaxPhases \in Nat

VARIABLES docs,      \* the document behind each id
          rows,      \* the table `evidence`: the file recorded for each id
          inserts,   \* rows sent to the database and not awaited
          reqs,      \* the requests being handled
          now,       \* Date.now()
          calls,     \* requests started so far
          phase,     \* where the case stands
          moves,     \* times it moved
          died       \* the server process has gone down

vars == <<docs, rows, inserts, reqs, now, calls, phase, moves, died>>

EvidenceIds == {"evidence"} \X Tasks \X (0..MaxTicks)
ReportIds == {"report"} \X (1..MaxVersions)
Ids == EvidenceIds \cup ReportIds

Files == [name : Names, copy : 1..MaxFiles, call : 1..MaxCalls]
NoFile == [name |-> "none", copy |-> 0, call |-> 0]

(* The field `locked` of a report, which is not there until an approval, or *)
(* the body of an edit, writes it.                                          *)
Locks == {"unset", "no", "yes"}

(* Version 0: the report is filed under another case.                       *)
Absent == [rev |-> 0, live |-> FALSE, listed |-> {}, isList |-> TRUE, held |-> {},
           version |-> 0, locked |-> "unset"]
Live == {id \in Ids : docs[id].live}

Idle == [op |-> "idle", step |-> "none", id |-> <<>>, todo |-> {}, call |-> 0, doc |-> Absent]

Starts(r, op, step, id, todo, doc) ==
    /\ reqs[r] = Idle
    /\ calls < MaxCalls
    /\ calls' = calls + 1
    /\ reqs' = [reqs EXCEPT ![r] = [op |-> op, step |-> step, id |-> id, todo |-> todo,
                                    call |-> calls + 1, doc |-> doc]]
Goes(r, step) == reqs' = [reqs EXCEPT ![r].step = step]
Ends(r) == reqs' = [reqs EXCEPT ![r] = Idle]

(* The document a request read, or wrote last, is still the one stored. *)
Current(r) == /\ docs[reqs[r].id].live
              /\ docs[reqs[r].id].rev = reqs[r].doc.rev

(* insertDocument: a new document, refused when the id is in use.  The      *)
(* revisions of an id go on counting after a deletion.                      *)

\* Mutant: the document is written whatever the id holds.
CreateOver(r, step) ==
    LET id == reqs[r].id
        doc == [reqs[r].doc EXCEPT !.rev = docs[id].rev + 1, !.live = TRUE]
    IN /\ docs' = [docs EXCEPT ![id] = doc]
       /\ reqs' = [reqs EXCEPT ![r].doc = doc, ![r].step = step]

Create(r, step) ==
    LET id == reqs[r].id
        doc == [reqs[r].doc EXCEPT !.rev = docs[id].rev + 1, !.live = TRUE]
    IN \/ /\ docs[id].live
          /\ Ends(r)
          /\ UNCHANGED docs
       \/ /\ ~docs[id].live
          /\ docs' = [docs EXCEPT ![id] = doc]
          /\ reqs' = [reqs EXCEPT ![r].doc = doc, ![r].step = step]

(* insertAttachment: the attachment of that name is put in, or replaced, at *)
(* the revision the request holds; the handler then lists the file in the   *)
(* metadata it keeps in memory.                                             *)
Attach(r, file, step) ==
    LET id == reqs[r].id
        held == {f \in docs[id].held : f.name # file.name} \cup {file}
        rev == docs[id].rev + 1
    IN /\ Current(r)
       /\ docs' = [docs EXCEPT ![id].held = held, ![id].rev = rev]
       /\ reqs' = [reqs EXCEPT ![r].doc.rev = rev,
                               ![r].doc.listed = @ \cup {file},
                               ![r].todo = @ \ {<<file.name, file.copy>>},
                               ![r].step = step]

(* updateDocument, first half: it reads the stored revision again, so that  *)
(* whatever was written since the handler's own read goes unnoticed.        *)
Reread(r) ==
    /\ reqs[r].step = "reread"
    /\ \/ /\ docs[reqs[r].id].live
          /\ reqs' = [reqs EXCEPT ![r].doc.rev = docs[reqs[r].id].rev,
                                  ![r].step = "rewrite"]
       \/ /\ ~docs[reqs[r].id].live
          /\ Ends(r)
    /\ UNCHANGED <<docs, rows, inserts, now, calls, phase, moves, died>>

(* updateDocument, second half: the stored document with the handler's      *)
(* fields over it, except its attachments.  A field the handler's copy does *)
(* not have stays what it is.                                               *)

LockAfter(old, new) == IF new.locked = "unset" THEN old.locked ELSE new.locked

\* Mutant: the attachments are not carried over.
MergedBare(old, new) == [new EXCEPT !.live = TRUE, !.rev = old.rev + 1, !.held = {},
                                    !.locked = LockAfter(old, new)]

\* Mutant: the handler's copy is written as it is, without the stored fields it lacks.
MergedUnlocked(old, new) == [new EXCEPT !.live = TRUE, !.rev = old.rev + 1,
                                        !.held = old.held]

Merged(old, new) == [new EXCEPT !.live = TRUE, !.rev = old.rev + 1, !.held = old.held,
                                !.locked = LockAfter(old, new)]

Rewrite(r) ==
    /\ reqs[r].step = "rewrite"
    /\ docs' = IF Current(r)
               THEN [docs EXCEPT ![reqs[r].id] = Merged(@, reqs[r].doc)]
               ELSE docs
    /\ Ends(r)
    /\ UNCHANGED <<rows, inserts, now, calls, phase, moves, died>>

(* The rows that were on their way when the process went down: the database *)
(* may have taken any of them.                                              *)
Dies(taken) ==
    /\ reqs' = [r \in Requests |-> Idle]
    /\ inserts' = {}
    /\ rows' = [id \in Ids |->
                 IF rows[id] = NoFile /\ \E i \in taken : i.id = id
                 THEN (CHOOSE i \in taken : i.id = id).file ELSE rows[id]]
    /\ died' = TRUE

Tick == /\ now < MaxTicks
        /\ now' = now + 1
        /\ UNCHANGED <<docs, rows, inserts, reqs, calls, phase, moves, died>>

(* The case: its investigation ends, it is closed, it is reopened with a    *)
(* new investigation.                                                       *)
CaseMoves ==
    /\ moves < MaxPhases
    /\ moves' = moves + 1
    /\ phase' = CASE phase = "investigated" -> "closed"
                  [] phase = "closed" -> "investigating"
                  [] OTHER -> "investigated"
    /\ UNCHANGED <<docs, rows, inserts, reqs, now, calls, died>>
====
