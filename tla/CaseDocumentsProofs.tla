------------------------- MODULE CaseDocumentsProofs --------------------------
(***************************************************************************)
(* Proofs about CaseDocuments, for any tasks, names of files, requests and *)
(* bounds: what was uploaded stays what it was, an approved report stays   *)
(* locked, and every uploaded file is or will be in the evidence table.    *)
(*                                                                         *)
(* The argument is about who may write a document.  As long as the request *)
(* that created it is attaching files, nobody has a list of files to write *)
(* over it (Unlisted); afterwards nobody attaches, so that any list a      *)
(* request has read is one of files that are held (OwnFiles).  Both count  *)
(* on there being one creator (OneCreator), although ids repeat: an id     *)
(* that was deleted is never drawn again (Buried).                         *)
(***************************************************************************)
EXTENDS CaseDocuments, TLAPS

Ops == {"idle", "upload", "delete", "generate", "edit", "approve"}
Phases == {"none", "version", "create", "attach", "reread", "rewrite", "insert", "destroy", "row"}

Document ==
    [rev : Nat, live : BOOLEAN, listed : SUBSET Files, isList : BOOLEAN, held : SUBSET Files,
     version : 0..MaxVersions, locked : Locks]
Request ==
    [op : Ops, step : Phases, id : Ids \union {<<>>}, todo : SUBSET (Names \X (1..MaxFiles)),
     call : 0..MaxCalls, doc : Document]

TypeOK ==
    /\ docs \in [Ids -> Document]
    /\ rows \in [Ids -> Files \union {NoFile}]
    /\ inserts \subseteq [id : EvidenceIds, file : Files]
    /\ reqs \in [Requests -> Request]
    /\ now \in 0..MaxTicks
    /\ calls \in 0..MaxCalls
    /\ died \in BOOLEAN

\* What a request is at, and what it carries, go together.
RequestOK(q) ==
    /\ q.op = "idle" => q.step = "none"
    /\ q.op # "idle" => q.call # 0
    /\ q.op = "upload" => q.id \in EvidenceIds
    /\ q.op \in {"upload", "generate"} => q.doc.locked = "unset"
    /\ q.op = "approve" => q.doc.locked = "yes"
    /\ q.op = "delete" => q.id \in EvidenceIds /\ q.step \in {"destroy", "row"}
    /\ q.op \in {"edit", "approve"} => q.id \in ReportIds
    /\ q.op = "generate" => q.step = "version" \/ q.id \in ReportIds
    /\ q.step \in {"create", "attach"} => q.op \in {"upload", "generate"}
    /\ q.step \in {"reread", "rewrite"} => q.op \in {"upload", "generate", "edit", "approve"}
    /\ q.step = "version" \/ q.step = "create" \/ (q.op = "generate" /\ q.step = "attach") =>
          q.doc.listed = {}

Holds(q) == q.step \in {"attach", "reread", "rewrite"}
Creates(q) == q.op \in {"upload", "generate"} /\ Holds(q)

OwnFiles ==
    \A r \in Requests :
        Holds(reqs[r]) /\ docs[reqs[r].id].live =>
            Intact(reqs[r].doc.listed, docs[reqs[r].id].held)

OneCreator ==
    \A r, q \in Requests :
        Creates(reqs[r]) /\ Creates(reqs[q]) /\ reqs[r].id = reqs[q].id => r = q
Created ==
    /\ \A id \in Ids : docs[id].live => docs[id].rev > 0
    /\ \A r \in Requests : Holds(reqs[r]) => docs[reqs[r].id].rev > 0

Unlisted ==
    \A r \in Requests : reqs[r].step = "attach" =>
        /\ docs[reqs[r].id].listed = {}
        /\ \A q \in Requests \ {r} :
              reqs[q].id = reqs[r].id /\ Holds(reqs[q]) => reqs[q].doc.listed = {}

\* Nobody will create this document any more.
Past(id) ==
    /\ id \in EvidenceIds
    /\ id[3] < now
    /\ \A q \in Requests : reqs[q].id = id => reqs[q].step # "create"
Buried ==
    /\ \A id \in Ids : docs[id].rev > 0 /\ ~docs[id].live => Past(id)
    /\ \A r \in Requests :
          /\ reqs[r].step = "destroy" => Past(reqs[r].id)
          /\ reqs[r].step = "row" => docs[reqs[r].id].rev > 0 /\ ~docs[reqs[r].id].live

EvidenceUnlocked == \A id \in EvidenceIds : docs[id].locked = "unset"

Filed(id, f) == rows[id] = f \/ [id |-> id, file |-> f] \in inserts
ListedFiled ==
    /\ \A id \in EvidenceIds : docs[id].live => \A f \in docs[id].listed : Filed(id, f)
    /\ \A r \in Requests :
          reqs[r].op = "upload" /\ Holds(reqs[r]) /\ docs[reqs[r].id].live =>
              \A f \in reqs[r].doc.listed : Filed(reqs[r].id, f)

IInv ==
    /\ TypeOK
    /\ \A r \in Requests : RequestOK(reqs[r])
    /\ FilesIntact /\ OwnFiles /\ OneCreator /\ Created /\ Unlisted /\ Buried
    /\ EvidenceUnlocked
    /\ ~died => ListedFiled
-----------------------------------------------------------------------------
LEMMA IdsDiffer ==
    /\ EvidenceIds \subseteq Ids /\ ReportIds \subseteq Ids
    /\ \A id \in EvidenceIds : id \notin ReportIds
  BY DEF EvidenceIds, ReportIds, Ids

\* A request that is at a document, or about to create it, has its id.
LEMMA IdOK ==
    ASSUME IInv, NEW r \in Requests, reqs[r].step \notin {"none", "version", "insert"}
    PROVE  reqs[r].id \in Ids /\ docs[reqs[r].id] \in Document
<1>1. reqs[r] \in Request /\ RequestOK(reqs[r])
  BY DEF IInv, TypeOK
<1>2. reqs[r].id \in Ids
  BY <1>1, IdsDiffer DEF RequestOK, Request, Ops, Phases
<1>3. QED
  BY <1>2 DEF IInv, TypeOK

LEMMA IdleOK == Idle \in Request /\ RequestOK(Idle) /\ ~Holds(Idle)
  BY DocumentAssumption DEF Idle, Absent, Request, RequestOK, Document, Ops, Phases, Holds, Files,
                             Locks

\* A request that is not at a document it created, read or is about to rewrite
\* disturbs nobody.
LEMMA AloofKeeps ==
    ASSUME IInv, NEW r \in Requests, docs' = docs,
           \A p \in Requests \ {r} : reqs'[p] = reqs[p], ~Holds(reqs[r])'
    PROVE  OwnFiles' /\ OneCreator' /\ Created' /\ Unlisted'
  BY DEF IInv, OwnFiles, OneCreator, Created, Unlisted, Creates, Holds

\* What holds of the files of documents survives a step that leaves the stores
\* alone and gives nobody another list.
LEMMA ListsKeep ==
    ASSUME IInv, NEW r \in Requests, UNCHANGED <<docs, rows, inserts, died>>,
           \A p \in Requests \ {r} : reqs'[p] = reqs[p], ~Holds(reqs[r])'
    PROVE  (~died => ListedFiled)'
  BY DEF IInv, ListedFiled, Filed, Holds

\* A request that ends takes its claims with it.
LEMMA EndsKeeps ==
    ASSUME IInv, NEW r \in Requests, Ends(r), UNCHANGED <<docs, rows, inserts, now, calls, died>>
    PROVE  IInv'
<1> DEFINE Others == \A q \in Requests \ {r} : reqs'[q] = reqs[q]
<1>1. Others /\ reqs'[r] = Idle
  BY DEF Ends, IInv, TypeOK
<1>2. Idle.step = "none" /\ Idle.op = "idle" /\ Idle.id = <<>>
  BY DEF Idle
<1>3. TypeOK'
  BY IdleOK, <1>1 DEF Ends, IInv, TypeOK
<1>4. (\A q \in Requests : RequestOK(reqs[q]))'
  BY <1>1, IdleOK DEF IInv
<1>5. FilesIntact' /\ EvidenceUnlocked'
  BY DEF IInv, FilesIntact, Live, Intact, EvidenceUnlocked
<1>6. OwnFiles' /\ OneCreator' /\ Created' /\ Unlisted'
  BY <1>1, <1>2 DEF IInv, OwnFiles, OneCreator, Created, Unlisted, Creates, Holds
<1>7. Buried'
  BY <1>1, <1>2 DEF IInv, Buried, Past
<1>8. (~died => ListedFiled)'
  BY <1>1, <1>2 DEF IInv, ListedFiled, Filed, Holds
<1>9. QED
  BY <1>3, <1>4, <1>5, <1>6, <1>7, <1>8 DEF IInv

\* A request starts: at a document nobody has, or with what it reads of one.
LEMMA StartKeeps ==
    ASSUME IInv, NEW r \in Requests, NEW op \in Ops, NEW step \in Phases, NEW id \in Ids \union {<<>>},
           NEW todo \in SUBSET (Names \X (1..MaxFiles)), NEW doc \in Document,
           Starts(r, op, step, id, todo, doc),
           UNCHANGED <<docs, rows, inserts, now, died>>,
           \A n \in 0..MaxCalls \ {0} :
               RequestOK([op |-> op, step |-> step, id |-> id, todo |-> todo, call |-> n, doc |-> doc]),
           step \notin {"attach", "rewrite", "row"},
           step = "create" => id \in EvidenceIds /\ id[3] = now,
           step = "destroy" => Past(id) /\ ~(\E q \in Requests : reqs[q].id = id /\ reqs[q].step = "create"),
           step = "reread" =>
               op \in {"edit", "approve"} /\ id \in Live /\ doc.listed = docs[id].listed
    PROVE  IInv'
<1> DEFINE new == [op |-> op, step |-> step, id |-> id, todo |-> todo, call |-> calls + 1, doc |-> doc]
<1>1. calls' = calls + 1 /\ calls' \in 0..MaxCalls \ {0}
  BY DocumentAssumption DEF Starts, IInv, TypeOK
<1>2. (\A p \in Requests \ {r} : reqs'[p] = reqs[p]) /\ reqs'[r] = new
  BY DEF Starts, IInv, TypeOK
<1>3. new \in Request /\ RequestOK(new)
  BY <1>1 DEF Request
<1>4. TypeOK'
  <2>1. reqs' \in [Requests -> Request]
    BY <1>2, <1>3 DEF Starts, IInv, TypeOK
  <2>2. QED
    BY <2>1, <1>1 DEF IInv, TypeOK
<1>5. (\A q \in Requests : RequestOK(reqs[q]))'
  BY <1>2, <1>3 DEF IInv
<1>6. FilesIntact' /\ EvidenceUnlocked'
  BY DEF IInv, FilesIntact, Live, Intact, EvidenceUnlocked
<1>7. CASE step # "reread"
  <2>1. ~Holds(reqs[r])'
    BY <1>2, <1>7 DEF Holds
  <2>2. OwnFiles' /\ OneCreator' /\ Created' /\ Unlisted' /\ (~died => ListedFiled)'
    BY <1>2, <2>1, AloofKeeps, ListsKeep
  <2>3. \A p : Past(p) => Past(p)'
    BY <1>2 DEF Past, IInv, TypeOK, EvidenceIds
  <2>4. Buried'
    BY <1>2, <2>3 DEF IInv, Buried
  <2>5. QED
    BY <1>4, <1>5, <1>6, <2>2, <2>4 DEF IInv
<1>8. CASE step = "reread"
  <2>1. id \in Ids /\ docs[id].live /\ doc.listed = docs[id].listed /\ op \in {"edit", "approve"}
    BY <1>8 DEF Live
  <2>2. ~Creates(new) /\ new.op # "upload" /\ new.step = "reread" /\ new.id = id
        /\ new.doc.listed = docs[id].listed
    BY <1>8, <2>1 DEF Creates
  <2> HIDE DEF new
  <2>3. OwnFiles'
    BY <1>2, <2>1, <2>2 DEF IInv, OwnFiles, FilesIntact, Live, Intact
  <2>4. OneCreator' /\ Created'
    BY <1>2, <2>1, <2>2 DEF IInv, OneCreator, Created, Creates
  <2>5. Unlisted'
    <3> SUFFICES ASSUME NEW p \in Requests, reqs'[p].step = "attach"
                 PROVE  /\ docs[reqs'[p].id].listed = {}
                        /\ \A q \in Requests \ {p} :
                              reqs'[q].id = reqs'[p].id /\ Holds(reqs'[q]) =>
                                  reqs'[q].doc.listed = {}
      BY DEF Unlisted, Holds
    <3>1. p # r /\ reqs'[p] = reqs[p] /\ reqs[p].step = "attach"
      BY <1>2, <2>2
    <3>2. docs[reqs[p].id].listed = {}
      BY <3>1 DEF IInv, Unlisted
    <3> QED
      BY <1>2, <2>2, <3>1, <3>2 DEF IInv, Unlisted
  <2>6. (\A p : Past(p) => Past(p)') /\ Buried'
    BY <1>2, <2>2 DEF IInv, Buried, Past
  <2>7. (~died => ListedFiled)'
    BY <1>2, <2>2 DEF IInv, ListedFiled, Filed
  <2>8. QED
    BY <1>4, <1>5, <1>6, <2>3, <2>4, <2>5, <2>6, <2>7 DEF IInv
<1>9. QED
  BY <1>7, <1>8

LEMMA AbsentOK ==
    /\ Absent \in Document /\ Absent.listed = {} /\ Absent.locked = "unset" /\ ~Absent.live
    /\ Absent.held = {}
  BY DocumentAssumption DEF Absent, Document, Locks

\* What editing and approving change of a document in memory.
LEMMA ChangedOK ==
    ASSUME NEW d \in Document, NEW v \in 0..MaxVersions, NEW lock \in Locks
    PROVE  /\ [d EXCEPT !.isList = FALSE, !.version = v, !.locked = lock] \in Document
           /\ [d EXCEPT !.isList = FALSE, !.version = v, !.locked = lock].listed = d.listed
           /\ [d EXCEPT !.locked = lock] \in Document
           /\ [d EXCEPT !.locked = lock].listed = d.listed
           /\ [d EXCEPT !.locked = lock].locked = lock
  BY DEF Document

LEMMA LockOK ==
    ASSUME NEW old, NEW new, old.locked \in Locks, new.locked \in Locks
    PROVE  LockAfter(old, new) \in Locks
  BY DEF LockAfter

LEMMA ChecksKeep ==
    ASSUME IInv, NEW r \in Requests,
           UploadCheck(r) \/ DeleteCheck(r) \/ GenerateCheck(r) \/ EditRead(r) \/ ApproveRead(r)
    PROVE  IInv'
<1>1. CASE UploadCheck(r)
  <2>1. PICK task \in Tasks, files \in SUBSET (Names \X (1..MaxFiles)) :
          Starts(r, "upload", "create", EvidenceId(task), files, Absent)
    BY <1>1 DEF UploadCheck, Uploads
  <2>2. EvidenceId(task) \in EvidenceIds /\ EvidenceId(task)[3] = now
    BY DEF EvidenceId, EvidenceIds, IInv, TypeOK
  <2>3. \A n \in 0..MaxCalls \ {0} :
          RequestOK([op |-> "upload", step |-> "create", id |-> EvidenceId(task), todo |-> files,
                     call |-> n, doc |-> Absent])
    BY <2>2, AbsentOK DEF RequestOK
  <2>4. QED
    BY ZenonT(60), <1>1, <2>1, <2>2, <2>3, AbsentOK, IdsDiffer, StartKeeps DEF UploadCheck, Ops, Phases
<1>2. CASE DeleteCheck(r)
  <2>1. PICK id \in Live \cap EvidenceIds :
          /\ id[3] < now
          /\ \A q \in Requests : reqs[q].id = id => reqs[q].step # "create"
          /\ Starts(r, "delete", "destroy", id, {}, docs[id])
    BY <1>2 DEF DeleteCheck
  <2>2. docs[id] \in Document /\ Past(id)
    BY <2>1 DEF IInv, TypeOK, Live, Past
  <2>3. \A n \in 0..MaxCalls \ {0} :
          RequestOK([op |-> "delete", step |-> "destroy", id |-> id, todo |-> {}, call |-> n,
                     doc |-> docs[id]])
    BY DEF RequestOK
  <2>4. QED
    BY ZenonT(60), <1>2, <2>1, <2>2, <2>3, IdsDiffer, StartKeeps DEF DeleteCheck, Ops, Phases
<1>3. CASE GenerateCheck(r)
  <2>1. \A n \in 0..MaxCalls \ {0} :
          RequestOK([op |-> "generate", step |-> "version", id |-> <<>>, todo |-> {}, call |-> n,
                     doc |-> Absent])
    BY AbsentOK DEF RequestOK
  <2>2. QED
    BY ZenonT(60), <1>3, <2>1, AbsentOK, StartKeeps DEF GenerateCheck, Ops, Phases
<1>4. CASE EditRead(r)
  <2>1. PICK id \in Live \cap ReportIds, body \in Bodies :
          Starts(r, "edit", IF docs[id].locked = "yes" THEN "insert" ELSE "reread", id, {},
                 [docs[id] EXCEPT !.isList = FALSE, !.version = body.version,
                                  !.locked = LockAfter(docs[id], body)])
    BY <1>4 DEF EditRead
  <2> DEFINE doc == [docs[id] EXCEPT !.isList = FALSE, !.version = body.version,
                                     !.locked = LockAfter(docs[id], body)]
             step == IF docs[id].locked = "yes" THEN "insert" ELSE "reread"
  <2>2. docs[id] \in Document /\ id \in Ids
    BY DEF IInv, TypeOK, Live
  <2>3. doc \in Document /\ doc.listed = docs[id].listed
    <3>1. body.version \in 0..MaxVersions /\ body.locked \in Locks /\ docs[id].locked \in Locks
      BY <2>2 DEF Bodies, Document
    <3> DEFINE d == docs[id]
               v == body.version
               lock == LockAfter(docs[id], body)
    <3>2. d \in Document /\ v \in 0..MaxVersions /\ lock \in Locks
      BY <2>2, <3>1, LockOK
    <3>3. doc = [d EXCEPT !.isList = FALSE, !.version = v, !.locked = lock]
      OBVIOUS
    <3> HIDE DEF d, v, lock, doc
    <3>4. doc \in Document /\ doc.listed = d.listed
      BY ZenonT(60), <3>2, <3>3, ChangedOK
    <3>5. QED
      BY <3>4 DEF d
  <2>4. step \in {"insert", "reread"}
    OBVIOUS
  <2>5. Starts(r, "edit", step, id, {}, doc)
    BY <2>1
  <2> HIDE DEF doc, step
  <2>6. \A n \in 0..MaxCalls \ {0} :
          RequestOK([op |-> "edit", step |-> step, id |-> id, todo |-> {}, call |-> n, doc |-> doc])
    BY <2>4 DEF RequestOK
  <2>7. step \in Phases /\ "edit" \in Ops /\ step # "create" /\ step # "destroy"
        /\ step \notin {"attach", "rewrite", "row"}
    BY <2>4 DEF Ops, Phases
  <2>8. UNCHANGED <<docs, rows, inserts, now, died>>
    BY <1>4 DEF EditRead
  <2>9. QED
    BY <2>1, <2>2, <2>3, <2>5, <2>6, <2>7, <2>8, StartKeeps
<1>5. CASE ApproveRead(r)
  <2>1. PICK id \in Live \cap ReportIds :
          Starts(r, "approve", "reread", id, {}, [docs[id] EXCEPT !.locked = "yes"])
    BY <1>5 DEF ApproveRead
  <2> DEFINE doc == [docs[id] EXCEPT !.locked = "yes"]
  <2>2. docs[id] \in Document /\ id \in Ids
    BY DEF IInv, TypeOK, Live
  <2>3. doc \in Document /\ doc.listed = docs[id].listed /\ doc.locked = "yes"
    BY <2>2, "yes" \in Locks, DocumentAssumption, 0 \in 0..MaxVersions, ChangedOK DEF Locks
  <2>4. Starts(r, "approve", "reread", id, {}, doc)
    BY <2>1
  <2> HIDE DEF doc
  <2>5. \A n \in 0..MaxCalls \ {0} :
          RequestOK([op |-> "approve", step |-> "reread", id |-> id, todo |-> {}, call |-> n,
                     doc |-> doc])
    BY <2>3 DEF RequestOK
  <2>6. QED
    BY ZenonT(60), <1>5, <2>2, <2>3, <2>4, <2>5, StartKeeps DEF ApproveRead, Ops, Phases
<1>6. QED
  BY <1>1, <1>2, <1>3, <1>4, <1>5

\* A report takes the next version number.
LEMMA VersionKeeps ==
    ASSUME IInv, NEW r \in Requests, GenerateVersion(r)
    PROVE  IInv'
<1> DEFINE id == <<"report", NextVersion>>
<1>1. id \in ReportIds /\ id \in Ids /\ id \notin EvidenceIds /\ NextVersion \in 0..MaxVersions
  BY IdsDiffer DEF GenerateVersion, ReportIds
<1>2. UNCHANGED <<docs, rows, inserts, now, calls, died>>
  BY DEF GenerateVersion
<1>3. /\ \A p \in Requests \ {r} : reqs'[p] = reqs[p]
      /\ reqs'[r].op = reqs[r].op /\ reqs'[r].id = id /\ reqs'[r].step = "create"
      /\ reqs'[r].todo = reqs[r].todo /\ reqs'[r].call = reqs[r].call
      /\ reqs'[r].doc.listed = reqs[r].doc.listed /\ reqs'[r].doc.locked = reqs[r].doc.locked
      /\ reqs' \in [Requests -> Request]
  <2>1. reqs \in [Requests -> Request] /\ reqs[r] \in Request /\ reqs[r].doc \in Document
    BY DEF IInv, TypeOK, Request
  <2> DEFINE doc == [reqs[r].doc EXCEPT !.version = NextVersion]
  <2>2. doc \in Document /\ doc.listed = reqs[r].doc.listed /\ doc.locked = reqs[r].doc.locked
    BY <1>1, <2>1 DEF Document
  <2>3. reqs' = [reqs EXCEPT ![r].id = id, ![r].doc = doc, ![r].step = "create"]
    BY <2>1 DEF GenerateVersion, Request
  <2> HIDE DEF id, doc
  <2>4. QED
    BY <1>1, <2>1, <2>2, <2>3 DEF Request, Phases
<1> HIDE DEF id
<1>4. (\A p \in Requests : RequestOK(reqs[p]))'
  BY <1>1, <1>3 DEF IInv, RequestOK, GenerateVersion
<1>5. ~Holds(reqs[r])'
  BY <1>3 DEF Holds
<1>6. OwnFiles' /\ OneCreator' /\ Created' /\ Unlisted' /\ (~died => ListedFiled)'
  BY <1>2, <1>3, <1>5, AloofKeeps, ListsKeep
<1>7. \A p : Past(p) => Past(p)'
  BY <1>1, <1>2, <1>3 DEF Past
<1>8. Buried'
  BY <1>2, <1>3, <1>7 DEF IInv, Buried
<1>9. FilesIntact' /\ EvidenceUnlocked' /\ TypeOK'
  BY <1>2, <1>3 DEF IInv, FilesIntact, Live, Intact, EvidenceUnlocked, TypeOK
<1>10. QED
  BY <1>4, <1>6, <1>8, <1>9 DEF IInv

\* The document as it is created.
LEMMA FirstOK ==
    ASSUME NEW d \in Document, NEW n \in Nat, n > 0
    PROVE  /\ [d EXCEPT !.rev = n, !.live = TRUE] \in Document
           /\ [d EXCEPT !.rev = n, !.live = TRUE].live
           /\ [d EXCEPT !.rev = n, !.live = TRUE].rev = n
           /\ [d EXCEPT !.rev = n, !.live = TRUE].listed = d.listed
           /\ [d EXCEPT !.rev = n, !.live = TRUE].locked = d.locked
  BY DEF Document

\* A document is created under an id that has never been used.
LEMMA CreateKeeps ==
    ASSUME IInv, NEW r \in Requests, reqs[r].step = "create", Create(r, "attach"),
           UNCHANGED <<rows, inserts, now, calls, died>>
    PROVE  IInv'
<1> DEFINE id == reqs[r].id
           doc == [reqs[r].doc EXCEPT !.rev = docs[id].rev + 1, !.live = TRUE]
<1>1. CASE docs[id].live
  BY <1>1, EndsKeeps DEF Create
<1>2. CASE ~docs[id].live
  <2>1. id \in Ids /\ docs[id] \in Document /\ reqs[r] \in Request /\ RequestOK(reqs[r])
    BY IdOK DEF IInv, TypeOK
  <2>2. docs[id].rev = 0
    BY <1>2, <2>1 DEF IInv, Buried, Past, Document
  <2>3. \A q \in Requests : reqs[q].id = id => ~Holds(reqs[q]) /\ reqs[q].step # "row"
    BY <2>2 DEF IInv, Created, Buried
  <2>4. /\ doc \in Document /\ doc.live /\ doc.rev > 0 /\ doc.listed = {}
        /\ doc.locked = reqs[r].doc.locked
    <3>1. reqs[r].doc \in Document /\ reqs[r].doc.listed = {} /\ docs[id].rev \in Nat
      BY <2>1 DEF Document, Request, RequestOK
    <3>2. docs[id].rev + 1 \in Nat /\ docs[id].rev + 1 > 0
      BY <3>1
    <3>3. QED
      BY <3>1, <3>2, FirstOK
  <2>5. docs' = [docs EXCEPT ![id] = doc]
        /\ reqs' = [reqs EXCEPT ![r].doc = doc, ![r].step = "attach"]
    BY <1>2 DEF Create
  <2> HIDE DEF doc
  <2>6. /\ docs'[id] = doc /\ \A p \in Ids \ {id} : docs'[p] = docs[p]
        /\ docs' \in [Ids -> Document]
    BY <2>1, <2>4, <2>5 DEF IInv, TypeOK
  <2>7. /\ \A p \in Requests \ {r} : reqs'[p] = reqs[p]
        /\ reqs'[r].op = reqs[r].op /\ reqs'[r].id = id /\ reqs'[r].step = "attach"
        /\ reqs'[r].todo = reqs[r].todo /\ reqs'[r].call = reqs[r].call
        /\ reqs'[r].doc = doc
        /\ reqs' \in [Requests -> Request]
    BY <2>4, <2>5 DEF IInv, TypeOK, Request, Phases
  <2>8. reqs[r].op \in {"upload", "generate"} /\ id \in Ids
    BY <2>1 DEF RequestOK
  <2> HIDE DEF id
  <2>9. TypeOK'
    BY <2>6, <2>7 DEF IInv, TypeOK
  <2>10. (\A p \in Requests : RequestOK(reqs[p]))'
    <3>1. RequestOK(reqs'[r])
      BY <2>1, <2>4, <2>7, <2>8 DEF RequestOK, id
    <3>2. QED
      BY <2>7, <3>1 DEF IInv
  <2>11. FilesIntact'
    BY <2>4, <2>6 DEF IInv, FilesIntact, Live, Intact
  <2>12. EvidenceUnlocked'
    BY <2>1, <2>4, <2>6, <2>8, IdsDiffer DEF IInv, EvidenceUnlocked, RequestOK, id
  <2>13. \A p \in Requests \ {r} : Holds(reqs[p]) => reqs[p].id \in Ids \ {id}
    BY <2>3, IdOK DEF Holds
  <2>14. OwnFiles'
    <3>1. Intact(reqs'[r].doc.listed, docs'[id].held)
      BY <2>4, <2>7 DEF Intact
    <3>2. \A p \in Requests \ {r} :
             Holds(reqs[p]) /\ docs'[reqs[p].id].live =>
                 Intact(reqs[p].doc.listed, docs'[reqs[p].id].held)
      BY <2>6, <2>13 DEF IInv, OwnFiles
    <3>3. QED
      BY <2>7, <3>1, <3>2 DEF OwnFiles
  <2>15. OneCreator' /\ Created'
    BY <2>4, <2>6, <2>7, <2>13 DEF IInv, OneCreator, Created, Creates, Holds
  <2>16. Unlisted'
    <3>1. \A p \in Requests : reqs'[p].step = "attach" => docs'[reqs'[p].id].listed = {}
      <4>1. reqs'[r].step = "attach" => docs'[reqs'[r].id].listed = {}
        BY <2>4, <2>6, <2>7
      <4>2. ASSUME NEW p \in Requests \ {r}, reqs'[p].step = "attach"
            PROVE  docs'[reqs'[p].id].listed = {}
        <5>1. reqs'[p] = reqs[p] /\ reqs[p].id \in Ids \ {id} /\ docs[reqs[p].id].listed = {}
          BY <2>7, <2>13, <4>2 DEF IInv, Unlisted, Holds
        <5>2. docs'[reqs[p].id] = docs[reqs[p].id]
          BY <2>6, <5>1
        <5>3. QED
          BY <5>1, <5>2
      <4>3. QED
        BY <4>1, <4>2
    <3>2. \A p \in Requests : \A q \in Requests \ {p} :
             reqs'[p].step = "attach" /\ reqs'[q].id = reqs'[p].id /\ Holds(reqs'[q]) =>
                 reqs'[q].doc.listed = {}
      BY <2>4, <2>7, <2>13 DEF IInv, Unlisted, Holds
    <3>3. QED
      BY <3>1, <3>2 DEF Unlisted, Holds
  <2>17. Buried'
    <3>1. \A p : Past(p) => Past(p)'
      BY <2>7 DEF Past
    <3>2. \A p \in Ids : docs'[p].rev > 0 /\ ~docs'[p].live => Past(p)'
      BY <2>4, <2>6, <3>1 DEF IInv, Buried
    <3>3. \A p \in Requests : reqs'[p].step = "destroy" => Past(reqs[p].id)'
      BY <2>7, <3>1 DEF IInv, Buried
    <3>4. \A p \in Requests : reqs'[p].step = "row" =>
              docs'[reqs'[p].id].rev > 0 /\ ~docs'[reqs'[p].id].live
      BY <2>3, <2>6, <2>7, IdOK DEF IInv, Buried
    <3>5. QED
      BY <3>2, <3>3, <3>4 DEF Buried
  <2>18. (~died => ListedFiled)'
    BY <2>4, <2>6, <2>7, <2>13, IdsDiffer DEF IInv, ListedFiled, Filed, Holds
  <2>19. QED
    BY <2>9, <2>10, <2>11, <2>12, <2>14, <2>15, <2>16, <2>17, <2>18 DEF IInv
<1>3. QED
  BY <1>1, <1>2

\* What attaching a file makes of the document and of the request.
LEMMA AttachFields ==
    ASSUME IInv, NEW r \in Requests, reqs[r].step = "attach", NEW file \in Files,
           NEW step \in Phases, Attach(r, file, step)
    PROVE  /\ \A p \in Ids \ {reqs[r].id} : docs'[p] = docs[p]
           /\ docs' \in [Ids -> Document]
           /\ docs'[reqs[r].id].live /\ docs'[reqs[r].id].rev > 0
           /\ docs'[reqs[r].id].listed = docs[reqs[r].id].listed
           /\ docs'[reqs[r].id].locked = docs[reqs[r].id].locked
           /\ docs'[reqs[r].id].held =
                 {f \in docs[reqs[r].id].held : f.name # file.name} \union {file}
           /\ \A p \in Requests \ {r} : reqs'[p] = reqs[p]
           /\ reqs' \in [Requests -> Request]
           /\ reqs'[r].op = reqs[r].op /\ reqs'[r].id = reqs[r].id /\ reqs'[r].step = step
           /\ reqs'[r].call = reqs[r].call
           /\ reqs'[r].todo = reqs[r].todo \ {<<file.name, file.copy>>}
           /\ reqs'[r].doc.listed = reqs[r].doc.listed \union {file}
           /\ reqs'[r].doc.locked = reqs[r].doc.locked
<1> DEFINE id == reqs[r].id
           held == {f \in docs[id].held : f.name # file.name} \union {file}
           rev == docs[id].rev + 1
<1>1. /\ id \in Ids /\ docs[id] \in Document /\ reqs[r] \in Request /\ reqs[r].doc \in Document
      /\ docs[id].live
  BY IdOK DEF IInv, TypeOK, Request, Attach, Current
<1>2. rev \in Nat /\ rev > 0 /\ held \in SUBSET Files
  BY <1>1 DEF Document
<1>3. docs' = [docs EXCEPT ![id].held = held, ![id].rev = rev]
  BY DEF Attach
<1>4. reqs' = [reqs EXCEPT ![r].doc.rev = rev, ![r].doc.listed = @ \union {file},
                           ![r].todo = @ \ {<<file.name, file.copy>>}, ![r].step = step]
  BY DEF Attach
<1>5. docs \in [Ids -> Document] /\ reqs \in [Requests -> Request]
  BY DEF IInv, TypeOK
<1> HIDE DEF id, held, rev
<1>6. \A p \in Ids \ {id} : docs'[p] = docs[p]
  BY <1>1, <1>3, <1>5
<1>7. docs'[id] = [docs[id] EXCEPT !.held = held, !.rev = rev]
  BY <1>1, <1>3, <1>5
<1>8. /\ docs'[id] \in Document /\ docs'[id].live /\ docs'[id].rev > 0
      /\ docs'[id].listed = docs[id].listed /\ docs'[id].locked = docs[id].locked
      /\ docs'[id].held = held
  BY <1>1, <1>2, <1>7 DEF Document
<1>9. docs' \in [Ids -> Document]
  BY <1>1, <1>3, <1>5, <1>6, <1>8
<1>10. \A p \in Requests \ {r} : reqs'[p] = reqs[p]
  BY <1>4, <1>5
<1>11. /\ reqs'[r].op = reqs[r].op /\ reqs'[r].id = reqs[r].id /\ reqs'[r].step = step
       /\ reqs'[r].call = reqs[r].call
       /\ reqs'[r].todo = reqs[r].todo \ {<<file.name, file.copy>>}
       /\ reqs'[r].doc = [reqs[r].doc EXCEPT !.rev = rev, !.listed = reqs[r].doc.listed \union {file}]
  BY <1>1, <1>4, <1>5 DEF Request
<1>12. /\ reqs'[r].doc \in Document
       /\ reqs'[r].doc.listed = reqs[r].doc.listed \union {file}
       /\ reqs'[r].doc.locked = reqs[r].doc.locked
  <2> DEFINE listed == reqs[r].doc.listed \union {file}
  <2>1. listed \in SUBSET Files
    BY <1>1 DEF Document
  <2>2. reqs'[r].doc = [reqs[r].doc EXCEPT !.rev = rev, !.listed = listed]
    BY <1>11
  <2> DEFINE d == reqs[r].doc
  <2> HIDE DEF listed
  <2>3. reqs'[r].doc \in Document /\ reqs'[r].doc.listed = listed
        /\ reqs'[r].doc.locked = reqs[r].doc.locked
    <3>1. d \in Document /\ reqs'[r].doc = [d EXCEPT !.rev = rev, !.listed = listed]
      BY <1>1, <2>2
    <3> HIDE DEF d
    <3>2. reqs'[r].doc \in Document /\ reqs'[r].doc.listed = listed
          /\ reqs'[r].doc.locked = d.locked
      BY <1>2, <2>1, <3>1 DEF Document
    <3>3. QED
      BY <3>2 DEF d
  <2>4. QED
    BY <2>3 DEF listed
<1>13. reqs' \in [Requests -> Request]
  <2>1. reqs'[r] \in Request
    BY ZenonT(60), <1>1, <1>4, <1>5, <1>11, <1>12 DEF Request
  <2>2. QED
    BY <1>4, <1>5, <1>10, <2>1
<1>14. QED
  BY <1>6, <1>8, <1>9, <1>10, <1>11, <1>12, <1>13 DEF id, held

\* A file is attached by the one request that created the document.
LEMMA AttachKeeps ==
    ASSUME IInv, NEW r \in Requests, reqs[r].step = "attach", NEW file \in Files,
           NEW step \in {"attach", "reread"}, Attach(r, file, step),
           step = "attach" => reqs[r].op = "upload",
           inserts \subseteq inserts', inserts' \subseteq [id : EvidenceIds, file : Files],
           reqs[r].op = "upload" => [id |-> reqs[r].id, file |-> file] \in inserts',
           UNCHANGED <<rows, now, calls, died>>
    PROVE  IInv'
<1> DEFINE id == reqs[r].id
<1>1. /\ id \in Ids /\ docs[id].live /\ RequestOK(reqs[r])
      /\ docs[id].listed = {}
      /\ \A q \in Requests \ {r} : reqs[q].id = id /\ Holds(reqs[q]) => reqs[q].doc.listed = {}
  BY IdOK DEF IInv, Unlisted, Attach, Current
<1>2. /\ Holds(reqs[r]) /\ Creates(reqs[r])
      /\ \A q \in Requests \ {r} : reqs[q].id = id => reqs[q].step # "attach"
  BY <1>1 DEF IInv, OneCreator, Creates, Holds, RequestOK
<1>3. /\ \A p \in Ids \ {id} : docs'[p] = docs[p]
      /\ docs' \in [Ids -> Document]
      /\ docs'[id].live /\ docs'[id].rev > 0
      /\ docs'[id].listed = {} /\ docs'[id].locked = docs[id].locked
      /\ docs'[id].held = {f \in docs[id].held : f.name # file.name} \union {file}
  BY SMTT(40), <1>1, AttachFields DEF Phases
<1>4. /\ \A p \in Requests \ {r} : reqs'[p] = reqs[p]
      /\ reqs' \in [Requests -> Request]
      /\ reqs'[r].op = reqs[r].op /\ reqs'[r].id = id /\ reqs'[r].step = step
      /\ reqs'[r].call = reqs[r].call
      /\ reqs'[r].todo = reqs[r].todo \ {<<file.name, file.copy>>}
      /\ reqs'[r].doc.listed = reqs[r].doc.listed \union {file}
      /\ reqs'[r].doc.locked = reqs[r].doc.locked
  BY AttachFields DEF Phases
<1> HIDE DEF id
<1>5. TypeOK'
  BY <1>3, <1>4 DEF IInv, TypeOK
<1>6. (\A p \in Requests : RequestOK(reqs[p]))'
  <2>1. RequestOK(reqs'[r])
    BY <1>1, <1>4 DEF RequestOK, id
  <2>2. QED
    BY <1>4, <2>1 DEF IInv
<1>7. FilesIntact'
  BY <1>3 DEF IInv, FilesIntact, Live, Intact
<1>8. EvidenceUnlocked'
  <2>1. \A p \in EvidenceIds : docs[p].locked = "unset" /\ (p = id \/ p \in Ids \ {id})
    BY IdsDiffer DEF IInv, EvidenceUnlocked
  <2>2. QED
    BY <1>3, <2>1 DEF EvidenceUnlocked
<1>9. OwnFiles'
  <2>1. Intact(reqs'[r].doc.listed, docs'[id].held)
    <3>1. Intact(reqs[r].doc.listed, docs[id].held)
      BY <1>1, <1>2 DEF IInv, OwnFiles, id
    <3>2. SUFFICES ASSUME NEW f \in reqs'[r].doc.listed
                   PROVE  \E g \in docs'[id].held \cap reqs'[r].doc.listed : g.name = f.name
      BY DEF Intact
    <3>3. CASE f.name = file.name
      BY <1>3, <1>4, <3>3
    <3>4. CASE f.name # file.name
      <4>1. PICK g \in docs[id].held \cap reqs[r].doc.listed : g.name = f.name
        BY <1>4, <3>1, <3>4 DEF Intact
      <4>2. g \in docs'[id].held \cap reqs'[r].doc.listed
        BY <1>3, <1>4, <3>4, <4>1
      <4>3. QED
        BY <4>1, <4>2
    <3>5. QED
      BY <3>3, <3>4
  <2>2. \A q \in Requests \ {r} :
          Holds(reqs[q]) /\ docs'[reqs[q].id].live =>
              Intact(reqs[q].doc.listed, docs'[reqs[q].id].held)
    <3>1. SUFFICES ASSUME NEW q \in Requests \ {r}, Holds(reqs[q]), docs'[reqs[q].id].live
                   PROVE  Intact(reqs[q].doc.listed, docs'[reqs[q].id].held)
      OBVIOUS
    <3>2. CASE reqs[q].id = id
      BY <1>1, <3>1, <3>2 DEF Intact
    <3>3. CASE reqs[q].id # id
      BY <1>3, <3>1, <3>3, IdOK DEF IInv, OwnFiles, Holds
    <3>4. QED
      BY <3>2, <3>3
  <2>3. QED
    BY <1>4, <2>1, <2>2 DEF OwnFiles
<1>10. OneCreator'
  BY <1>2, <1>4 DEF IInv, OneCreator, Creates, Holds, id
<1>11. Created'
  BY <1>3, <1>4, IdOK DEF IInv, Created, Holds
<1>12. Unlisted'
  <2>1. \A p \in Requests \ {r} : reqs[p].step = "attach" => reqs[p].id \in Ids \ {id}
    BY <1>2, IdOK
  <2>2. \A p \in Requests : reqs'[p].step = "attach" => docs'[reqs'[p].id].listed = {}
    <3>1. docs'[reqs'[r].id].listed = {}
      BY <1>3, <1>4
    <3>2. \A p \in Requests \ {r} :
             reqs[p].step = "attach" => docs'[reqs[p].id] = docs[reqs[p].id]
      BY <1>3, <2>1
    <3>3. QED
      BY <1>4, <3>1, <3>2 DEF IInv, Unlisted
  <2>3. \A p \in Requests : \A q \in Requests \ {p} :
           reqs'[p].step = "attach" /\ reqs'[q].id = reqs'[p].id /\ Holds(reqs'[q]) =>
               reqs'[q].doc.listed = {}
    BY <1>1, <1>4, <2>1 DEF IInv, Unlisted
  <2>4. QED
    BY <2>2, <2>3 DEF Unlisted, Holds
<1>13. Buried'
  <2>1. \A p : Past(p) => Past(p)'
    BY <1>4 DEF Past
  <2>2. \A p \in Ids : docs'[p].rev > 0 /\ ~docs'[p].live => Past(p)'
    BY <1>3, <2>1 DEF IInv, Buried
  <2>3. \A p \in Requests : reqs'[p].step = "destroy" => Past(reqs[p].id)'
    BY <1>4, <2>1 DEF IInv, Buried
  <2>4. \A p \in Requests : reqs'[p].step = "row" =>
            docs'[reqs'[p].id].rev > 0 /\ ~docs'[reqs'[p].id].live
    BY <1>1, <1>3, <1>4, IdOK DEF IInv, Buried
  <2>5. QED
    BY <1>4, <2>2, <2>3, <2>4 DEF Buried
<1>14. (~died => ListedFiled)'
  <2> DEFINE Kept(p, f) == rows'[p] = f \/ [id |-> p, file |-> f] \in inserts'
  <2>1. \A p, f : Filed(p, f) => Kept(p, f)
    BY DEF Filed
  <2>2. SUFFICES ASSUME ~died PROVE ListedFiled'
    OBVIOUS
  <2> HIDE DEF Kept
  <2>3. \A p \in EvidenceIds : docs'[p].live => \A f \in docs'[p].listed : Kept(p, f)
    BY <1>3, <2>1, <2>2, IdsDiffer DEF IInv, ListedFiled
  <2>4. reqs[r].op = "upload" => \A f \in reqs'[r].doc.listed : Kept(id, f)
    BY <1>1, <1>2, <1>4, <2>1, <2>2 DEF IInv, ListedFiled, Kept, id
  <2>5. \A p \in Requests \ {r} :
          reqs[p].op = "upload" /\ Holds(reqs[p]) /\ docs'[reqs[p].id].live =>
              \A f \in reqs[p].doc.listed : Kept(reqs[p].id, f)
    <3>1. \A p \in Requests \ {r} :
             Holds(reqs[p]) /\ docs'[reqs[p].id].live => docs[reqs[p].id].live
      <4>1. \A p \in Requests : Holds(reqs[p]) => reqs[p].id = id \/ reqs[p].id \in Ids \ {id}
        BY IdOK DEF Holds
      <4>2. QED
        BY <1>1, <1>3, <4>1
    <3>2. \A p \in Requests \ {r} :
             reqs[p].op = "upload" /\ Holds(reqs[p]) /\ docs[reqs[p].id].live =>
                 \A f \in reqs[p].doc.listed : Filed(reqs[p].id, f)
      BY <2>2 DEF IInv, ListedFiled
    <3>3. QED
      BY <2>1, <3>1, <3>2
  <2>6. \A p \in Requests :
          reqs'[p].op = "upload" /\ Holds(reqs'[p]) /\ docs'[reqs'[p].id].live =>
              \A f \in reqs'[p].doc.listed : Kept(reqs'[p].id, f)
    BY <1>4, <2>4, <2>5
  <2>7. QED
    BY <2>3, <2>6 DEF ListedFiled, Filed, Kept, Holds
<1>15. QED
  BY SMTT(40), <1>5, <1>6, <1>7, <1>8, <1>9, <1>10, <1>11, <1>12, <1>13, <1>14 DEF IInv

LEMMA AttachmentsKeep ==
    ASSUME IInv, NEW r \in Requests, UploadAttach(r) \/ GenerateAttach(r)
    PROVE  IInv'
<1>1. reqs[r] \in Request /\ RequestOK(reqs[r]) /\ inserts \subseteq [id : EvidenceIds, file : Files]
  BY DEF IInv, TypeOK
<1>2. CASE UploadAttach(r)
  <2>1. CASE ~Current(r) /\ Ends(r) /\ UNCHANGED <<docs, inserts>>
    BY <1>2, <2>1, EndsKeeps DEF UploadAttach
  <2>2. ASSUME NEW next \in reqs[r].todo,
               Attach(r, [name |-> next[1], copy |-> next[2], call |-> reqs[r].call],
                      IF reqs[r].todo = {next} THEN "reread" ELSE "attach"),
               inserts' = inserts \union
                   {[id |-> reqs[r].id,
                     file |-> [name |-> next[1], copy |-> next[2], call |-> reqs[r].call]]}
        PROVE  IInv'
    <3> DEFINE file == [name |-> next[1], copy |-> next[2], call |-> reqs[r].call]
               step == IF reqs[r].todo = {next} THEN "reread" ELSE "attach"
    <3>1. file \in Files /\ reqs[r].id \in EvidenceIds
      <4>1. reqs[r].call \in 1..MaxCalls /\ reqs[r].id \in EvidenceIds
        BY <1>1, <1>2 DEF Request, RequestOK, UploadAttach
      <4>2. next[1] \in Names /\ next[2] \in 1..MaxFiles
        BY <1>1 DEF Request
      <4>3. QED
        BY <4>1, <4>2 DEF Files
    <3>2. step \in {"attach", "reread"}
      OBVIOUS
    <3>3. Attach(r, file, step)
      BY <2>2
    <3>4. inserts' = inserts \union {[id |-> reqs[r].id, file |-> file]}
      BY <2>2
    <3> HIDE DEF file, step
    <3>5. inserts \subseteq inserts' /\ inserts' \subseteq [id : EvidenceIds, file : Files]
          /\ [id |-> reqs[r].id, file |-> file] \in inserts'
      BY <1>1, <3>1, <3>4
    <3>6. reqs[r].step = "attach" /\ reqs[r].op = "upload" /\ UNCHANGED <<rows, now, calls, died>>
      BY <1>2 DEF UploadAttach
    <3>7. QED
      BY <3>1, <3>2, <3>3, <3>5, <3>6, AttachKeeps
  <2>3. QED
    BY <1>2, <2>1, <2>2 DEF UploadAttach
<1>3. CASE GenerateAttach(r)
  <2>1. CASE ~Current(r) /\ Ends(r) /\ UNCHANGED docs
    BY <1>3, <2>1, EndsKeeps DEF GenerateAttach
  <2>2. CASE Attach(r, ReportFile(r), "reread")
    <3>1. ReportFile(r) \in Files
      BY <1>1, <1>3, DocumentAssumption DEF Request, RequestOK, Files, GenerateAttach, ReportFile
    <3>2. /\ reqs[r].step = "attach" /\ reqs[r].op = "generate" /\ reqs[r].doc.listed = {}
          /\ UNCHANGED <<rows, inserts, now, calls, died>>
      BY <1>1, <1>3 DEF GenerateAttach, RequestOK
    <3>3. QED
      BY <1>1, <2>2, <3>1, <3>2, AttachKeeps
  <2>3. QED
    BY <1>3, <2>1, <2>2 DEF GenerateAttach
<1>4. QED
  BY <1>2, <1>3

\* Reading the revision anew changes no list.
LEMMA RereadKeeps ==
    ASSUME IInv, NEW r \in Requests, Reread(r)
    PROVE  IInv'
<1>1. /\ reqs[r] \in Request /\ RequestOK(reqs[r]) /\ reqs[r].doc \in Document
      /\ reqs[r].id \in Ids /\ docs[reqs[r].id] \in Document /\ reqs[r].step = "reread"
      /\ UNCHANGED <<docs, rows, inserts, now, calls, died>>
  BY IdOK DEF IInv, TypeOK, Request, Reread
<1>2. CASE Ends(r)
  BY <1>1, <1>2, EndsKeeps
<1>3. CASE /\ docs[reqs[r].id].live
           /\ reqs' = [reqs EXCEPT ![r].doc.rev = docs[reqs[r].id].rev, ![r].step = "rewrite"]
  <2> DEFINE d == reqs[r].doc
             rev == docs[reqs[r].id].rev
  <2>1. /\ \A p \in Requests \ {r} : reqs'[p] = reqs[p]
        /\ reqs'[r].op = reqs[r].op /\ reqs'[r].id = reqs[r].id /\ reqs'[r].step = "rewrite"
        /\ reqs'[r].call = reqs[r].call /\ reqs'[r].todo = reqs[r].todo
        /\ reqs'[r].doc = [d EXCEPT !.rev = rev]
    BY <1>1, <1>3 DEF Request, IInv, TypeOK
  <2>2. d \in Document /\ rev \in Nat
    BY <1>1 DEF Document
  <2> HIDE DEF d, rev
  <2>3. reqs'[r].doc \in Document /\ reqs'[r].doc.listed = d.listed
        /\ reqs'[r].doc.locked = d.locked
    BY <2>1, <2>2 DEF Document
  <2>4. reqs' \in [Requests -> Request]
    <3>1. reqs'[r] \in Request
      BY <1>1, <1>3, <2>1, <2>3 DEF Request, Phases, IInv, TypeOK
    <3>2. QED
      BY <1>3, <2>1, <3>1 DEF IInv, TypeOK
  <2>5. (\A p \in Requests : RequestOK(reqs[p]))'
    <3>1. RequestOK(reqs'[r])
      BY <1>1, <2>1, <2>3 DEF RequestOK, d
    <3>2. QED
      BY <2>1, <3>1 DEF IInv
  <2>6. /\ \A p \in Requests : /\ reqs'[p].op = reqs[p].op /\ reqs'[p].id = reqs[p].id
                               /\ reqs'[p].doc.listed = reqs[p].doc.listed
                               /\ Holds(reqs'[p]) <=> Holds(reqs[p])
                               /\ Creates(reqs'[p]) <=> Creates(reqs[p])
                               /\ \A s \in {"attach", "create", "destroy", "row"} :
                                     reqs'[p].step = s <=> reqs[p].step = s
    BY <1>1, <2>1, <2>3 DEF Holds, Creates, d
  <2>7. FilesIntact' /\ EvidenceUnlocked' /\ TypeOK'
    BY <1>1, <2>4 DEF IInv, FilesIntact, Live, Intact, EvidenceUnlocked, TypeOK
  <2>8. OwnFiles' /\ OneCreator' /\ Created'
    BY <1>1, <2>6 DEF IInv, OwnFiles, OneCreator, Created
  <2>9. Unlisted'
    BY <1>1, <2>6 DEF IInv, Unlisted
  <2>10. Buried'
    BY <1>1, <2>6 DEF IInv, Buried, Past
  <2>11. (~died => ListedFiled)'
    BY <1>1, <2>6 DEF IInv, ListedFiled, Filed
  <2>12. QED
    BY <2>5, <2>7, <2>8, <2>9, <2>10, <2>11 DEF IInv
<1>4. QED
  BY <1>2, <1>3 DEF Reread

\* What the database keeps of the stored document and takes of the handler's.
LEMMA MergedOK ==
    ASSUME NEW old \in Document, NEW new \in Document
    PROVE  LET m == Merged(old, new)
           IN /\ m \in Document /\ m.live /\ m.rev > 0
              /\ m.listed = new.listed /\ m.held = old.held
              /\ m.locked = LockAfter(old, new)
<1>1. old.rev + 1 \in Nat /\ old.rev + 1 > 0
  BY DEF Document
<1>2. LockAfter(old, new) \in Locks
  BY LockOK DEF Document
<1>3. QED
  BY <1>1, <1>2 DEF Document, Merged

\* Only one request has anything to list while files are being attached, and
\* whatever is listed afterwards is held.
LEMMA RewriteKeeps ==
    ASSUME IInv, NEW r \in Requests, Rewrite(r)
    PROVE  IInv'
<1> DEFINE id == reqs[r].id
           doc == Merged(docs[id], reqs[r].doc)
<1>1. /\ reqs[r] \in Request /\ RequestOK(reqs[r]) /\ reqs[r].doc \in Document
      /\ id \in Ids /\ docs[id] \in Document /\ reqs[r].step = "rewrite" /\ Ends(r)
      /\ UNCHANGED <<rows, inserts, now, calls, died>>
  BY IdOK DEF IInv, TypeOK, Request, Rewrite
<1>2. CASE ~Current(r)
  BY <1>1, <1>2, EndsKeeps DEF Rewrite
<1>3. CASE Current(r)
  <2>1. docs[id].live /\ docs' = [docs EXCEPT ![id] = doc]
    BY <1>3 DEF Rewrite, Current
  <2>2. /\ doc \in Document /\ doc.live /\ doc.rev > 0
        /\ doc.listed = reqs[r].doc.listed /\ doc.held = docs[id].held
        /\ doc.locked = LockAfter(docs[id], reqs[r].doc)
    BY <1>1, MergedOK
  <2> HIDE DEF doc
  <2>3. /\ docs'[id] = doc /\ \A p \in Ids \ {id} : docs'[p] = docs[p]
        /\ docs' \in [Ids -> Document]
    BY <1>1, <2>1, <2>2 DEF IInv, TypeOK
  <2>4. /\ \A p \in Requests \ {r} : reqs'[p] = reqs[p]
        /\ reqs'[r] = Idle /\ Idle.step = "none" /\ Idle.op = "idle" /\ Idle.id = <<>>
        /\ reqs' \in [Requests -> Request]
    BY <1>1, IdleOK DEF Ends, IInv, TypeOK, Idle
  <2>5. Holds(reqs[r]) /\ Intact(reqs[r].doc.listed, docs[id].held)
    BY <1>1, <2>1 DEF Holds, IInv, OwnFiles
  <2>6. \A p \in Requests : Holds(reqs'[p]) => p # r
    BY <2>4 DEF Holds
  <2>7. \A p \in Requests : Holds(reqs[p]) => reqs[p].id \in Ids
    BY IdOK DEF Holds
  <2>8. \A p \in Ids : /\ docs'[p].live <=> docs[p].live
                       /\ docs'[p].held = docs[p].held
                       /\ docs[p].rev > 0 => docs'[p].rev > 0
    BY <2>1, <2>2, <2>3
  <2> HIDE DEF id
  <2>9. TypeOK'
    BY <1>1, <2>3, <2>4 DEF IInv, TypeOK
  <2>10. (\A p \in Requests : RequestOK(reqs[p]))'
    BY <2>4, IdleOK DEF IInv
  <2>11. FilesIntact'
    BY <2>2, <2>3, <2>5 DEF IInv, FilesIntact, Live, Intact
  <2>12. OwnFiles'
    BY <2>4, <2>6, <2>7, <2>8 DEF IInv, OwnFiles
  <2>13. OneCreator'
    BY <2>4, <2>6 DEF IInv, OneCreator, Creates
  <2>14. Created'
    <3>1. \A p \in Ids : docs'[p].live => docs'[p].rev > 0
      BY <2>8 DEF IInv, Created
    <3>2. \A p \in Requests : Holds(reqs'[p]) => docs'[reqs'[p].id].rev > 0
      BY <2>4, <2>6, <2>7, <2>8 DEF IInv, Created
    <3>3. QED
      BY <3>1, <3>2 DEF Created, Holds
  <2>15. Unlisted'
    <3>1. \A p \in Requests \ {r} :
             reqs[p].step = "attach" => docs'[reqs[p].id].listed = {}
      <4>1. SUFFICES ASSUME NEW p \in Requests \ {r}, reqs[p].step = "attach"
                     PROVE  docs'[reqs[p].id].listed = {}
        OBVIOUS
      <4>2. Holds(reqs[p]) /\ reqs[p].id \in Ids /\ docs[reqs[p].id].listed = {}
        BY <4>1, <2>7 DEF Holds, IInv, Unlisted
      <4>3. reqs[p].id = id => reqs[r].doc.listed = {}
        BY <4>1, <2>5 DEF IInv, Unlisted, id
      <4>4. QED
        BY <2>2, <2>3, <4>2, <4>3
    <3>2. \A p \in Requests \ {r} : \A q \in Requests \ {r, p} :
             reqs[p].step = "attach" /\ reqs[q].id = reqs[p].id /\ Holds(reqs[q]) =>
                 reqs[q].doc.listed = {}
      BY DEF IInv, Unlisted
    <3>3. QED
      BY <2>4, <3>1, <3>2 DEF Unlisted, Holds
  <2>16. EvidenceUnlocked'
    <3>1. id \in EvidenceIds => LockAfter(docs[id], reqs[r].doc) = "unset"
      BY <1>1, IdsDiffer DEF IInv, EvidenceUnlocked, RequestOK, LockAfter, id
    <3>2. \A p \in EvidenceIds : p = id \/ docs'[p] = docs[p]
      BY <2>3, IdsDiffer
    <3>3. QED
      BY <2>2, <2>3, <3>1, <3>2 DEF IInv, EvidenceUnlocked
  <2>17. Buried'
    <3>1. \A p : Past(p) => Past(p)'
      BY <1>1, <2>4 DEF Past
    <3>2. \A p \in Ids : docs'[p].rev > 0 /\ ~docs'[p].live => Past(p)'
      BY <2>1, <2>2, <2>3, <3>1 DEF IInv, Buried
    <3>3. \A p \in Requests : reqs'[p].step = "destroy" => Past(reqs[p].id)'
      BY <2>4, <3>1 DEF IInv, Buried
    <3>4. \A p \in Requests : reqs'[p].step = "row" =>
              docs'[reqs'[p].id].rev > 0 /\ ~docs'[reqs'[p].id].live
      BY <2>4, <2>8, IdOK DEF IInv, Buried
    <3>5. QED
      BY <2>4, <3>2, <3>3, <3>4 DEF Buried
  <2>18. (~died => ListedFiled)'
    <3>1. SUFFICES ASSUME ~died PROVE ListedFiled'
      BY <1>1
    <3>2. \A p, f : Filed(p, f) => rows'[p] = f \/ [id |-> p, file |-> f] \in inserts'
      BY <1>1 DEF Filed
    <3>3. id \in EvidenceIds => \A f \in doc.listed : Filed(id, f)
      <4>1. id \in EvidenceIds => reqs[r].op = "upload"
        BY <1>1, IdsDiffer DEF RequestOK, id
      <4>2. QED
        BY <2>1, <2>2, <2>5, <3>1, <4>1 DEF IInv, ListedFiled, id
    <3>4. \A p \in EvidenceIds : docs'[p].live => \A f \in docs'[p].listed : Filed(p, f)
      <4>1. \A p \in EvidenceIds : p = id \/ docs'[p] = docs[p]
        BY <2>3, IdsDiffer
      <4>2. QED
        BY <2>3, <3>1, <3>3, <4>1 DEF IInv, ListedFiled
    <3>5. \A p \in Requests \ {r} :
             reqs[p].op = "upload" /\ Holds(reqs[p]) /\ docs'[reqs[p].id].live =>
                 \A f \in reqs[p].doc.listed : Filed(reqs[p].id, f)
      BY <2>7, <2>8, <3>1 DEF IInv, ListedFiled
    <3>6. QED
      BY <2>4, <3>2, <3>4, <3>5 DEF ListedFiled, Filed, Holds
  <2>19. QED
    BY <2>9, <2>10, <2>11, <2>12, <2>13, <2>14, <2>15, <2>16, <2>17, <2>18 DEF IInv
<1>4. QED
  BY <1>2, <1>3

\* A document is destroyed whose id will not be drawn again.
LEMMA DeleteDocumentKeeps ==
    ASSUME IInv, NEW r \in Requests, DeleteDocument(r)
    PROVE  IInv'
<1> DEFINE id == reqs[r].id
           gone == [Absent EXCEPT !.rev = docs[id].rev + 1]
<1>1. /\ reqs[r] \in Request /\ RequestOK(reqs[r]) /\ id \in Ids /\ docs[id] \in Document
      /\ reqs[r].op = "delete" /\ reqs[r].step = "destroy" /\ Past(id)
      /\ UNCHANGED <<rows, inserts, now, calls, died>>
  BY IdOK DEF IInv, TypeOK, DeleteDocument, Buried
<1>2. CASE ~Current(r) /\ Ends(r) /\ UNCHANGED docs
  BY <1>1, <1>2, EndsKeeps
<1>3. CASE Current(r) /\ docs' = [docs EXCEPT ![id] = gone] /\ Goes(r, "row")
  <2>1. /\ gone \in Document /\ ~gone.live /\ gone.rev > 0 /\ gone.listed = {}
        /\ gone.locked = "unset"
    <3>1. docs[id].rev + 1 \in Nat /\ docs[id].rev + 1 > 0
      BY <1>1 DEF Document
    <3>2. QED
      BY <3>1, AbsentOK DEF Absent, Document
  <2>2. docs[id].live
    BY <1>3 DEF Current
  <2> HIDE DEF gone
  <2>3. /\ docs'[id] = gone /\ \A p \in Ids \ {id} : docs'[p] = docs[p]
        /\ docs' \in [Ids -> Document]
    BY <1>1, <1>3, <2>1 DEF IInv, TypeOK
  <2>4. /\ \A p \in Requests \ {r} : reqs'[p] = reqs[p]
        /\ reqs'[r].op = reqs[r].op /\ reqs'[r].id = id /\ reqs'[r].step = "row"
        /\ reqs'[r].call = reqs[r].call /\ reqs'[r].todo = reqs[r].todo
        /\ reqs'[r].doc = reqs[r].doc
        /\ reqs' \in [Requests -> Request]
    BY <1>1, <1>3 DEF Goes, IInv, TypeOK, Request, Phases
  <2>5. \A p \in Requests : Holds(reqs'[p]) => p # r /\ reqs[p].id \in Ids
    BY <2>4, IdOK DEF Holds
  <2>6. \A p \in Ids : /\ docs'[p].live => docs[p].live /\ docs'[p] = docs[p]
                       /\ docs[p].locked = "unset" => docs'[p].locked = "unset"
                       /\ docs[p].listed = {} => docs'[p].listed = {}
                       /\ docs[p].rev > 0 => docs'[p].rev > 0
    BY <2>1, <2>3
  <2> HIDE DEF id
  <2>7. TypeOK'
    BY <1>1, <2>3, <2>4 DEF IInv, TypeOK
  <2>8. (\A p \in Requests : RequestOK(reqs[p]))'
    <3>1. RequestOK(reqs'[r])
      BY <1>1, <2>4 DEF RequestOK, id
    <3>2. QED
      BY <2>4, <3>1 DEF IInv
  <2>9. FilesIntact' /\ EvidenceUnlocked'
    BY <2>6, IdsDiffer DEF IInv, FilesIntact, Live, Intact, EvidenceUnlocked
  <2>10. OwnFiles' /\ OneCreator'
    BY <2>4, <2>5, <2>6 DEF IInv, OwnFiles, OneCreator, Creates
  <2>11. Created'
    <3>1. \A p \in Ids : docs'[p].live => docs'[p].rev > 0
      BY <2>6 DEF IInv, Created
    <3>2. \A p \in Requests : Holds(reqs'[p]) => docs'[reqs'[p].id].rev > 0
      BY <2>4, <2>5, <2>6 DEF IInv, Created
    <3>3. QED
      BY <3>1, <3>2 DEF Created, Holds
  <2>12. Unlisted'
    <3>1. \A p \in Requests \ {r} : reqs[p].step = "attach" => docs'[reqs[p].id].listed = {}
      BY <2>6, IdOK DEF IInv, Unlisted
    <3>2. \A p \in Requests \ {r} : \A q \in Requests \ {r, p} :
             reqs[p].step = "attach" /\ reqs[q].id = reqs[p].id /\ Holds(reqs[q]) =>
                 reqs[q].doc.listed = {}
      BY DEF IInv, Unlisted
    <3>3. QED
      <4>1. reqs'[r].step # "attach" /\ ~Holds(reqs'[r])
        BY <2>4 DEF Holds
      <4>2. \A p \in Requests : reqs'[p].step = "attach" => docs'[reqs'[p].id].listed = {}
        BY <2>4, <3>1, <4>1
      <4>3. \A p \in Requests : \A q \in Requests \ {p} :
               reqs'[p].step = "attach" /\ reqs'[q].id = reqs'[p].id /\ Holds(reqs'[q]) =>
                   reqs'[q].doc.listed = {}
        BY <2>4, <3>2, <4>1
      <4>4. QED
        BY <4>2, <4>3 DEF Unlisted, Holds
  <2>13. Buried'
    <3>1. \A p : Past(p) => Past(p)'
      BY <1>1, <2>4 DEF Past
    <3>2. \A p \in Ids : docs'[p].rev > 0 /\ ~docs'[p].live => Past(p)'
      BY <1>1, <2>3, <3>1 DEF IInv, Buried
    <3>3. \A p \in Requests : reqs'[p].step = "destroy" => Past(reqs[p].id)'
      BY <2>4, <3>1 DEF IInv, Buried
    <3>4. \A p \in Requests : reqs'[p].step = "row" =>
              docs'[reqs'[p].id].rev > 0 /\ ~docs'[reqs'[p].id].live
      <4>1. docs'[reqs'[r].id].rev > 0 /\ ~docs'[reqs'[r].id].live
        BY <2>1, <2>3, <2>4
      <4>2. \A p \in Requests \ {r} : reqs[p].step = "row" =>
                docs'[reqs[p].id].rev > 0 /\ ~docs'[reqs[p].id].live
        BY <2>6, IdOK DEF IInv, Buried
      <4>3. QED
        BY <2>4, <4>1, <4>2
    <3>5. QED
      BY <2>4, <3>2, <3>3, <3>4 DEF Buried
  <2>14. (~died => ListedFiled)'
    <3>1. SUFFICES ASSUME ~died PROVE ListedFiled'
      BY <1>1
    <3>2. \A p, f : Filed(p, f) => rows'[p] = f \/ [id |-> p, file |-> f] \in inserts'
      BY <1>1 DEF Filed
    <3>3. \A p \in EvidenceIds : docs'[p].live => \A f \in docs'[p].listed : Filed(p, f)
      BY <2>6, <3>1, IdsDiffer DEF IInv, ListedFiled
    <3>4. \A p \in Requests \ {r} :
             reqs[p].op = "upload" /\ Holds(reqs[p]) /\ docs'[reqs[p].id].live =>
                 \A f \in reqs[p].doc.listed : Filed(reqs[p].id, f)
      BY <2>6, <3>1, IdOK DEF IInv, ListedFiled, Holds
    <3>5. QED
      BY <2>4, <3>2, <3>3, <3>4 DEF ListedFiled, Filed, Holds
  <2>15. QED
    BY <2>7, <2>8, <2>9, <2>10, <2>11, <2>12, <2>13, <2>14 DEF IInv
<1>4. QED
  BY <1>2, <1>3 DEF DeleteDocument

\* A row is deleted when the document it speaks of is gone.
LEMMA DeleteRowKeeps ==
    ASSUME IInv, NEW r \in Requests, DeleteRow(r)
    PROVE  IInv'
<1> DEFINE id == reqs[r].id
<1>1. /\ id \in EvidenceIds /\ id \in Ids /\ ~docs[id].live
      /\ UNCHANGED <<docs, inserts, now, calls, died>> /\ Ends(r)
      /\ rows' = [rows EXCEPT ![id] = NoFile]
  BY IdsDiffer DEF IInv, RequestOK, DeleteRow, Buried
<1>2. /\ \A p \in Requests \ {r} : reqs'[p] = reqs[p]
      /\ reqs'[r] = Idle /\ Idle.step = "none" /\ Idle.op = "idle" /\ Idle.id = <<>>
      /\ reqs' \in [Requests -> Request]
  BY <1>1, IdleOK DEF Ends, IInv, TypeOK, Idle
<1>3. \A p \in Ids \ {id} : rows'[p] = rows[p]
  BY <1>1 DEF IInv, TypeOK
<1> HIDE DEF id
<1>4. TypeOK'
  BY <1>1, <1>2 DEF IInv, TypeOK
<1>5. (\A p \in Requests : RequestOK(reqs[p]))'
  BY <1>2, IdleOK DEF IInv
<1>6. FilesIntact' /\ EvidenceUnlocked'
  BY <1>1 DEF IInv, FilesIntact, Live, EvidenceUnlocked
<1>7. OwnFiles' /\ OneCreator' /\ Created' /\ Unlisted'
  BY ZenonT(60), <1>1, <1>2 DEF IInv, OwnFiles, OneCreator, Created, Unlisted, Creates, Holds
<1>8. Buried'
  BY <1>1, <1>2 DEF IInv, Buried, Past
<1>9. (~died => ListedFiled)'
  <2>1. SUFFICES ASSUME ~died PROVE ListedFiled'
    BY <1>1
  <2>2. \A p \in Ids : \A f : docs[p].live /\ Filed(p, f) =>
            rows'[p] = f \/ [id |-> p, file |-> f] \in inserts'
    BY <1>1, <1>3 DEF Filed
  <2>3. \A p \in EvidenceIds : docs'[p].live => \A f \in docs'[p].listed : Filed(p, f)
    BY <1>1, <2>1 DEF IInv, ListedFiled
  <2>4. \A p \in Requests \ {r} :
           reqs[p].op = "upload" /\ Holds(reqs[p]) /\ docs'[reqs[p].id].live =>
               reqs[p].id \in Ids /\ \A f \in reqs[p].doc.listed : Filed(reqs[p].id, f)
    BY <1>1, <2>1, IdOK DEF IInv, ListedFiled, Holds
  <2>5. QED
    BY <1>1, <1>2, <2>2, <2>3, <2>4, IdsDiffer DEF ListedFiled, Filed, Holds
<1>10. QED
  BY <1>4, <1>5, <1>6, <1>7, <1>8, <1>9 DEF IInv

\* A row that arrives takes the place of the row that was on its way.
LEMMA RowArrivesKeeps ==
    ASSUME IInv, NEW i \in inserts, RowArrives(i)
    PROVE  IInv'
<1>1. /\ UNCHANGED <<docs, now, calls>>
      /\ inserts \subseteq [id : EvidenceIds, file : Files]
      /\ i = [id |-> i.id, file |-> i.file] /\ i.id \in Ids /\ i.file \in Files
  BY IdsDiffer DEF IInv, TypeOK, RowArrives
<1>2. FilesIntact' /\ EvidenceUnlocked'
  BY <1>1 DEF IInv, FilesIntact, Live, EvidenceUnlocked
<1>3. CASE /\ rows[i.id] = NoFile /\ rows' = [rows EXCEPT ![i.id] = i.file]
           /\ inserts' = inserts \ {i} /\ UNCHANGED <<reqs, died>>
  <2>1. TypeOK'
    BY <1>1, <1>3 DEF IInv, TypeOK
  <2>2. (\A p \in Requests : RequestOK(reqs[p]))'
    BY <1>3 DEF IInv
  <2>3. OwnFiles' /\ OneCreator' /\ Created' /\ Unlisted' /\ Buried'
    BY <1>1, <1>3 DEF IInv, OwnFiles, OneCreator, Created, Unlisted, Creates, Holds, Buried, Past
  <2>4. (~died => ListedFiled)'
    <3>1. \A p \in Ids \ {i.id} : rows'[p] = rows[p]
      BY <1>1, <1>3 DEF IInv, TypeOK
    <3>2. NoFile \notin Files
      BY DEF NoFile, Files
    <3>3. \A p \in Ids, f \in Files : Filed(p, f) =>
              rows'[p] = f \/ [id |-> p, file |-> f] \in inserts'
      <4>1. SUFFICES ASSUME NEW p \in Ids, NEW f \in Files, Filed(p, f)
                     PROVE  rows'[p] = f \/ [id |-> p, file |-> f] \in inserts'
        OBVIOUS
      <4>2. CASE rows[p] = f
        BY <1>3, <3>1, <3>2, <4>2
      <4>3. CASE [id |-> p, file |-> f] \in inserts
        <5>1. rows'[i.id] = i.file
          BY <1>1, <1>3 DEF IInv, TypeOK
        <5>2. [id |-> p, file |-> f] = i => p = i.id /\ f = i.file
          BY <1>1
        <5>3. QED
          BY <1>3, <4>3, <5>1, <5>2
      <4>4. QED
        BY <4>1, <4>2, <4>3 DEF Filed
    <3>4. SUFFICES ASSUME ~died PROVE ListedFiled'
      BY <1>3
    <3>5. \A p \in EvidenceIds : docs[p].live =>
              \A f \in docs[p].listed : f \in Files /\ Filed(p, f)
      BY <3>4, IdsDiffer DEF IInv, ListedFiled, TypeOK, Document
    <3>6. \A p \in Requests :
             reqs[p].op = "upload" /\ Holds(reqs[p]) /\ docs[reqs[p].id].live =>
                 reqs[p].id \in Ids /\
                 \A f \in reqs[p].doc.listed : f \in Files /\ Filed(reqs[p].id, f)
      BY <3>4, IdOK DEF IInv, ListedFiled, Holds, TypeOK, Request, Document
    <3>7. QED
      BY <1>1, <1>3, <3>3, <3>5, <3>6, IdsDiffer DEF ListedFiled, Filed, Holds
  <2>5. QED
    BY <1>2, <2>1, <2>2, <2>3, <2>4 DEF IInv
<1>4. ASSUME NEW taken \in SUBSET (inserts \ {i}), Dies(taken)
      PROVE  IInv'
  <2>1. /\ \A p \in Requests : reqs'[p] = Idle
        /\ inserts' = {} /\ died'
        /\ Idle.step = "none" /\ Idle.op = "idle" /\ Idle.id = <<>>
    BY <1>4 DEF Dies, Idle
  <2>2. rows' \in [Ids -> Files \union {NoFile}]
    <3>1. \A p \in Ids : (\E t \in taken : t.id = p) =>
              (CHOOSE t \in taken : t.id = p).file \in Files
      BY <1>1
    <3>2. QED
      BY <1>4, <3>1 DEF Dies, IInv, TypeOK
  <2>3. TypeOK'
    BY <1>1, <1>4, <2>1, <2>2, IdleOK DEF IInv, TypeOK, Dies
  <2>4. (\A p \in Requests : RequestOK(reqs[p]))'
    BY <2>1, IdleOK
  <2>5. OwnFiles' /\ OneCreator' /\ Created' /\ Unlisted'
    BY <1>1, <2>1 DEF IInv, OwnFiles, OneCreator, Created, Unlisted, Creates, Holds
  <2>6. Buried'
    BY <1>1, <2>1 DEF IInv, Buried, Past
  <2>7. QED
    BY <1>2, <2>1, <2>3, <2>4, <2>5, <2>6 DEF IInv
<1>5. QED
  BY <1>3, <1>4 DEF RowArrives

LEMMA ClockAndCaseKeep ==
    ASSUME IInv, Tick \/ CaseMoves
    PROVE  IInv'
<1>1. UNCHANGED <<docs, rows, inserts, reqs, calls, died>>
  BY DEF Tick, CaseMoves
<1>2. now' \in 0..MaxTicks /\ now <= now'
  BY DocumentAssumption DEF Tick, CaseMoves, IInv, TypeOK
<1>3. TypeOK' /\ (\A r \in Requests : RequestOK(reqs[r]))'
  BY <1>1, <1>2 DEF IInv, TypeOK
<1>4. FilesIntact' /\ EvidenceUnlocked' /\ OwnFiles' /\ OneCreator' /\ Created' /\ Unlisted'
  BY <1>1 DEF IInv, FilesIntact, Live, EvidenceUnlocked, OwnFiles, OneCreator, Created,
              Unlisted, Creates, Holds
<1>5. Buried'
  <2>1. \A p \in EvidenceIds : p[3] \in Nat
    BY DocumentAssumption DEF EvidenceIds
  <2>2. \A p : Past(p) => Past(p)'
    BY <1>1, <1>2, <2>1 DEF Past, IInv, TypeOK
  <2>3. QED
    BY <1>1, <2>2 DEF IInv, Buried
<1>6. (~died => ListedFiled)'
  BY <1>1 DEF IInv, ListedFiled, Filed, Holds
<1>7. QED
  BY <1>3, <1>4, <1>5, <1>6 DEF IInv

LEMMA InitInv == Init => IInv
<1> SUFFICES ASSUME Init PROVE IInv
  OBVIOUS
<1>1. /\ \A id \in Ids : docs[id] = Absent
      /\ \A r \in Requests : reqs[r] = Idle
      /\ Idle.step = "none" /\ Idle.op = "idle"
  BY DEF Init, Idle
<1>2. /\ Absent \in Document /\ Absent.listed = {} /\ Absent.locked = "unset" /\ ~Absent.live
      /\ Absent.rev = 0
  BY AbsentOK DEF Absent
<1>3. TypeOK
  <2>1. docs \in [Ids -> Document] /\ rows \in [Ids -> Files \union {NoFile}]
    BY <1>2 DEF Init
  <2>2. inserts \subseteq [id : EvidenceIds, file : Files] /\ reqs \in [Requests -> Request]
    BY IdleOK DEF Init
  <2>3. 0 \in 0..MaxTicks /\ 0 \in 0..MaxCalls
    BY DocumentAssumption
  <2>4. now \in 0..MaxTicks /\ calls \in 0..MaxCalls
    BY <2>3 DEF Init
  <2>5. died \in BOOLEAN
    BY Zenon DEF Init
  <2>6. QED
    BY <2>1, <2>2, <2>4, <2>5 DEF TypeOK
<1>4. \A r \in Requests : RequestOK(reqs[r])
  BY <1>1, IdleOK
<1>5. FilesIntact /\ EvidenceUnlocked /\ OwnFiles /\ OneCreator /\ Created /\ Unlisted
  BY <1>1, <1>2, IdsDiffer DEF FilesIntact, Live, EvidenceUnlocked, OwnFiles, OneCreator,
                               Created, Unlisted, Creates, Holds
<1>6. Buried
  BY <1>1, <1>2 DEF Buried
<1>7. ~died => ListedFiled
  BY <1>1, <1>2, IdsDiffer DEF ListedFiled, Holds
<1>8. QED
  BY <1>3, <1>4, <1>5, <1>6, <1>7 DEF IInv

LEMMA StepInv == IInv /\ [Next]_vars => IInv'
<1> SUFFICES ASSUME IInv, [Next]_vars PROVE IInv'
  OBVIOUS
<1>1. ASSUME NEW r \in Requests, EvidenceStep(r) PROVE IInv'
  <2>1. CASE UploadCheck(r) \/ DeleteCheck(r)
    BY <2>1, ChecksKeep
  <2>2. CASE UploadCreate(r)
    BY <2>2, CreateKeeps DEF UploadCreate
  <2>3. CASE UploadAttach(r)
    BY <2>3, AttachmentsKeep
  <2>4. CASE DeleteDocument(r)
    BY <2>4, DeleteDocumentKeeps
  <2>5. CASE DeleteRow(r)
    BY <2>5, DeleteRowKeeps
  <2>6. QED
    BY <1>1, <2>1, <2>2, <2>3, <2>4, <2>5 DEF EvidenceStep
<1>2. ASSUME NEW r \in Requests, ReportStep(r) PROVE IInv'
  <2>1. CASE GenerateCheck(r) \/ EditRead(r) \/ ApproveRead(r)
    BY <2>1, ChecksKeep
  <2>2. CASE GenerateVersion(r)
    BY <2>2, VersionKeeps
  <2>3. CASE GenerateCreate(r)
    BY <2>3, CreateKeeps DEF GenerateCreate
  <2>4. CASE GenerateAttach(r)
    BY <2>4, AttachmentsKeep
  <2>5. CASE EditInsert(r)
    BY <2>5, EndsKeeps DEF EditInsert
  <2>6. QED
    BY <1>2, <2>1, <2>2, <2>3, <2>4, <2>5 DEF ReportStep
<1>3. ASSUME NEW r \in Requests, Reread(r) \/ Rewrite(r) \/ Breaks(r) PROVE IInv'
  BY <1>3, RereadKeeps, RewriteKeeps, EndsKeeps DEF Breaks
<1>4. ASSUME NEW i \in inserts, RowArrives(i) PROVE IInv'
  BY <1>4, RowArrivesKeeps
<1>5. CASE Tick \/ CaseMoves
  BY <1>5, ClockAndCaseKeep
<1>6. CASE UNCHANGED vars
  BY <1>6 DEF vars, IInv, TypeOK, FilesIntact, Live, EvidenceUnlocked, OwnFiles,
              OneCreator, Created, Unlisted, Creates, Holds, Buried, Past, ListedFiled, Filed
<1>7. QED
  BY <1>1, <1>2, <1>3, <1>4, <1>5, <1>6 DEF Next

\* The invariant behind the theorems below.
THEOREM Invariance == Spec => []IInv
  BY InitInv, StepInv, PTL DEF Spec

\* Every file that an evidence document or a report lists is the file it holds,
\* however many uploads, edits, approvals and deletions run beside each other.
THEOREM FilesStayIntact == Spec => []FilesIntact
<1>1. IInv => FilesIntact
  BY DEF IInv
<1>2. QED
  BY Invariance, <1>1, PTL

\* Until a process dies, an uploaded document has its row in the evidence table
\* or on its way there.
THEOREM RowsFollow == Spec => []RowFollows
<1>1. IInv => RowFollows
  <2>1. SUFFICES ASSUME IInv, ~died, NEW id \in EvidenceIds, Complete(id)
                 PROVE  \/ rows[id] \in docs[id].listed
                        \/ \E i \in inserts : i.id = id /\ i.file \in docs[id].listed
    BY DEF RowFollows
  <2>2. PICK f \in docs[id].listed : Filed(id, f)
    BY <2>1 DEF Complete, IInv, ListedFiled
  <2>3. CASE rows[id] = f
    BY <2>2, <2>3
  <2>4. CASE [id |-> id, file |-> f] \in inserts
    <3>1. [id |-> id, file |-> f].id = id /\ [id |-> id, file |-> f].file = f
      OBVIOUS
    <3>2. QED
      BY <2>4, <3>1
  <2>5. QED
    BY <2>2, <2>3, <2>4 DEF Filed
<1>2. QED
  BY Invariance, <1>1, PTL

StillLocked(id) == docs'[id].locked = "yes" \/ \E r \in Requests : Reopens(r, id)

\* What one step may do to a document.
LEMMA StepOnDocument ==
    ASSUME IInv, Next, NEW id \in Ids
    PROVE  \/ docs'[id] = docs[id]
           \/ ~docs[id].live
           \/ ~docs'[id].live /\ id \in EvidenceIds
           \/ Busy(id) /\ docs'[id].locked = docs[id].locked
           \/ docs'[id].held = docs[id].held /\ (docs[id].locked = "yes" => StillLocked(id))
<1> DEFINE Fine == \/ docs'[id] = docs[id]
                   \/ ~docs[id].live
                   \/ ~docs'[id].live /\ id \in EvidenceIds
                   \/ Busy(id) /\ docs'[id].locked = docs[id].locked
                   \/ docs'[id].held = docs[id].held /\ (docs[id].locked = "yes" => StillLocked(id))
<1>1. CASE docs' = docs
  BY <1>1
<1>2. docs \in [Ids -> Document]
  BY DEF IInv, TypeOK
<1>3. ASSUME NEW r \in Requests, Create(r, "attach") PROVE Fine
  BY <1>2, <1>3 DEF Create, Ends
<1>4. ASSUME NEW r \in Requests, NEW file, NEW step, Attach(r, file, step),
             reqs[r].op \in {"upload", "generate"}, reqs[r].step = "attach"
      PROVE  Fine
  <2> DEFINE held == {f \in docs[reqs[r].id].held : f.name # file.name} \union {file}
             rev == docs[reqs[r].id].rev + 1
  <2>1. docs' = [docs EXCEPT ![reqs[r].id].held = held, ![reqs[r].id].rev = rev]
    BY <1>4 DEF Attach
  <2> HIDE DEF held, rev
  <2>2. CASE reqs[r].id = id
    <3>1. docs'[id] = [docs[id] EXCEPT !.held = held, !.rev = rev]
      BY <1>2, <2>1, <2>2
    <3>2. docs'[id].locked = docs[id].locked
      BY <1>2, <3>1 DEF Document
    <3>3. Busy(id)
      BY <1>4, <2>2 DEF Busy
    <3>4. QED
      BY <3>2, <3>3
  <2>3. CASE reqs[r].id # id
    BY <1>2, <2>1, <2>3
  <2>4. QED
    BY <2>2, <2>3
<1>5. ASSUME NEW r \in Requests, Rewrite(r) PROVE Fine
  <2>1. reqs[r].id \in Ids /\ docs[reqs[r].id] \in Document /\ reqs[r].doc \in Document
    BY <1>5, IdOK DEF Rewrite, IInv, TypeOK, Request
  <2>2. /\ Merged(docs[reqs[r].id], reqs[r].doc).held = docs[reqs[r].id].held
        /\ Merged(docs[reqs[r].id], reqs[r].doc).locked =
              LockAfter(docs[reqs[r].id], reqs[r].doc)
    BY <2>1, MergedOK
  <2>3. \/ docs'[id] = docs[id]
        \/ reqs[r].id = id /\ docs'[id] = Merged(docs[id], reqs[r].doc)
    BY <1>2, <1>5, <2>1 DEF Rewrite
  <2>4. ASSUME reqs[r].id = id, docs'[id] = Merged(docs[id], reqs[r].doc), docs[id].locked = "yes"
        PROVE  StillLocked(id)
    <3>1. CASE reqs[r].doc.locked = "no"
      <4>1. RequestOK(reqs[r]) /\ reqs[r].step = "rewrite"
        BY <1>5 DEF Rewrite, IInv
      <4>2. reqs[r].op = "edit"
        BY <3>1, <4>1 DEF RequestOK
      <4>3. QED
        BY <2>4, <3>1, <4>1, <4>2 DEF StillLocked, Reopens
    <3>2. CASE reqs[r].doc.locked # "no"
      BY <2>1, <2>2, <2>4, <3>2 DEF StillLocked, LockAfter, Document, Locks
    <3>3. QED
      BY <3>1, <3>2
  <2>5. QED
    BY <2>2, <2>3, <2>4
<1>6. ASSUME NEW r \in Requests, DeleteDocument(r) PROVE Fine
  <2>1. reqs[r].id \in EvidenceIds
    BY <1>6 DEF DeleteDocument, IInv, RequestOK
  <2>2. ~[Absent EXCEPT !.rev = docs[reqs[r].id].rev + 1].live
    BY DEF Absent
  <2>3. QED
    BY <1>2, <1>6, <2>1, <2>2 DEF DeleteDocument
<1>7. ASSUME NEW r \in Requests, EvidenceStep(r) \/ ReportStep(r) PROVE Fine
  <2>1. docs' = docs \/ Create(r, "attach") \/ DeleteDocument(r)
        \/ UploadAttach(r) \/ GenerateAttach(r)
    BY <1>7 DEF EvidenceStep, ReportStep, UploadCheck, DeleteCheck, UploadCreate, DeleteRow,
                GenerateCheck, GenerateVersion, GenerateCreate, EditRead, EditInsert, ApproveRead
  <2>2. CASE UploadAttach(r) \/ GenerateAttach(r)
    <3>1. reqs[r].op \in {"upload", "generate"} /\ reqs[r].step = "attach"
          /\ (docs' = docs \/ \E file, step : Attach(r, file, step))
      BY <2>2 DEF UploadAttach, GenerateAttach
    <3>2. QED
      BY <1>1, <1>4, <3>1
  <2>3. QED
    BY <1>1, <1>3, <1>6, <2>1, <2>2
<1>8. CASE \/ \E r \in Requests : Reread(r) \/ Breaks(r)
           \/ \E i \in inserts : RowArrives(i)
           \/ Tick \/ CaseMoves
  BY <1>1, <1>8 DEF Reread, Breaks, RowArrives, Tick, CaseMoves
<1>9. QED
  BY <1>5, <1>7, <1>8 DEF Next

\* No step of any request replaces the files of a document that is complete.
THEOREM FilesAreKept == Spec => FilesKept
<1>1. IInv /\ [Next]_vars =>
         [\A id \in Ids : Complete(id) /\ docs'[id].live => docs'[id].held = docs[id].held]_vars
  BY StepOnDocument DEF Complete
<1>2. QED
  BY Invariance, <1>1, PTL DEF Spec, FilesKept

\* An approved report is unlocked by nothing but an edit whose copy says so.
THEOREM ApprovedStaysLocked == Spec => StaysLocked
<1>1. IInv /\ [Next]_vars =>
         [\A id \in Live : docs[id].locked = "yes" => StillLocked(id)]_vars
  BY StepOnDocument DEF Live, IInv, EvidenceUnlocked, StillLocked
<1>2. QED
  BY Invariance, <1>1, PTL DEF Spec, StaysLocked, StillLocked
==============================================================================
