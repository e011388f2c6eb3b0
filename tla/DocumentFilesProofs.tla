-------------------------- MODULE DocumentFilesProofs --------------------------
(***************************************************************************)
(* Theorems about what is kept in two places: a document's row in the      *)
(* database and its file in the bucket, and a run in the database and its  *)
(* task in the queue. FileInv says, document by document, which request    *)
(* may still write either half; uploads own their document until the row   *)
(* is inserted because nobody else knows its id.                           *)
(***************************************************************************)
EXTENDS DocumentPipelineProofs

\* An answered request is over, and one that has not begun knows no document.
AnsweredIsDone ==
    \A q \in Requests :
        /\ request[q].reply # "none" => request[q].pc = "done"
        /\ request[q].pc = "idle" => request[q].doc = NoDocument

\* Rows and files belong to ids that some request drew.
Known(d) == Exists(d) \/ object[d] => \E q \in Requests : request[q].doc = d

\* Until its row is inserted nobody else can do anything to an upload.
Alone(d) ==
    \A q \in Requests :
        request[q].doc = d /\ request[q].pc = "stored" =>
            /\ object[d] /\ ~Exists(d)
            /\ \A r \in Requests \ {q} :
                  request[r].doc = d => request[r].pc = "done" /\ request[r].reply = "404"

FileGone(d) ==
    \A q \in Requests :
        request[q].doc = d /\ request[q].pc = "objectDeleted" => ~object[d]

MissingExplained(d) ==
    Exists(d) /\ ~object[d] =>
        \E q \in Requests :
            \/ Unfinished(q, "remove", d, {"objectDeleted"})
            \/ Unfinished(q, "upload", d, {})

OrphanExplained(d) ==
    object[d] /\ ~Exists(d) =>
        \E q \in Requests : Unfinished(q, "upload", d, {"stored", "compensating"})

Removed(d) ==
    \A q \in Requests :
        /\ request[q].doc = d
        /\ request[q].kind = "remove" /\ request[q].reply = "200"
        => ~Exists(d) /\ ~object[d]

FileOK(d) ==
    /\ Known(d) /\ Alone(d) /\ FileGone(d)
    /\ MissingExplained(d) /\ OrphanExplained(d) /\ Removed(d)

FileInv == AnsweredIsDone /\ \A d \in Documents : FileOK(d)

LEMMA InitFileInv == Init => FileInv
  BY DEF Init, FileInv, AnsweredIsDone, FileOK, Known, Alone, FileGone, MissingExplained,
     OrphanExplained, Removed, NewRequest, Exists

-----------------------------------------------------------------------------
\* What a step of one request leaves alone.

\* Request q, not done before, works on document d.
WorksOn(q, d) ==
    /\ request' \in [Requests -> RequestRecord]
    /\ Others(q)
    /\ request[q].pc # "done"
    /\ request'[q].pc # "idle"
    /\ request'[q].reply # "none" => request'[q].pc = "done"
    /\ request'[q].doc = d
    /\ \/ request[q].pc = "idle"
       \/ request[q].doc = d /\ request'[q].kind = request[q].kind

LEMMA WorksKeepsAnswered ==
  ASSUME FileInv, NEW q \in Requests, NEW d \in Documents, WorksOn(q, d)
  PROVE  AnsweredIsDone'
  BY DEF FileInv, AnsweredIsDone, WorksOn, Others

LEMMA OtherDocument ==
  ASSUME FileInv, NEW q \in Requests, NEW d \in Documents, WorksOn(q, d),
         NEW e \in Documents \ {d}, Exists(e)' <=> Exists(e), object'[e] = object[e]
  PROVE  FileOK(e)'
  <1>1. request[q].doc # e /\ request'[q].doc # e
    BY NoDocumentAssumption DEF FileInv, AnsweredIsDone, WorksOn
  <1>2. \A r \in Requests :
           request[r].doc = e \/ request'[r].doc = e => request'[r] = request[r] /\ r # q
    BY <1>1 DEF WorksOn, Others
  <1>3. FileOK(e)
    BY DEF FileInv
  <1>4. Known(e)'
    BY <1>2, <1>3 DEF FileOK, Known
  <1>5. Alone(e)'
    BY <1>2, <1>3 DEF FileOK, Alone
  <1>6. FileGone(e)'
    BY <1>2, <1>3 DEF FileOK, FileGone
  <1>7. MissingExplained(e)'
    BY <1>2, <1>3 DEF FileOK, MissingExplained, Unfinished
  <1>8. OrphanExplained(e)'
    BY <1>2, <1>3 DEF FileOK, OrphanExplained, Unfinished
  <1>9. Removed(e)'
    BY <1>2, <1>3 DEF FileOK, Removed
  <1> QED BY <1>4, <1>5, <1>6, <1>7, <1>8, <1>9 DEF FileOK

\* A request that touches neither the row's existence nor the file.
LEMMA QuietRequest ==
  ASSUME TypeInv, FileInv, NEW q \in Requests, NEW d \in Documents, WorksOn(q, d),
         \/ request[q].pc # "idle"
         \/ Exists(d)
         \/ request'[q].pc = "done" /\ request'[q].reply = "404"
         \/ FreshId(d),
         request'[q].pc \notin {"stored", "objectDeleted"},
         request'[q].reply # "200",
         request[q].pc = "objectDeleted" => request'[q].reply \in {"500", "crashed"},
         request[q].pc \in {"stored", "compensating"} =>
            request'[q].pc = "compensating" \/ request'[q].reply \in {"500", "crashed"},
         \A e \in Documents : Exists(e)' <=> Exists(e),
         object' = object
  PROVE  FileInv'
  <1>1. FileOK(d) /\ (Exists(d)' <=> Exists(d)) /\ object'[d] = object[d]
    BY DEF FileInv
  <1>2. \A r \in Requests : r # q => request'[r] = request[r]
    BY DEF WorksOn, Others
  <1>3. /\ request'[q].doc = d
        /\ request[q].pc # "idle" => request[q].doc = d /\ request'[q].kind = request[q].kind
        /\ request[q].pc # "done"
        /\ request[q].reply = "none"
        /\ request[q].kind \in Kind => request[q].pc # "idle"
    BY DEF WorksOn, FileInv, AnsweredIsDone, TypeInv, RequestsOK
  <1>4. Known(d)'
    BY <1>1, <1>3 DEF FileOK, Known
  <1>5. Alone(d)'
    <2> SUFFICES ASSUME NEW r \in Requests, request'[r].doc = d, request'[r].pc = "stored"
                 PROVE  /\ object[d] /\ ~Exists(d)
                        /\ \A x \in Requests \ {r} :
                              request'[x].doc = d =>
                                 request'[x].pc = "done" /\ request'[x].reply = "404"
      BY <1>1 DEF Alone
    <2>1. r # q /\ request[r].doc = d /\ request[r].pc = "stored"
      BY <1>2
    <2>2. /\ object[d] /\ ~Exists(d)
          /\ \A x \in Requests \ {r} :
                request[x].doc = d => request[x].pc = "done" /\ request[x].reply = "404"
      BY <2>1, <1>1 DEF FileOK, Alone
    <2>3. request'[q].pc = "done" /\ request'[q].reply = "404"
      BY <2>1, <2>2, <1>3 DEF FreshId
    <2> QED BY <2>2, <2>3, <1>2
  <1>6. FileGone(d)'
    BY <1>1, <1>2 DEF FileOK, FileGone
  <1>7. MissingExplained(d)'
    BY <1>1, <1>2, <1>3 DEF FileOK, MissingExplained, Unfinished, Kind
  <1>8. OrphanExplained(d)'
    BY <1>1, <1>2, <1>3 DEF FileOK, OrphanExplained, Unfinished, Kind
  <1>9. Removed(d)'
    BY <1>1, <1>2 DEF FileOK, Removed
  <1>10. FileOK(d)'
    BY <1>4, <1>5, <1>6, <1>7, <1>8, <1>9 DEF FileOK
  <1>11. \A e \in Documents \ {d} : FileOK(e)'
    BY OtherDocument
  <1> QED BY <1>10, <1>11, WorksKeepsAnswered DEF FileInv

\* How the four helpers of DocumentsApi move a request.
LEMMA GoesWorksOn ==
  ASSUME TypeInv, FileInv, NEW q \in Requests, NEW step \in RequestStep \ {"idle"},
         request[q].pc \notin {"idle", "done"}, RequestGoes(q, step)
  PROVE  /\ WorksOn(q, request[q].doc) /\ request[q].doc \in Documents
         /\ request'[q].pc = step /\ request'[q].reply = "none"
  <1>1. request \in [Requests -> RequestRecord] /\ step \in RequestStep
    BY DEF TypeInv, TypeOK
  <1>2. request[q].doc \in Documents /\ request[q].reply = "none"
    BY DEF TypeInv, RequestsOK, FileInv, AnsweredIsDone
  <1>3. /\ request' \in [Requests -> RequestRecord] /\ request'[q].pc = step
        /\ request'[q].doc = request[q].doc /\ request'[q].kind = request[q].kind
        /\ request'[q].reply = request[q].reply
    BY <1>1, RequestGoesFields
  <1>4. Others(q)
    BY <1>1, RequestGoesFields DEF Others
  <1> QED BY <1>2, <1>3, <1>4 DEF WorksOn

LEMMA RespondWorksOn ==
  ASSUME TypeInv, FileInv, NEW q \in Requests, NEW code \in Reply,
         request[q].pc \notin {"idle", "done"}, Respond(q, code)
  PROVE  /\ WorksOn(q, request[q].doc) /\ request[q].doc \in Documents
         /\ request'[q].pc = "done" /\ request'[q].reply = code
  BY RespondFields DEF TypeInv, TypeOK, RequestsOK, FileInv, AnsweredIsDone, WorksOn

LEMMA ApiCrashWorksOn ==
  ASSUME TypeInv, FileInv, NEW q \in Requests, ApiCrash(q)
  PROVE  /\ WorksOn(q, request[q].doc) /\ request[q].doc \in Documents
         /\ request'[q].pc = "done" /\ request'[q].reply = "crashed"
  <1>1. request[q].pc \notin {"idle", "done"}
    BY DEF ApiCrash
  <1> QED BY <1>1, ApiCrashFields
      DEF TypeInv, TypeOK, RequestsOK, FileInv, AnsweredIsDone, WorksOn

LEMMA BeginWorksOn ==
  ASSUME TypeInv, FileInv, NEW q \in Requests, NEW kind \in Kind, NEW d \in Documents,
         NEW step \in RequestStep \ {"idle"}, request[q].pc = "idle",
         Begin(q, kind, d, step)
  PROVE  /\ WorksOn(q, d) /\ request'[q].kind = kind
         /\ request'[q].pc = step /\ request'[q].reply = "none"
  BY BeginFields DEF TypeInv, TypeOK, WorksOn

LEMMA RefuseWorksOn ==
  ASSUME TypeInv, FileInv, NEW q \in Requests, NEW kind \in Kind, NEW d \in Documents,
         NEW code \in Reply, request[q].pc = "idle", Refuse(q, kind, d, code)
  PROVE  /\ WorksOn(q, d) /\ request'[q].kind = kind
         /\ request'[q].pc = "done" /\ request'[q].reply = code
  BY RefuseFields DEF TypeInv, TypeOK, WorksOn

-----------------------------------------------------------------------------
\* The steps that store or remove a file, and insert or delete a row.

LEMMA StoreUploadFileInv ==
  ASSUME TypeInv, FileInv, NEW q \in Requests, NEW d \in Documents, StoreUpload(q, d)
  PROVE  FileInv'
  <1>1. /\ WorksOn(q, d) /\ request'[q].kind = "upload"
        /\ request'[q].pc = "stored" /\ request'[q].reply = "none"
    BY BeginWorksOn DEF StoreUpload, Kind, RequestStep
  <1>2. /\ request'[q].doc = d
        /\ \A r \in Requests : r # q => request'[r] = request[r] /\ request'[r].doc # d
    BY <1>1 DEF StoreUpload, FreshId, WorksOn, Others
  <1>3. /\ object'[d] = TRUE
        /\ \A e \in Documents \ {d} : object'[e] = object[e]
    BY DEF StoreUpload, TypeInv, TypeOK
  <1>4. \A e \in Documents : Exists(e)' <=> Exists(e)
    BY DEF StoreUpload, tables, Exists
  <1>5. ~Exists(d)
    BY DEF StoreUpload, FreshId, FileInv, FileOK, Known
  <1>6. Known(d)' /\ Alone(d)' /\ FileGone(d)' /\ MissingExplained(d)' /\ Removed(d)'
    BY <1>1, <1>2, <1>3, <1>4, <1>5
       DEF Known, Alone, FileGone, MissingExplained, Removed
  <1>7. OrphanExplained(d)'
    BY <1>1, <1>2 DEF OrphanExplained, Unfinished
  <1>8. \A e \in Documents \ {d} : FileOK(e)'
    BY <1>1, <1>3, <1>4, OtherDocument
  <1> QED BY <1>1, <1>6, <1>7, <1>8, WorksKeepsAnswered DEF FileInv, FileOK

LEMMA InsertDocumentFileInv ==
  ASSUME TypeInv, FileInv, NEW q \in Requests, InsertDocument(q)
  PROVE  FileInv'
  <1>0. PICK d \in Documents : request[q].doc = d
    BY DEF InsertDocument, TypeInv, RequestsOK
  <1>1. /\ WorksOn(q, d) /\ d \in Documents
        /\ request'[q].pc = "inserted" /\ request'[q].reply = "none"
    BY <1>0, GoesWorksOn DEF InsertDocument, RequestStep
  <1>2. /\ request'[q].doc = d
        /\ \A r \in Requests : r # q => request'[r] = request[r]
    BY <1>0, <1>1 DEF WorksOn, Others
  <1>3. /\ Exists(d)'
        /\ object' = object
        /\ \A e \in Documents \ {d} : Exists(e)' <=> Exists(e)
    BY <1>0, <1>1 DEF InsertDocument, TypeInv, TypeOK, Exists
  <1>4. /\ object[d]
        /\ \A r \in Requests \ {q} :
              request[r].doc = d => request[r].pc = "done" /\ request[r].reply = "404"
    BY <1>0, <1>1 DEF InsertDocument, FileInv, FileOK, Alone
  <1>5. Known(d)' /\ MissingExplained(d)' /\ OrphanExplained(d)'
    BY <1>2, <1>3, <1>4 DEF Known, MissingExplained, OrphanExplained
  <1>6. Alone(d)' /\ FileGone(d)' /\ Removed(d)'
    BY <1>1, <1>2, <1>4 DEF Alone, FileGone, Removed
  <1>7. \A e \in Documents \ {d} : FileOK(e)'
    BY <1>1, <1>3, OtherDocument
  <1> QED BY <1>1, <1>5, <1>6, <1>7, WorksKeepsAnswered DEF FileInv, FileOK

LEMMA RemoveStoredUploadFileInv ==
  ASSUME TypeInv, FileInv, NEW q \in Requests, RemoveStoredUpload(q)
  PROVE  FileInv'
  <1>0. PICK d \in Documents : request[q].doc = d
    BY DEF RemoveStoredUpload, TypeInv, RequestsOK
  <1>1. /\ WorksOn(q, d) /\ d \in Documents /\ request[q].kind = "upload"
        /\ request'[q].pc = "done" /\ request'[q].reply = "500"
    BY <1>0, RespondWorksOn DEF RemoveStoredUpload, Reply, TypeInv, RequestsOK
  <1>2. /\ request[q].doc = d /\ request[q].pc = "compensating"
        /\ request'[q].doc = d /\ request'[q].kind = "upload"
        /\ \A r \in Requests : r # q => request'[r] = request[r]
    BY <1>0, <1>1 DEF WorksOn, Others, RemoveStoredUpload
  <1>3. /\ object'[d] => object[d]
        /\ \A e \in Documents \ {d} : object'[e] = object[e]
    BY <1>0, <1>1 DEF RemoveStoredUpload, TypeInv, TypeOK
  <1>4. \A e \in Documents : Exists(e)' <=> Exists(e)
    BY DEF RemoveStoredUpload, tables, Exists
  <1>5. FileOK(d)
    BY <1>1 DEF FileInv
  <1>6. Known(d)' /\ FileGone(d)' /\ Removed(d)'
    BY <1>1, <1>2, <1>3, <1>4, <1>5 DEF FileOK, Known, FileGone, Removed
  <1>7. Alone(d)'
    BY <1>1, <1>2, <1>5 DEF FileOK, Alone
  <1>8. MissingExplained(d)' /\ OrphanExplained(d)'
    BY <1>1, <1>2 DEF MissingExplained, OrphanExplained, Unfinished
  <1>9. \A e \in Documents \ {d} : FileOK(e)'
    BY <1>1, <1>3, <1>4, OtherDocument
  <1> QED BY <1>1, <1>6, <1>7, <1>8, <1>9, WorksKeepsAnswered DEF FileInv, FileOK

LEMMA DeleteObjectFileInv ==
  ASSUME TypeInv, FileInv, NEW q \in Requests, DeleteObject(q)
  PROVE  FileInv'
  <1>0. PICK d \in Documents : request[q].doc = d
    BY DEF DeleteObject, TypeInv, RequestsOK
  <1>1. /\ WorksOn(q, d) /\ d \in Documents /\ request[q].kind = "remove"
        /\ request'[q].pc = "objectDeleted" /\ request'[q].reply = "none"
    BY <1>0, GoesWorksOn DEF DeleteObject, RequestStep, TypeInv, RequestsOK
  <1>2. /\ request[q].doc = d /\ request[q].pc = "removing"
        /\ request'[q].doc = d /\ request'[q].kind = "remove"
        /\ \A r \in Requests : r # q => request'[r] = request[r]
    BY <1>0, <1>1 DEF WorksOn, Others, DeleteObject
  <1>3. /\ object'[d] = FALSE
        /\ \A e \in Documents \ {d} : object'[e] = object[e]
    BY <1>0, <1>1 DEF DeleteObject, TypeInv, TypeOK
  <1>4. \A e \in Documents : Exists(e)' <=> Exists(e)
    BY DEF DeleteObject, tables, Exists
  <1>5. FileOK(d)
    BY <1>1 DEF FileInv
  <1>6. Known(d)' /\ FileGone(d)' /\ Removed(d)' /\ OrphanExplained(d)'
    BY <1>1, <1>2, <1>3, <1>4, <1>5
       DEF FileOK, Known, FileGone, Removed, OrphanExplained
  <1>7. Alone(d)'
    BY <1>1, <1>2, <1>5 DEF FileOK, Alone
  <1>8. MissingExplained(d)'
    BY <1>1, <1>2 DEF MissingExplained, Unfinished
  <1>9. \A e \in Documents \ {d} : FileOK(e)'
    BY <1>1, <1>3, <1>4, OtherDocument
  <1> QED BY <1>1, <1>6, <1>7, <1>8, <1>9, WorksKeepsAnswered DEF FileInv, FileOK

LEMMA DeleteDocumentFileInv ==
  ASSUME TypeInv, FileInv, NEW q \in Requests, DeleteDocument(q)
  PROVE  FileInv'
  <1>0. PICK d \in Documents : request[q].doc = d
    BY DEF DeleteDocument, TypeInv, RequestsOK
  <1>1. /\ WorksOn(q, d) /\ d \in Documents
        /\ request'[q].pc = "done" /\ request'[q].reply = "200"
    BY <1>0, RespondWorksOn DEF DeleteDocument, Reply
  <1>2. /\ request[q].doc = d /\ request[q].pc = "objectDeleted"
        /\ \A r \in Requests : r # q => request'[r] = request[r]
    BY <1>0, <1>1 DEF WorksOn, Others, DeleteDocument
  <1>3. /\ ~Exists(d)'
        /\ object' = object
        /\ \A e \in Documents \ {d} : Exists(e)' <=> Exists(e)
    BY <1>0, <1>1 DEF DeleteDocument, TypeInv, TypeOK, Exists
  <1>4. FileOK(d)
    BY <1>1 DEF FileInv
  <1>5. ~object[d]
    BY <1>2, <1>4 DEF FileOK, FileGone
  <1>6. /\ Known(d)' /\ FileGone(d)' /\ Removed(d)' /\ OrphanExplained(d)'
        /\ MissingExplained(d)'
    BY <1>3, <1>5 DEF Known, FileGone, Removed, OrphanExplained, MissingExplained
  <1>7. Alone(d)'
    BY <1>1, <1>2, <1>4 DEF FileOK, Alone
  <1>8. \A e \in Documents \ {d} : FileOK(e)'
    BY <1>1, <1>3, OtherDocument
  <1> QED BY <1>1, <1>6, <1>7, <1>8, WorksKeepsAnswered DEF FileInv, FileOK

-----------------------------------------------------------------------------

LEMMA UploadFileInv ==
  ASSUME TypeInv, FileInv, NEW q \in Requests, UploadStep(q)
  PROVE  FileInv'
  <1> USE DEF Kind, Reply, RequestStep
  <1>1. ASSUME NEW d \in Documents, StoreUpload(q, d) \/ StoreUploadFails(q, d)
        PROVE  FileInv'
    <2>1. CASE StoreUploadFails(q, d)
      <3>1. /\ request[q].pc = "idle" /\ FreshId(d) /\ UNCHANGED <<document, object>>
            /\ Refuse(q, "upload", d, "502")
        BY <2>1 DEF StoreUploadFails, OnlyRequestMoves, tables
      <3>2. /\ WorksOn(q, d)
            /\ request'[q].pc = "done" /\ request'[q].reply = "502"
        BY <3>1, RefuseWorksOn
      <3> QED BY <3>1, <3>2, QuietRequest DEF Exists
    <2> QED BY <1>1, <2>1, StoreUploadFileInv
  <1>2. CASE InsertDocument(q)
    BY <1>2, InsertDocumentFileInv
  <1>3. CASE InsertDocumentFails(q) \/ RefreshDocumentFails(q)
    <2>1. /\ request[q].pc \in {"stored", "inserted"} /\ UNCHANGED <<document, object>>
          /\ RequestGoes(q, "compensating")
      BY <1>3 DEF InsertDocumentFails, RefreshDocumentFails, tables
    <2>2. /\ WorksOn(q, request[q].doc) /\ request[q].doc \in Documents
          /\ request'[q].pc = "compensating" /\ request'[q].reply = "none"
      BY <2>1, GoesWorksOn
    <2> QED BY <2>1, <2>2, QuietRequest DEF Exists
  <1>4. CASE RefreshDocument(q)
    <2>1. /\ request[q].pc = "inserted" /\ UNCHANGED <<document, object>>
          /\ Respond(q, "201")
      BY <1>4 DEF RefreshDocument, OnlyRequestMoves, tables
    <2>2. /\ WorksOn(q, request[q].doc) /\ request[q].doc \in Documents
          /\ request'[q].pc = "done" /\ request'[q].reply = "201"
      BY <2>1, RespondWorksOn
    <2> QED BY <2>1, <2>2, QuietRequest DEF Exists
  <1>5. CASE RemoveStoredUpload(q)
    BY <1>5, RemoveStoredUploadFileInv
  <1> QED BY <1>1, <1>2, <1>3, <1>4, <1>5 DEF UploadStep

\* CheckProcess and CheckRemove alike.
LEMMA CheckFileInv ==
  ASSUME TypeInv, FileInv, NEW q \in Requests, NEW d \in Documents,
         CheckProcess(q, d) \/ CheckRemove(q, d)
  PROVE  FileInv'
  <1>1. request[q].pc = "idle" /\ UNCHANGED <<document, object>>
    BY DEF CheckProcess, CheckRemove, OnlyRequestMoves, tables
  <1>2. PICK kind \in Kind :
           \/ ~Exists(d) /\ Refuse(q, kind, d, "404")
           \/ Exists(d) /\ Refuse(q, kind, d, "409")
           \/ Exists(d) /\ Begin(q, kind, d, "checked")
           \/ Exists(d) /\ Begin(q, kind, d, "removing")
    BY DEF CheckProcess, CheckRemove, Kind
  <1>3. /\ WorksOn(q, d)
        /\ request'[q].pc \in {"done", "checked", "removing"}
        /\ request'[q].reply \in {"404", "409", "none"}
        /\ Exists(d) \/ (request'[q].pc = "done" /\ request'[q].reply = "404")
    <2>1. /\ "404" \in Reply /\ "409" \in Reply
          /\ "checked" \in RequestStep \ {"idle"} /\ "removing" \in RequestStep \ {"idle"}
      BY DEF Reply, RequestStep
    <2>2. ASSUME NEW code \in Reply, Refuse(q, kind, d, code)
          PROVE  WorksOn(q, d) /\ request'[q].pc = "done" /\ request'[q].reply = code
      BY <1>1, <2>2, RefuseWorksOn
    <2>3. ASSUME NEW step \in RequestStep \ {"idle"}, Begin(q, kind, d, step)
          PROVE  WorksOn(q, d) /\ request'[q].pc = step /\ request'[q].reply = "none"
      BY <1>1, <2>3, BeginWorksOn
    <2>4. CASE ~Exists(d) /\ Refuse(q, kind, d, "404")
      BY <2>1, <2>2, <2>4
    <2>5. CASE Exists(d) /\ Refuse(q, kind, d, "409")
      BY <2>1, <2>2, <2>5
    <2>6. CASE Exists(d) /\ Begin(q, kind, d, "checked")
      BY <2>1, <2>3, <2>6
    <2>7. CASE Exists(d) /\ Begin(q, kind, d, "removing")
      BY <2>1, <2>3, <2>7
    <2> QED BY <1>2, <2>4, <2>5, <2>6, <2>7
  <1> QED BY <1>1, <1>3, QuietRequest DEF Exists

LEMMA ProcessFileInv ==
  ASSUME TypeInv, StoreInv, FileInv, NEW q \in Requests, ProcessStep(q)
  PROVE  FileInv'
  <1>1. ASSUME NEW d \in Documents, CheckProcess(q, d) PROVE FileInv'
    BY <1>1, CheckFileInv
  <1>2. CASE ~(\E d \in Documents : CheckProcess(q, d))
    <2>1. /\ request[q].pc \in {"checked", "locked", "created", "undo", "undoRead", "undoMark"}
          /\ object' = object
      BY <1>2 DEF ProcessStep, LockDocument, CreateRun, EnqueueTask, EnqueueTaskFails,
         ReadUndoneRun, ReadUndoneDocument,
         UndoCreateRun, ProcessFails, OnlyRequestMoves
    <2>2. /\ WorksOn(q, request[q].doc) /\ request[q].doc \in Documents
          /\ request'[q].pc \in
                {"locked", "created", "undo", "undoRead", "undoMark", "done"}
          /\ request'[q].reply \in {"none", "404", "500", "202", "503"}
      <3>1. \/ RequestGoes(q, "created") \/ RequestGoes(q, "undo")
            \/ Respond(q, "404") \/ Respond(q, "500") \/ Respond(q, "202") \/ Respond(q, "503")
            \/ \E n \in Attempts :
                  request' = [request EXCEPT ![q].pc = "locked", ![q].attempt = n]
            \/ ReadUndoneRun(q) /\ run[request[q].doc][request[q].attempt] # "none"
            \/ ReadUndoneDocument(q)
        BY <1>2 DEF ProcessStep, LockDocument, CreateRun, EnqueueTask, EnqueueTaskFails,
           ReadUndoneRun, ReadUndoneDocument,
         UndoCreateRun, ProcessFails
      <3>2. CASE \E n \in Attempts :
                    request' = [request EXCEPT ![q].pc = "locked", ![q].attempt = n]
        <4>1. request' \in [Requests -> RequestRecord]
          BY ProcessTypeInv DEF TypeInv, TypeOK
        <4>2. /\ request'[q].pc = "locked" /\ request'[q].doc = request[q].doc
              /\ request'[q].kind = request[q].kind
              /\ request'[q].reply = request[q].reply
              /\ Others(q)
          BY <3>2 DEF TypeInv, TypeOK, RequestRecord, Others
        <4> QED BY <2>1, <4>1, <4>2
               DEF WorksOn, FileInv, AnsweredIsDone, TypeInv, RequestsOK
      <3>3. CASE RequestGoes(q, "created") \/ RequestGoes(q, "undo")
        BY <3>3, <2>1, GoesWorksOn DEF RequestStep
      <3>4. CASE \/ Respond(q, "404") \/ Respond(q, "500") \/ Respond(q, "202")
                 \/ Respond(q, "503")
        BY <3>4, <2>1, RespondWorksOn DEF Reply
      <3>5. CASE \/ ReadUndoneRun(q) /\ run[request[q].doc][request[q].attempt] # "none"
                 \/ ReadUndoneDocument(q)
        <4>1. PICK step \in {"undoRead", "undoMark"}, known \in SUBSET FailureRow :
                 request' = [request EXCEPT ![q].pc = step, ![q].readFailed = known]
          BY <3>5, UndoReads DEF TypeInv, TypeOK
        <4>2. step \in RequestStep
          BY DEF RequestStep
        <4>3. /\ request' \in [Requests -> RequestRecord]
              /\ request'[q].pc = step /\ request'[q].doc = request[q].doc
              /\ request'[q].kind = request[q].kind
              /\ request'[q].reply = request[q].reply
              /\ Others(q)
          BY <4>1, <4>2, RequestReadsFields DEF TypeInv, TypeOK
        <4> QED BY <2>1, <4>3 DEF WorksOn, FileInv, AnsweredIsDone, TypeInv, RequestsOK
      <3> QED BY <3>1, <3>2, <3>3, <3>4, <3>5
    <2>3. \A e \in Documents : Exists(e)' <=> Exists(e)
      <3>1. CASE CreateRun(q)
        BY <3>1 DEF CreateRun, StoreInv, LockedIsCurrent, TypeInv, TypeOK, Exists
      <3>2. CASE UndoCreateRun(q)
        <4>1. request[q].readFailed \in SUBSET FailureRow
          BY DEF TypeInv, TypeOK, RequestRecord
        <4> QED BY <3>2, <4>1, MarkRunFailedFields
               DEF UndoCreateRun, TypeInv, TypeOK, RequestsOK, Exists
      <3>3. CASE ~CreateRun(q) /\ ~UndoCreateRun(q)
        BY <1>2, <3>3 DEF ProcessStep, LockDocument, EnqueueTask, EnqueueTaskFails,
           ReadUndoneRun, ReadUndoneDocument, ProcessFails, OnlyRequestMoves, tables, Exists
      <3> QED BY <3>1, <3>2, <3>3
    <2> QED BY <2>1, <2>2, <2>3, QuietRequest
  <1> QED BY <1>1, <1>2

LEMMA RemoveFileInv ==
  ASSUME TypeInv, FileInv, NEW q \in Requests, RemoveStep(q) \/ ApiCrash(q)
  PROVE  FileInv'
  <1>1. ASSUME NEW d \in Documents, CheckRemove(q, d) PROVE FileInv'
    BY <1>1, CheckFileInv
  <1>2. CASE DeleteObject(q)
    BY <1>2, DeleteObjectFileInv
  <1>3. CASE DeleteDocument(q)
    BY <1>3, DeleteDocumentFileInv
  <1>4. CASE DeleteObjectFails(q) \/ DeleteDocumentFails(q) \/ ApiCrash(q)
    <2>1. /\ request[q].pc \notin {"idle", "done"} /\ UNCHANGED <<document, object>>
          /\ \/ request[q].pc = "removing" /\ Respond(q, "502")
             \/ request[q].pc = "objectDeleted" /\ Respond(q, "500")
             \/ ApiCrash(q)
      BY <1>4 DEF DeleteObjectFails, DeleteDocumentFails, ApiCrash, OnlyRequestMoves, tables
    <2>2. /\ WorksOn(q, request[q].doc) /\ request[q].doc \in Documents
          /\ request'[q].pc = "done"
          /\ \/ request[q].pc = "removing" /\ request'[q].reply = "502"
             \/ request'[q].reply \in {"500", "crashed"}
      BY <2>1, RespondWorksOn, ApiCrashWorksOn DEF Reply
    <2> QED BY <2>1, <2>2, QuietRequest DEF Exists
  <1> QED BY <1>1, <1>2, <1>3, <1>4 DEF RemoveStep

LEMMA WorkerFileInv ==
  ASSUME TypeInv, StoreInv, FileInv, NEW w \in Workers, TaskStep(w) \/ FaultStep(w)
  PROVE  FileInv'
  <1>1. request' = request /\ object' = object
    BY DEF TaskStep, FaultStep, ReceiveTask, SkipRun, StartRun, StartRunErrs, Extract,
       ReplacePages, FlushPages, CompleteRun, RefreshRun, RefreshRunRaises, AttemptRaises, ExtractRaises,
         ReadFailedDocument, FailRun, FailRunErrs, AckTask,
       WorkerLost, TaskTimesOut, OnlyWorkerMoves
  <1>d. worker[w].pc # "idle" =>
           worker[w].doc \in Documents /\ worker[w].attempt \in Attempts
    BY DEF TypeInv, WorkersOK
  <1>2. \A e \in Documents : Exists(e)' <=> Exists(e)
    <2>1. CASE StartRun(w)
      BY <2>1, <1>d DEF StartRun, StoreInv, NothingOutlivesDocument, TypeInv, TypeOK, Exists
    <2>2. CASE CompleteRun(w)
      BY <2>2, <1>d DEF CompleteRun, StoreInv, FlushedHasRun, NothingOutlivesDocument,
         TypeInv, TypeOK, Exists
    <2>3. CASE FailRun(w)
      <3>1. worker[w].readFailed \in SUBSET FailureRow
        BY DEF TypeInv, TypeOK, WorkerRecord
      <3>2. /\ worker[w].doc \in Documents /\ worker[w].attempt \in Attempts
            /\ MarkRunFailed(worker[w].doc, worker[w].attempt, worker[w].readFailed)
        BY <2>3, <1>d DEF FailRun
      <3>3. /\ document' \in {document, [document EXCEPT ![worker[w].doc] = "failed"]}
            /\ ~Exists(worker[w].doc) => document' = document
        BY <3>1, <3>2, MarkRunFailedFields DEF TypeInv
      <3> QED BY <3>2, <3>3 DEF TypeInv, TypeOK, Exists
    <2>4. CASE ~StartRun(w) /\ ~CompleteRun(w) /\ ~FailRun(w)
      BY <2>4 DEF TaskStep, FaultStep, ReceiveTask, SkipRun, StartRunErrs, Extract,
         ReplacePages, FlushPages, RefreshRun, RefreshRunRaises, AttemptRaises, ExtractRaises,
         ReadFailedDocument, FailRunErrs, AckTask, WorkerLost,
         TaskTimesOut, OnlyWorkerMoves, tables, Exists
    <2> QED BY <2>1, <2>2, <2>3, <2>4
  <1> QED BY <1>1, <1>2 DEF FileInv, AnsweredIsDone, FileOK, Known, Alone, FileGone,
         MissingExplained, OrphanExplained, Removed, Unfinished

LEMMA NextFileInv == TypeInv /\ StoreInv /\ FileInv /\ [Next]_vars => FileInv'
  <1> SUFFICES ASSUME TypeInv, StoreInv, FileInv, [Next]_vars PROVE FileInv'
    OBVIOUS
  <1>1. ASSUME NEW q \in Requests,
               UploadStep(q) \/ ProcessStep(q) \/ RemoveStep(q) \/ ApiCrash(q)
        PROVE  FileInv'
    BY <1>1, UploadFileInv, ProcessFileInv, RemoveFileInv
  <1>2. ASSUME NEW w \in Workers, TaskStep(w) \/ FaultStep(w) PROVE FileInv'
    BY <1>2, WorkerFileInv
  <1>3. CASE UNCHANGED vars
    BY <1>3 DEF vars, FileInv, AnsweredIsDone, FileOK, Known, Alone, FileGone,
       MissingExplained, OrphanExplained, Removed, Unfinished, Exists
  <1> QED BY <1>1, <1>2, <1>3 DEF Next, Rest

\* Every mismatch of row and file has a request to blame, and nobody but the
\* upload itself can act on a file that has no row yet.
THEOREM SpecFileInv == Spec => []FileInv
  BY InitFileInv, NextFileInv, SpecTypeInv, SpecStoreInv, PTL DEF Spec

\* A row without its file is a removal in its second half, or the remains of
\* a removal or an upload that failed or died.
THEOREM SpecMissingFileIsExplained == Spec => []MissingFileIsExplained
  <1>1. FileInv => MissingFileIsExplained
    BY DEF FileInv, FileOK, MissingExplained, MissingFileIsExplained
  <1> QED BY <1>1, SpecFileInv, PTL

\* A file without a row is an upload under way, or the remains of one that
\* failed or died.
THEOREM SpecOrphanFileIsExplained == Spec => []OrphanFileIsExplained
  <1>1. FileInv => OrphanFileIsExplained
    BY DEF FileInv, FileOK, OrphanExplained, OrphanFileIsExplained
  <1> QED BY <1>1, SpecFileInv, PTL

\* A removal that answered 200 stays true.
THEOREM SpecRemovedForGood == Spec => []RemovedForGood
  <1>1. TypeInv /\ FileInv => RemovedForGood
    BY DEF TypeInv, RequestsOK, Kind, FileInv, FileOK, Removed, RemovedForGood
  <1> QED BY <1>1, SpecFileInv, SpecTypeInv, PTL

-----------------------------------------------------------------------------
\* Runs and their tasks.

\* One run of ActiveRunIsNotLost.
NotLost(d, n) ==
    run[d][n] \in ActiveStatus /\ dbErrors = 0 =>
        InFlight(d, n) \/ BeingQueued(d, n) \/ CrashedProcess(d, n)

NoneLost == \A d \in Documents, n \in Attempts : NotLost(d, n)

\* The request may still have to mark its run failed.
Sending(q) ==
    /\ request[q].pc \in {"created", "undo", "undoRead", "undoMark"}
    /\ "run" \notin request[q].readFailed

\* What a request step leaves in flight or on record stays so.
LEMMA StillInFlight ==
  ASSUME TypeInv, FileInv, NEW q \in Requests, request[q].pc # "done", Others(q),
         NEW d \in Documents, NEW n \in Attempts,
         ready'[d][n] \in Nat, ready'[d][n] >= ready[d][n], worker' = worker
  PROVE  /\ InFlight(d, n) => InFlight(d, n)'
         /\ CrashedProcess(d, n) => CrashedProcess(d, n)'
  <1>1. ready[d][n] \in Nat
    BY DEF TypeInv, TypeOK
  <1>2. InFlight(d, n) => InFlight(d, n)'
    BY <1>1 DEF InFlight, Holds
  <1>3. CrashedProcess(d, n) => CrashedProcess(d, n)'
    BY DEF CrashedProcess, FileInv, AnsweredIsDone, Others
  <1> QED BY <1>2, <1>3

\* A request that is not about to send a task, and makes no run active.
LEMMA BystanderLosesNone ==
  ASSUME TypeInv, FileInv, NoneLost, NEW q \in Requests,
         ~Sending(q), request[q].pc # "done", Others(q),
         ready' = ready, worker' = worker, dbErrors' = 0 => dbErrors = 0,
         \A d \in Documents, n \in Attempts :
            run'[d][n] \in ActiveStatus => run[d][n] \in ActiveStatus
  PROVE  NoneLost'
  <1> SUFFICES ASSUME NEW d \in Documents, NEW n \in Attempts,
                      run'[d][n] \in ActiveStatus, dbErrors' = 0
               PROVE  InFlight(d, n)' \/ BeingQueued(d, n)' \/ CrashedProcess(d, n)'
    BY DEF NoneLost, NotLost
  <1>1. InFlight(d, n) \/ BeingQueued(d, n) \/ CrashedProcess(d, n)
    BY DEF NoneLost, NotLost
  <1>2. BeingQueued(d, n) => BeingQueued(d, n)'
    BY DEF BeingQueued, Sending, Others
  <1>3. ready'[d][n] \in Nat /\ ready'[d][n] >= ready[d][n]
    BY DEF TypeInv, TypeOK
  <1> QED BY <1>1, <1>2, <1>3, StillInFlight

\* A request between creating its run and its answer leaves the run with its
\* task, or with somebody who knows of it, or failed.
LEMMA SenderLosesNone ==
  ASSUME TypeInv, FileInv, NoneLost, NEW q \in Requests,
         NEW d \in Documents, NEW n \in Attempts,
         Sending(q), Others(q),
         request[q].doc = d, request[q].attempt = n,
         \A e \in Documents, m \in Attempts :
            ready'[e][m] \in Nat /\ ready'[e][m] >= ready[e][m],
         worker' = worker, dbErrors' = dbErrors,
         \A e \in Documents, m \in Attempts :
            run'[e][m] \in ActiveStatus => run[e][m] \in ActiveStatus,
         \/ run'[d][n] \notin ActiveStatus
         \/ ready'[d][n] > 0
         \/ BeingQueued(d, n)'
         \/ CrashedProcess(d, n)'
  PROVE  NoneLost'
  <1> SUFFICES ASSUME NEW e \in Documents, NEW m \in Attempts,
                      run'[e][m] \in ActiveStatus, dbErrors' = 0
               PROVE  InFlight(e, m)' \/ BeingQueued(e, m)' \/ CrashedProcess(e, m)'
    BY DEF NoneLost, NotLost
  <1>1. CASE e = d /\ m = n
    BY <1>1 DEF InFlight
  <1>2. CASE e # d \/ m # n
    <2>1. InFlight(e, m) \/ BeingQueued(e, m) \/ CrashedProcess(e, m)
      BY DEF NoneLost, NotLost
    <2>2. BeingQueued(e, m) => BeingQueued(e, m)'
      BY <1>2 DEF BeingQueued, Others
    <2>3. request[q].pc # "done"
      BY DEF Sending
    <2> QED BY <2>1, <2>2, <2>3, StillInFlight
  <1> QED BY <1>1, <1>2

\* What those two reads leave in the request.
LEMMA UndoReadsFields ==
  ASSUME request \in [Requests -> RequestRecord], NEW q \in Requests,
         \/ ReadUndoneRun(q) /\ run[request[q].doc][request[q].attempt] # "none"
         \/ ReadUndoneDocument(q)
  PROVE  /\ request'[q].pc \in {"undoRead", "undoMark"}
         /\ request'[q].doc = request[q].doc
         /\ request'[q].attempt = request[q].attempt
         /\ "run" \in request'[q].readFailed =>
               \/ "run" \in request[q].readFailed
               \/ run[request[q].doc][request[q].attempt] = "failed"
  <1>1. PICK step \in {"undoRead", "undoMark"}, known \in SUBSET FailureRow :
           /\ request' = [request EXCEPT ![q].pc = step, ![q].readFailed = known]
           /\ "run" \in known =>
                 \/ "run" \in request[q].readFailed
                 \/ run[request[q].doc][request[q].attempt] = "failed"
    BY UndoReads
  <1>2. step \in RequestStep
    BY DEF RequestStep
  <1>3. request' = [request EXCEPT ![q].pc = step, ![q].readFailed = known]
    BY <1>1
  <1>4. request'[q].pc = step
    BY <1>2, <1>3, RequestReadsFields
  <1>5. request'[q].readFailed = known
    <2>1. "readFailed" \in DOMAIN request[q]
      BY DEF RequestRecord
    <2> QED BY <1>3, <2>1
  <1>6. request'[q].doc = request[q].doc /\ request'[q].attempt = request[q].attempt
    BY <1>2, <1>3, RequestReadsFields
  <1> QED BY <1>1, <1>4, <1>5, <1>6

LEMMA RequestLosesNone ==
  ASSUME TypeInv, StoreInv, FileInv, NoneLost, NEW q \in Requests,
         UploadStep(q) \/ ProcessStep(q) \/ RemoveStep(q) \/ ApiCrash(q)
  PROVE  NoneLost'
  <1>1. worker' = worker
    BY DEF UploadStep, StoreUpload, StoreUploadFails, InsertDocument, InsertDocumentFails,
       RefreshDocument, RefreshDocumentFails, RemoveStoredUpload, ProcessStep, CheckProcess,
       LockDocument, CreateRun, EnqueueTask, EnqueueTaskFails, ReadUndoneRun, ReadUndoneDocument,
         UndoCreateRun, ProcessFails, RemoveStep,
       CheckRemove, DeleteObject, DeleteObjectFails, DeleteDocument, DeleteDocumentFails,
       ApiCrash, OnlyRequestMoves
  <1>2. Others(q) /\ request[q].pc # "done"
    BY DEF UploadStep, StoreUpload, StoreUploadFails, InsertDocument, InsertDocumentFails,
       RefreshDocument, RefreshDocumentFails, RemoveStoredUpload, ProcessStep, CheckProcess,
       LockDocument, CreateRun, EnqueueTask, EnqueueTaskFails, ReadUndoneRun, ReadUndoneDocument,
         UndoCreateRun, ProcessFails, RemoveStep,
       CheckRemove, DeleteObject, DeleteObjectFails, DeleteDocument, DeleteDocumentFails,
       ApiCrash, RequestGoes, Respond, Begin, Refuse, Others, TypeInv, TypeOK
  <1>s. request[q].pc = "created" => Sending(q)
    BY DEF Sending, TypeInv, RequestsOK
  <1>d. request[q].pc \in {"created", "undo", "undoRead", "undoMark"} =>
           /\ request[q].doc \in Documents /\ request[q].attempt \in Attempts
           /\ request[q].kind = "process"
    BY DEF TypeInv, RequestsOK
  <1>r. \A d \in Documents, n \in Attempts : ready[d][n] \in Nat /\ ready[d][n] >= ready[d][n]
    BY DEF TypeInv, TypeOK
  <1>3. CASE CreateRun(q)
    <2>1. PICK d \in Documents, n \in Attempts : request[q].doc = d /\ request[q].attempt = n
      BY <1>3 DEF CreateRun, TypeInv, RequestsOK
    <2>2. run[d][n] = "none" /\ request[q].pc = "locked"
      BY <1>3, <2>1, NextAttemptIsFree DEF CreateRun, StoreInv, LockedIsCurrent
    <2>3. /\ run' = [run EXCEPT ![d][n] = "queued"] /\ RequestGoes(q, "created")
          /\ ready' = ready /\ dbErrors' = dbErrors
      BY <1>3, <2>1, <2>2 DEF CreateRun
    <2>4. BeingQueued(d, n)'
      <3>1. request[q].readFailed = {}
        BY <2>2 DEF TypeInv, RequestsOK
      <3> QED BY <2>1, <2>3, <3>1, RequestGoesFields
             DEF BeingQueued, TypeInv, TypeOK, RequestStep
    <2> SUFFICES ASSUME NEW e \in Documents, NEW m \in Attempts,
                        run'[e][m] \in ActiveStatus, dbErrors' = 0
                 PROVE  InFlight(e, m)' \/ BeingQueued(e, m)' \/ CrashedProcess(e, m)'
      BY DEF NoneLost, NotLost
    <2>5. CASE e = d /\ m = n
      BY <2>4, <2>5
    <2>6. CASE e # d \/ m # n
      <3>1. run'[e][m] = run[e][m]
        BY <2>3, <2>6 DEF TypeInv, TypeOK
      <3>2. InFlight(e, m) \/ BeingQueued(e, m) \/ CrashedProcess(e, m)
        BY <2>3, <3>1 DEF NoneLost, NotLost
      <3>3. BeingQueued(e, m) => BeingQueued(e, m)'
        BY <1>2, <2>2 DEF BeingQueued, Others
      <3> QED BY <1>1, <1>2, <1>r, <2>3, <3>2, <3>3, StillInFlight
    <2> QED BY <2>5, <2>6
  <1>4. CASE EnqueueTask(q) \/ EnqueueTaskFails(q)
    <2>1. PICK d \in Documents, n \in Attempts : request[q].doc = d /\ request[q].attempt = n
      BY <1>4, <1>d DEF EnqueueTask, EnqueueTaskFails
    <2>2. PICK k \in {0, 1} : ready' = [ready EXCEPT ![d][n] = @ + k]
      BY <1>4, <2>1 DEF EnqueueTask, EnqueueTaskFails
    <2>3. /\ \A e \in Documents, m \in Attempts :
                ready'[e][m] \in Nat /\ ready'[e][m] >= ready[e][m]
          /\ k = 1 => ready'[d][n] > 0
      BY <2>2 DEF TypeInv, TypeOK
    <2>4. /\ request[q].pc = "created" /\ run' = run /\ dbErrors' = dbErrors
      BY <1>4 DEF EnqueueTask, EnqueueTaskFails, tables
    <2>5. ready'[d][n] > 0 \/ BeingQueued(d, n)'
      <3>1. CASE EnqueueTask(q)
        BY <3>1, <2>1 DEF EnqueueTask, TypeInv, TypeOK
      <3>2. CASE EnqueueTaskFails(q)
        <4>1. request[q].readFailed = {}
          BY <2>4 DEF TypeInv, RequestsOK
        <4> QED BY <3>2, <4>1, <2>1, RequestGoesFields
               DEF EnqueueTaskFails, BeingQueued, TypeInv, TypeOK, RequestStep
      <3> QED BY <1>4, <3>1, <3>2
    <2> QED BY <1>1, <1>2, <1>s, <2>1, <2>3, <2>4, <2>5, SenderLosesNone
  <1>5. CASE UndoCreateRun(q) /\ Sending(q)
    <2>1. PICK d \in Documents, n \in Attempts : request[q].doc = d /\ request[q].attempt = n
      BY <1>5, <1>d DEF UndoCreateRun
    <2>2. /\ MarkRunFailed(d, n, request[q].readFailed)
          /\ ready' = ready /\ dbErrors' = dbErrors
      BY <1>5, <2>1 DEF UndoCreateRun
    <2>3. /\ run'[d][n] \notin ActiveStatus
          /\ \A e \in Documents, m \in Attempts :
                run'[e][m] \in ActiveStatus => run[e][m] \in ActiveStatus
      <3>1. CASE run[d][n] = "none"
        BY <2>2, <3>1 DEF MarkRunFailed, ActiveStatus
      <3>2. CASE run[d][n] # "none"
        <4>1. run' = [run EXCEPT ![d][n] = "failed"]
          BY <1>5, <2>2, <3>2 DEF MarkRunFailed, Sending
        <4>2. run \in [Documents -> [Attempts -> RunStatus \union {"none"}]]
          BY DEF TypeInv, TypeOK
        <4> QED BY <4>1, <4>2 DEF ActiveStatus
      <3> QED BY <3>1, <3>2
    <2> QED BY <1>1, <1>2, <1>5, <1>r, <2>1, <2>2, <2>3, SenderLosesNone
  <1>9. CASE (ReadUndoneRun(q) \/ ReadUndoneDocument(q)) /\ Sending(q)
    <2>1. PICK d \in Documents, n \in Attempts : request[q].doc = d /\ request[q].attempt = n
      BY <1>9, <1>d DEF Sending
    <2>2. run' = run /\ ready' = ready /\ dbErrors' = dbErrors
      BY <1>9 DEF ReadUndoneRun, ReadUndoneDocument, OnlyRequestMoves, tables
    <2>3. run'[d][n] \notin ActiveStatus \/ BeingQueued(d, n)'
      <3>1. CASE run[d][n] \in {"none", "failed"}
        BY <2>2, <3>1 DEF ActiveStatus
      <3>2. CASE run[d][n] \notin {"none", "failed"}
        <4>1. request \in [Requests -> RequestRecord]
          BY DEF TypeInv, TypeOK
        <4>2. /\ request'[q].pc \in {"undoRead", "undoMark"}
              /\ request'[q].doc = d /\ request'[q].attempt = n
              /\ "run" \in request'[q].readFailed => "run" \in request[q].readFailed
          BY <1>9, <2>1, <3>2, <4>1, UndoReadsFields
        <4>3. "run" \notin request'[q].readFailed
          BY <1>9, <4>2 DEF Sending
        <4> QED BY <4>2, <4>3 DEF BeingQueued
      <3> QED BY <3>1, <3>2
    <2> QED BY <1>1, <1>2, <1>9, <1>r, <2>1, <2>2, <2>3, SenderLosesNone
  <1>6. CASE ApiCrash(q) /\ Sending(q)
    <2>1. PICK d \in Documents, n \in Attempts : request[q].doc = d /\ request[q].attempt = n
      BY <1>6, <1>d DEF Sending
    <2>2. run' = run /\ ready' = ready /\ dbErrors' = dbErrors
      BY <1>6 DEF ApiCrash, OnlyRequestMoves, tables
    <2>3. CrashedProcess(d, n)'
      BY <1>6, <1>d, <2>1, ApiCrashFields DEF CrashedProcess, Sending, TypeInv, TypeOK
    <2> QED BY <1>1, <1>2, <1>6, <1>r, <2>1, <2>2, <2>3, SenderLosesNone
  <1>8. CASE ProcessFails(q) /\ Sending(q)
    <2>1. PICK d \in Documents, n \in Attempts : request[q].doc = d /\ request[q].attempt = n
      BY <1>8, <1>d DEF Sending
    <2>2. run' = run /\ ready' = ready
      BY <1>8 DEF ProcessFails, tables
    <2>3. \/ run[d][n] = "none" /\ dbErrors' = dbErrors
          \/ dbErrors' # 0
      BY <1>8, <2>1 DEF ProcessFails, TypeInv, TypeOK
    <2>4. CASE dbErrors' # 0
      BY <2>4 DEF NoneLost, NotLost
    <2>5. CASE run[d][n] = "none" /\ dbErrors' = dbErrors
      <3>1. run'[d][n] \notin ActiveStatus
        BY <2>2, <2>5 DEF ActiveStatus
      <3> QED BY <1>1, <1>2, <1>8, <1>r, <2>1, <2>2, <2>5, <3>1, SenderLosesNone
    <2> QED BY <2>3, <2>4, <2>5
  <1>7. CASE /\ ~CreateRun(q) /\ ~EnqueueTask(q) /\ ~EnqueueTaskFails(q)
             /\ ~(/\ \/ UndoCreateRun(q) \/ ReadUndoneRun(q) \/ ReadUndoneDocument(q)
                     \/ ApiCrash(q) \/ ProcessFails(q)
                  /\ Sending(q))
    <2>1. ~Sending(q) /\ ready' = ready
      BY <1>7 DEF Sending, UploadStep, StoreUpload, StoreUploadFails, InsertDocument,
         InsertDocumentFails, RefreshDocument, RefreshDocumentFails, RemoveStoredUpload,
         ProcessStep, CheckProcess, LockDocument, ReadUndoneRun, ReadUndoneDocument,
         UndoCreateRun, ProcessFails, RemoveStep, CheckRemove, DeleteObject,
         DeleteObjectFails, DeleteDocument, DeleteDocumentFails, ApiCrash, OnlyRequestMoves
    <2>2. dbErrors' = 0 => dbErrors = 0
      <3>1. dbErrors' = dbErrors \/ dbErrors' = dbErrors + 1
        BY <1>7 DEF UploadStep, StoreUpload, StoreUploadFails, InsertDocument,
           InsertDocumentFails, RefreshDocument, RefreshDocumentFails, RemoveStoredUpload,
           ProcessStep, CheckProcess, LockDocument, ReadUndoneRun, ReadUndoneDocument,
           UndoCreateRun, ProcessFails, RemoveStep, CheckRemove, DeleteObject,
           DeleteObjectFails, DeleteDocument, DeleteDocumentFails, ApiCrash, OnlyRequestMoves
      <3>2. dbErrors \in Nat
        BY DEF TypeInv, TypeOK
      <3> QED BY <3>1, <3>2
    <2>3. \A d \in Documents, n \in Attempts :
             run'[d][n] \in ActiveStatus => run[d][n] \in ActiveStatus
      <3>1. CASE DeleteDocument(q)
        BY <3>1 DEF DeleteDocument, ActiveStatus, TypeInv, TypeOK, RequestsOK
      <3>3. CASE UndoCreateRun(q)
        <4>1. PICK d \in Documents, n \in Attempts :
                 request[q].doc = d /\ request[q].attempt = n
          BY <3>3 DEF UndoCreateRun, TypeInv, RequestsOK
        <4>2. MarkRunFailed(d, n, request[q].readFailed)
          BY <3>3, <4>1 DEF UndoCreateRun
        <4>3. run' = run \/ run' = [run EXCEPT ![d][n] = "failed"]
          BY <4>2 DEF MarkRunFailed
        <4>4. run \in [Documents -> [Attempts -> RunStatus \union {"none"}]]
          BY DEF TypeInv, TypeOK
        <4>5. CASE run' = [run EXCEPT ![d][n] = "failed"]
          BY <4>4, <4>5 DEF ActiveStatus
        <4> QED BY <4>3, <4>5
      <3>2. CASE ~DeleteDocument(q) /\ ~UndoCreateRun(q)
        BY <1>7, <3>2 DEF UploadStep, StoreUpload, StoreUploadFails, InsertDocument,
           InsertDocumentFails, RefreshDocument, RefreshDocumentFails, RemoveStoredUpload,
           ProcessStep, CheckProcess, LockDocument, ReadUndoneRun, ReadUndoneDocument,
         UndoCreateRun, ProcessFails, RemoveStep, CheckRemove, DeleteObject,
           DeleteObjectFails, DeleteDocumentFails, ApiCrash, OnlyRequestMoves, tables
      <3> QED BY <3>1, <3>2, <3>3
    <2> QED BY <1>1, <1>2, <2>1, <2>2, <2>3, BystanderLosesNone
  <1> QED BY <1>3, <1>4, <1>5, <1>6, <1>7, <1>8, <1>9

LEMMA WorkerLosesNone ==
  ASSUME TypeInv, NoneLost, NEW w \in Workers, TaskStep(w) \/ FaultStep(w)
  PROVE  NoneLost'
  <1> SUFFICES ASSUME NEW d \in Documents, NEW n \in Attempts,
                      run'[d][n] \in ActiveStatus, dbErrors' = 0
               PROVE  InFlight(d, n)' \/ BeingQueued(d, n)' \/ CrashedProcess(d, n)'
    BY DEF NoneLost, NotLost
  <1>1. request' = request
    BY DEF TaskStep, FaultStep, ReceiveTask, SkipRun, StartRun, StartRunErrs, Extract,
       ReplacePages, FlushPages, CompleteRun, RefreshRun, RefreshRunRaises, AttemptRaises, ExtractRaises,
         ReadFailedDocument, FailRun, FailRunErrs, AckTask,
       WorkerLost, TaskTimesOut, OnlyWorkerMoves
  <1>2. /\ BeingQueued(d, n) => BeingQueued(d, n)'
        /\ CrashedProcess(d, n) => CrashedProcess(d, n)'
    BY <1>1 DEF BeingQueued, CrashedProcess
  <1>d. worker[w].pc # "idle" =>
           worker[w].doc \in Documents /\ worker[w].attempt \in Attempts
    BY DEF TypeInv, WorkersOK
  <1>t. /\ worker \in [Workers -> WorkerRecord]
        /\ ready \in [Documents -> [Attempts -> Nat]]
        /\ run \in [Documents -> [Attempts -> RunStatus \union {"none"}]]
        /\ ready[d][n] \in Nat /\ dbErrors \in Nat
    BY DEF TypeInv, TypeOK
  \* A worker that goes on holding its task, and the run it may have started.
  <1>3. CASE StartRun(w) \/ Extract(w) \/ ReplacePages(w) \/ FlushPages(w)
               \/ ExtractRaises(w)
    <2>0. worker[w].readFailed = {}
      BY <1>3 DEF StartRun, Extract, ReplacePages, FlushPages, ExtractRaises, TypeInv,
         WorkersOK
    <2>1. /\ worker[w].pc \in Executing /\ worker'[w].pc \in Executing
          /\ worker'[w].doc = worker[w].doc /\ worker'[w].attempt = worker[w].attempt
          /\ worker'[w].readFailed = {}
          /\ \A v \in Workers : v # w => worker'[v] = worker[v]
          /\ ready' = ready /\ dbErrors' = dbErrors
      <3>1. CASE ReplacePages(w)
        BY <3>1, <1>t, <2>0 DEF ReplacePages, Executing, OnlyWorkerMoves, WorkerRecord
      <3>2. CASE StartRun(w) \/ Extract(w) \/ FlushPages(w) \/ ExtractRaises(w)
        <4>1. PICK step \in {"extracting", "extracted", "flushed", "marking"} :
                 WorkerGoes(w, step)
          BY <3>2 DEF StartRun, Extract, FlushPages, ExtractRaises
        <4>2. step \in WorkerStep
          BY DEF WorkerStep
        <4>3. /\ worker'[w].pc = step
              /\ worker'[w].doc = worker[w].doc /\ worker'[w].attempt = worker[w].attempt
              /\ worker'[w].readFailed = worker[w].readFailed
              /\ OtherWorkers(w)
          BY <1>t, <4>1, <4>2, WorkerGoesFields
        <4>4. worker[w].pc \in Executing /\ ready' = ready /\ dbErrors' = dbErrors
          BY <3>2 DEF StartRun, Extract, FlushPages, ExtractRaises, Executing,
             OnlyWorkerMoves
        <4> QED BY <2>0, <4>3, <4>4 DEF OtherWorkers, Executing
      <3> QED BY <1>3, <3>1, <3>2
    <2>2. InFlight(d, n) => InFlight(d, n)'
      BY <2>1 DEF InFlight, Holds
    <2>3. CASE worker[w].doc = d /\ worker[w].attempt = n
      BY <2>1, <2>3 DEF InFlight, Holds
    <2>4. CASE worker[w].doc # d \/ worker[w].attempt # n
      <3>1. run'[d][n] = run[d][n]
        BY <1>3, <1>t, <1>d, <2>4 DEF StartRun, Extract, ReplacePages, FlushPages,
           ExtractRaises, OnlyWorkerMoves, tables
      <3> QED BY <2>1, <2>2, <3>1, <1>2 DEF NoneLost, NotLost
    <2> QED BY <2>3, <2>4
  \* A worker that is finished with its task: the run is not active any more.
  <1>4. CASE SkipRun(w) \/ CompleteRun(w) \/ (FailRun(w) /\ "run" \notin worker[w].readFailed)
    <2>1. /\ worker[w].pc # "idle" /\ ready' = ready /\ dbErrors' = dbErrors
          /\ \A v \in Workers : v # w => worker'[v] = worker[v]
      BY <1>4, <1>t DEF SkipRun, CompleteRun, FailRun, WorkerGoes, WorkerGivesUp,
         OnlyWorkerMoves
    <2>2. /\ run'[worker[w].doc][worker[w].attempt] \notin ActiveStatus
          /\ worker[w].doc # d \/ worker[w].attempt # n => run'[d][n] = run[d][n]
      BY <1>4, <1>t, <1>d DEF SkipRun, CompleteRun, FailRun, MarkRunFailed, OnlyWorkerMoves,
         tables, ActiveStatus
    <2>3. /\ worker[w].doc # d \/ worker[w].attempt # n
          /\ run'[d][n] = run[d][n]
      BY <2>2
    <2>4. InFlight(d, n) => InFlight(d, n)'
      BY <2>1, <2>3 DEF InFlight, Holds
    <2> QED BY <2>1, <2>3, <2>4, <1>2 DEF NoneLost, NotLost
  \* A worker in its failure handler: it still counts unless it has read "failed".
  <1>10. CASE AttemptRaises(w) \/ RefreshRunRaises(w) \/ ReadFailedDocument(w)
    <2>1. /\ run' = run /\ ready' = ready
          /\ dbErrors' = 0 => dbErrors = 0
      BY <1>10, <1>t DEF AttemptRaises, RefreshRunRaises, ReadFailedDocument,
         OnlyWorkerMoves, tables
    <2>2. HandlerMoves(w)
      BY <1>10, TypeInvParts, HandlerSteps
    <2>3. Holds(w, d, n) => Holds(w, d, n)'
      <3>1. SUFFICES ASSUME Holds(w, d, n) PROVE Holds(w, d, n)'
        OBVIOUS
      <3>2. /\ worker[w].doc = d /\ worker[w].attempt = n
            /\ "run" \notin worker[w].readFailed
            /\ worker'[w].doc = d /\ worker'[w].attempt = n
        BY <2>2, <3>1 DEF Holds, HandlerMoves
      <3>3. CASE AttemptRaises(w) \/ RefreshRunRaises(w)
        <4>1. ReadFailedRun(w) /\ worker[w].readFailed = {}
          BY <3>3 DEF AttemptRaises, RefreshRunRaises, TypeInv, WorkersOK
        <4>2. run[d][n] # "none" /\ run[d][n] # "failed"
          BY <2>1 DEF ActiveStatus
        <4>3. worker'[w].pc = "failing" /\ worker'[w].readFailed = NoteFailed({}, "run", run[d][n])
          BY <1>t, <3>2, <4>1, <4>2, ReadFailedRunMoves
        <4> QED BY <3>2, <4>2, <4>3 DEF Holds, NoteFailed, Executing
      <3>4. CASE ReadFailedDocument(w)
        <4>1. /\ worker'[w].pc = "marking"
              /\ "run" \in worker'[w].readFailed => "run" \in worker[w].readFailed
          BY <1>t, <3>4, ReadFailedDocumentMoves
        <4> QED BY <3>2, <4>1 DEF Holds, Executing
      <3> QED BY <1>10, <3>3, <3>4
    <2>4. InFlight(d, n) => InFlight(d, n)'
      BY <2>1, <2>2, <2>3 DEF InFlight, Holds, HandlerMoves, OtherWorkers
    <2> QED BY <2>1, <2>4, <1>2 DEF NoneLost, NotLost
  <1>11. CASE FailRun(w) /\ "run" \in worker[w].readFailed
    <2>1. /\ run' = run /\ ready' = ready /\ dbErrors' = dbErrors
          /\ \A v \in Workers : v # w => worker'[v] = worker[v]
      BY <1>11, <1>t DEF FailRun, MarkRunFailed, WorkerGivesUp
    <2>2. InFlight(d, n) => InFlight(d, n)'
      BY <1>11, <2>1 DEF InFlight, Holds
    <2> QED BY <2>1, <2>2, <1>2 DEF NoneLost, NotLost
  <1>5. CASE StartRunErrs(w) \/ FailRunErrs(w)
    BY <1>5, <1>t DEF StartRunErrs, FailRunErrs
  <1>9. CASE RefreshRun(w)
    <2>1. /\ run' = run /\ ready' = ready
          /\ dbErrors' = 0 => dbErrors = 0
          /\ worker[w].pc = "committed"
          /\ \A v \in Workers : v # w => worker'[v] = worker[v]
      BY <1>9, <1>t DEF RefreshRun, WorkerGoes, OnlyWorkerMoves, tables
    <2>2. InFlight(d, n) => InFlight(d, n)'
      BY <2>1 DEF InFlight, Holds, Executing
    <2> QED BY <2>1, <2>2, <1>2 DEF NoneLost, NotLost
  \* The task moves between the broker and the worker.
  <1>6. ASSUME NEW e \in Documents, NEW m \in Attempts, ReceiveTask(w, e, m)
        PROVE  InFlight(d, n)' \/ BeingQueued(d, n)' \/ CrashedProcess(d, n)'
    <2>1. /\ run' = run /\ dbErrors' = dbErrors /\ worker[w].pc = "idle"
          /\ worker'[w].pc = "received" /\ worker'[w].doc = e /\ worker'[w].attempt = m
          /\ worker'[w].readFailed = {}
          /\ \A v \in Workers : v # w => worker'[v] = worker[v]
          /\ e # d \/ m # n => ready'[d][n] = ready[d][n]
      BY <1>6, <1>t DEF ReceiveTask, tables
    <2>2. CASE e = d /\ m = n
      BY <2>1, <2>2 DEF InFlight, Holds, Executing
    <2>3. CASE e # d \/ m # n
      <3>1. InFlight(d, n) => InFlight(d, n)'
        BY <2>1, <2>3 DEF InFlight, Holds, Executing
      <3> QED BY <2>1, <3>1, <1>2 DEF NoneLost, NotLost
    <2> QED BY <2>2, <2>3
  <1>7. CASE WorkerLost(w) \/ TaskTimesOut(w)
    <2>1. /\ run' = run /\ dbErrors' = dbErrors /\ worker[w].pc # "idle"
          /\ \A v \in Workers : v # w => worker'[v] = worker[v]
          /\ WorkerLost(w) \/ worker' = worker
          /\ ready' = [ready EXCEPT ![worker[w].doc][worker[w].attempt] = @ + 1]
      BY <1>7, <1>t DEF WorkerLost, TaskTimesOut, CanRedeliver, tables
    <2>2. /\ worker[w].doc = d /\ worker[w].attempt = n => ready'[d][n] > 0
          /\ worker[w].doc # d \/ worker[w].attempt # n => ready'[d][n] = ready[d][n]
      BY <2>1, <1>t, <1>d
    <2>3. InFlight(d, n) => InFlight(d, n)'
      <3>1. CASE worker[w].doc = d /\ worker[w].attempt = n
        BY <2>2, <3>1 DEF InFlight
      <3>2. CASE worker[w].doc # d \/ worker[w].attempt # n
        BY <2>1, <2>2, <3>2 DEF InFlight, Holds
      <3> QED BY <3>1, <3>2
    <2> QED BY <2>1, <2>3, <1>2 DEF NoneLost, NotLost
  <1>8. CASE AckTask(w)
    <2>1. /\ run' = run /\ dbErrors' = dbErrors /\ ready' = ready
          /\ worker[w].pc = "acking"
          /\ \A v \in Workers : v # w => worker'[v] = worker[v]
      BY <1>8, <1>t DEF AckTask, OnlyWorkerMoves, tables
    <2>2. InFlight(d, n) => InFlight(d, n)'
      BY <2>1 DEF InFlight, Holds, Executing
    <2> QED BY <2>1, <2>2, <1>2 DEF NoneLost, NotLost
  <1> QED BY <1>3, <1>4, <1>5, <1>6, <1>7, <1>8, <1>9, <1>10, <1>11
      DEF TaskStep, FaultStep

LEMMA InitNoneLost == Init => NoneLost
  BY DEF Init, NoneLost, NotLost, ActiveStatus

LEMMA NextNoneLost ==
  TypeInv /\ StoreInv /\ FileInv /\ NoneLost /\ [Next]_vars => NoneLost'
  <1> SUFFICES ASSUME TypeInv, StoreInv, FileInv, NoneLost, [Next]_vars PROVE NoneLost'
    OBVIOUS
  <1>1. ASSUME NEW q \in Requests,
               UploadStep(q) \/ ProcessStep(q) \/ RemoveStep(q) \/ ApiCrash(q)
        PROVE  NoneLost'
    BY <1>1, RequestLosesNone
  <1>2. ASSUME NEW w \in Workers, TaskStep(w) \/ FaultStep(w) PROVE NoneLost'
    BY <1>2, WorkerLosesNone
  <1>3. CASE UNCHANGED vars
    BY <1>3 DEF vars, NoneLost, NotLost, InFlight, Holds, BeingQueued, CrashedProcess
  <1> QED BY <1>1, <1>2, <1>3 DEF Next, Rest

\* Late acknowledgement loses no run: while the database records every failure,
\* an active run has a task somewhere or an API process that died with it.
THEOREM SpecActiveRunIsNotLost == Spec => []ActiveRunIsNotLost
  <1>1. NoneLost => ActiveRunIsNotLost
    BY DEF NoneLost, NotLost, ActiveRunIsNotLost
  <1> QED BY <1>1, InitNoneLost, NextNoneLost, SpecTypeInv, SpecStoreInv, SpecFileInv, PTL
         DEF Spec

-----------------------------------------------------------------------------
(***************************************************************************)
(* The pipeline implements DocumentPublication. What a step does to the    *)
(* rows is one of six writes (RowWrite); each is a step of the abstract    *)
(* specification or is invisible to it.                                    *)
(***************************************************************************)

\* Request q answered that it removed d.
RemovedBy(q, d) ==
    request[q].kind = "remove" /\ request[q].doc = d /\ request[q].reply = "200"

present == {d \in Documents : Exists(d)}
removed == {d \in Documents : \E q \in Requests : RemovedBy(q, d)}
opened == [d \in Documents |-> {n \in Attempts : run[d][n] # "none"}]
shown == [d \in Documents |-> {n \in Attempts : run[d][n] = "completed"}]

Inserted(d) ==
    /\ d \notin removed
    /\ document' = [document EXCEPT ![d] = "uploaded"]
    /\ run' = run /\ pages' = pages

Opened(d, n) ==
    /\ Exists(d) /\ run[d][n] = "none" /\ IsNextAttempt(d, n)
    /\ run' = [run EXCEPT ![d][n] = "queued"]
    /\ document' = [document EXCEPT ![d] = "queued"]
    /\ pages' = pages

Started(d, n) ==
    /\ Exists(d) /\ run[d][n] \in {"queued", "running", "failed"}
    /\ run' = [run EXCEPT ![d][n] = "running"]
    /\ document' = [document EXCEPT ![d] = "processing"]
    /\ pages' = pages

Completed(d, n) ==
    /\ Exists(d) /\ run[d][n] # "none"
    /\ run' = [run EXCEPT ![d][n] = "completed"]
    /\ document' = [document EXCEPT ![d] = "processed"]
    /\ pages' = [pages EXCEPT ![d][n] = @ + 1]

\* Both rows, or one of them, or neither.
Failed(d, n) ==
    /\ Exists(d) /\ run[d][n] # "none"
    /\ run' \in {run, [run EXCEPT ![d][n] = "failed"]}
    /\ document' \in {document, [document EXCEPT ![d] = "failed"]}
    /\ pages' = pages

Deleted(d) ==
    /\ removed' = removed \union {d}
    /\ document' = [document EXCEPT ![d] = "absent"]
    /\ run' = [run EXCEPT ![d] = [n \in Attempts |-> "none"]]
    /\ pages' = [pages EXCEPT ![d] = [n \in Attempts |-> 0]]

RowWrite ==
    \/ \E d \in Documents : Deleted(d)
    \/ /\ removed' = removed
       /\ \/ UNCHANGED <<document, run, pages>>
          \/ \E d \in Documents : Inserted(d)
          \/ \E d \in Documents, n \in Attempts :
                Opened(d, n) \/ Started(d, n) \/ Completed(d, n) \/ Failed(d, n)

LEMMA MarkRunFailedWrites ==
  ASSUME TypeInv, StoreInv, NEW d \in Documents, NEW n \in Attempts,
         NEW readFailed \in SUBSET FailureRow, MarkRunFailed(d, n, readFailed),
         removed' = removed
  PROVE  RowWrite
  <1>1. CASE run[d][n] = "none"
    BY <1>1 DEF MarkRunFailed, RowWrite
  <1>2. CASE run[d][n] # "none"
    <2>1. Exists(d)
      BY <1>2 DEF StoreInv, NothingOutlivesDocument
    <2>2. Failed(d, n)
      BY <1>2, <2>1, MarkRunFailedFields DEF TypeInv, Failed
    <2> QED BY <2>2 DEF RowWrite
  <1> QED BY <1>1, <1>2

\* No step of a request but the deletion of the row makes a document removed.
LEMMA RequestKeepsRemoved ==
  ASSUME TypeInv, FileInv, NEW q \in Requests,
         UploadStep(q) \/ ProcessStep(q) \/ RemoveStep(q) \/ ApiCrash(q),
         ~DeleteDocument(q)
  PROVE  removed' = removed
  <1>1. request[q].pc # "done"
    BY DEF UploadStep, StoreUpload, StoreUploadFails, InsertDocument, InsertDocumentFails,
       RefreshDocument, RefreshDocumentFails, RemoveStoredUpload,
       ProcessStep, CheckProcess, LockDocument, CreateRun, EnqueueTask, EnqueueTaskFails,
       ReadUndoneRun, ReadUndoneDocument,
         UndoCreateRun, ProcessFails,
       RemoveStep, CheckRemove, DeleteObject, DeleteObjectFails, DeleteDocumentFails, ApiCrash
  <1>2. request[q].reply = "none"
    BY <1>1 DEF FileInv, AnsweredIsDone
  <1>3. request'[q].reply # "200" /\ \A r \in Requests : r # q => request'[r] = request[r]
    <2>0. request \in [Requests -> RequestRecord]
      BY DEF TypeInv, TypeOK
    <2>1. CASE UploadStep(q)
      BY <2>0, <2>1, <1>2 DEF UploadStep, StoreUpload, StoreUploadFails, InsertDocument,
         InsertDocumentFails, RefreshDocument, RefreshDocumentFails, RemoveStoredUpload,
         Begin, Refuse, RequestGoes, Respond, RequestRecord
    <2>2. CASE ProcessStep(q)
      <3>1. ASSUME NEW d \in Documents, CheckProcess(q, d) 
             PROVE  request'[q].reply # "200" /\ \A r \in Requests : r # q => request'[r] = request[r]
        BY <2>0, <3>1, <1>2 DEF CheckProcess, Begin, Refuse, RequestGoes, Respond, RequestRecord
      <3>2. CASE LockDocument(q) \/ CreateRun(q)
        BY <2>0, <3>2, <1>2 DEF LockDocument, CreateRun, Refuse, RequestGoes, Respond, RequestRecord
      <3>3. CASE EnqueueTask(q) \/ EnqueueTaskFails(q)
        BY <2>0, <3>3, <1>2 DEF EnqueueTask, EnqueueTaskFails, Refuse, RequestGoes, Respond,
           RequestRecord
      <3>4. CASE UndoCreateRun(q) \/ ReadUndoneRun(q) \/ ReadUndoneDocument(q)
                   \/ ProcessFails(q)
        BY <2>0, <3>4, <1>2 DEF ReadUndoneRun, ReadUndoneDocument,
         UndoCreateRun, ProcessFails, Refuse, RequestGoes, Respond,
           RequestRecord
      <3> QED BY <2>2, <3>1, <3>2, <3>3, <3>4 DEF ProcessStep
    <2>3. CASE RemoveStep(q) \/ ApiCrash(q)
      BY <2>0, <2>3, <1>2 DEF RemoveStep, CheckRemove, DeleteObject, DeleteObjectFails,
         DeleteDocumentFails, ApiCrash, Begin, Refuse, RequestGoes, Respond, RequestRecord
    <2> QED BY <2>1, <2>2, <2>3
  <1>4. \A r \in Requests, d \in Documents : RemovedBy(r, d)' <=> RemovedBy(r, d)
    BY <1>2, <1>3 DEF RemovedBy
  <1> QED BY <1>4 DEF removed

LEMMA DeletionRemoves ==
  ASSUME TypeInv, FileInv, NEW q \in Requests, DeleteDocument(q)
  PROVE  removed' = removed \union {request[q].doc}
  <1>1. PICK d \in Documents : request[q].doc = d
    BY DEF DeleteDocument, TypeInv, RequestsOK
  <1>2. request[q].kind = "remove"
    BY DEF DeleteDocument, TypeInv, RequestsOK
  <1>3. /\ request'[q].kind = "remove" /\ request'[q].doc = d
        /\ request'[q].reply = "200"
        /\ \A r \in Requests : r # q => request'[r] = request[r]
    BY <1>1, <1>2 DEF DeleteDocument, Respond, TypeInv, TypeOK, RequestRecord
  <1>4. \A e \in Documents \ {d}, r \in Requests : RemovedBy(r, e)' <=> RemovedBy(r, e)
    BY <1>1, <1>3 DEF RemovedBy
  <1>5. RemovedBy(q, d)'
    BY <1>3 DEF RemovedBy
  <1>6. removed' = removed \union {d}
    BY <1>4, <1>5 DEF removed
  <1> QED BY <1>1, <1>6

LEMMA RequestWrites ==
  ASSUME TypeInv, StoreInv, FileInv, NEW q \in Requests,
         UploadStep(q) \/ ProcessStep(q) \/ RemoveStep(q) \/ ApiCrash(q)
  PROVE  RowWrite
  <1>d. request[q].pc # "idle" => request[q].doc \in Documents
    BY DEF TypeInv, RequestsOK
  <1>a. request[q].pc \in {"locked", "undoMark"} => request[q].attempt \in Attempts
    BY DEF TypeInv, RequestsOK
  <1>k. ~DeleteDocument(q) => removed' = removed
    BY RequestKeepsRemoved
  <1>1. CASE UploadStep(q)
    <2>0. ~DeleteDocument(q)
      BY <1>1 DEF UploadStep, StoreUpload, StoreUploadFails, InsertDocument,
         InsertDocumentFails, RefreshDocument, RefreshDocumentFails, RemoveStoredUpload,
         DeleteDocument
    <2>1. CASE InsertDocument(q)
      <3>1. request[q].doc \in Documents /\ object[request[q].doc]
        BY <2>1, <1>d DEF InsertDocument, FileInv, FileOK, Alone
      <3>2. request[q].doc \notin removed
        BY <3>1 DEF FileInv, FileOK, Removed, removed, RemovedBy
      <3> QED BY <2>1, <3>1, <3>2, <1>k, <2>0 DEF InsertDocument, Inserted, RowWrite
    <2>2. CASE ~InsertDocument(q)
      BY <1>1, <1>k, <2>0, <2>2 DEF UploadStep, StoreUpload, StoreUploadFails, InsertDocumentFails,
         RefreshDocument, RefreshDocumentFails, RemoveStoredUpload, OnlyRequestMoves,
         tables, RowWrite
    <2> QED BY <2>1, <2>2
  <1>2. CASE ProcessStep(q)
    <2>0. ~DeleteDocument(q)
      BY <1>2 DEF ProcessStep, CheckProcess, LockDocument, CreateRun, EnqueueTask,
         EnqueueTaskFails, ReadUndoneRun, ReadUndoneDocument,
         UndoCreateRun, ProcessFails, DeleteDocument
    <2>1. CASE CreateRun(q)
      <3>1. /\ request[q].doc \in Documents /\ request[q].attempt \in Attempts
            /\ request[q].pc = "locked"
        BY <2>1, <1>d, <1>a DEF CreateRun
      <3>2. /\ Exists(request[q].doc)
            /\ IsNextAttempt(request[q].doc, request[q].attempt)
            /\ run[request[q].doc][request[q].attempt] = "none"
        BY <3>1, NextAttemptIsFree DEF StoreInv, LockedIsCurrent
      <3>3. Opened(request[q].doc, request[q].attempt)
        BY <2>1, <3>2 DEF CreateRun, Opened
      <3> QED BY <3>1, <3>3, <1>k, <2>0 DEF RowWrite
    <2>2. CASE UndoCreateRun(q)
      <3>1. request[q].readFailed \in SUBSET FailureRow
        BY DEF TypeInv, TypeOK, RequestRecord
      <3> QED BY <2>2, <2>0, <3>1, <1>k, <1>d, <1>a, MarkRunFailedWrites DEF UndoCreateRun
    <2>3. CASE ~CreateRun(q) /\ ~UndoCreateRun(q)
      BY <1>2, <2>3, <1>k, <2>0 DEF ProcessStep, CheckProcess, LockDocument, EnqueueTask,
         EnqueueTaskFails, ReadUndoneRun, ReadUndoneDocument, ProcessFails, OnlyRequestMoves, tables, RowWrite
    <2> QED BY <2>1, <2>2, <2>3
  <1>3. CASE RemoveStep(q) \/ ApiCrash(q)
    <2>1. CASE DeleteDocument(q)
      BY <2>1, <1>d, DeletionRemoves DEF DeleteDocument, Deleted, RowWrite
    <2>2. CASE ~DeleteDocument(q)
      BY <1>3, <2>2, <1>k DEF RemoveStep, CheckRemove, DeleteObject, DeleteObjectFails,
         DeleteDocumentFails, ApiCrash, OnlyRequestMoves, tables, RowWrite
    <2> QED BY <2>1, <2>2
  <1> QED BY <1>1, <1>2, <1>3

LEMMA WorkerWrites ==
  ASSUME TypeInv, StoreInv, NEW w \in Workers, TaskStep(w) \/ FaultStep(w)
  PROVE  RowWrite
  <1>d. worker[w].pc # "idle" =>
           worker[w].doc \in Documents /\ worker[w].attempt \in Attempts
    BY DEF TypeInv, WorkersOK
  <1>k. removed' = removed
    <2>1. request' = request
      BY DEF TaskStep, FaultStep, ReceiveTask, SkipRun, StartRun, StartRunErrs, Extract,
         ReplacePages, FlushPages, CompleteRun, RefreshRun, RefreshRunRaises, AttemptRaises,
         ExtractRaises, ReadFailedDocument, FailRun, FailRunErrs, AckTask, WorkerLost, TaskTimesOut, OnlyWorkerMoves
    <2> QED BY <2>1 DEF removed, RemovedBy
  <1>1. CASE StartRun(w)
    <2>1. /\ worker[w].doc \in Documents /\ worker[w].attempt \in Attempts
          /\ run[worker[w].doc][worker[w].attempt] # "none"
      BY <1>1, <1>d DEF StartRun
    <2>2. Exists(worker[w].doc)
      BY <2>1 DEF StoreInv, NothingOutlivesDocument
    <2>3. Started(worker[w].doc, worker[w].attempt)
      BY <1>1, <2>2 DEF StartRun, Started
    <2> QED BY <2>1, <2>3, <1>k DEF RowWrite
  <1>2. CASE CompleteRun(w)
    <2>1. /\ worker[w].doc \in Documents /\ worker[w].attempt \in Attempts
          /\ run[worker[w].doc][worker[w].attempt] # "none"
      BY <1>2, <1>d DEF CompleteRun, StoreInv, FlushedHasRun
    <2>2. Exists(worker[w].doc)
      BY <2>1 DEF StoreInv, NothingOutlivesDocument
    <2>3. Completed(worker[w].doc, worker[w].attempt)
      BY <1>2, <2>1, <2>2 DEF CompleteRun, Completed
    <2> QED BY <2>1, <2>3, <1>k DEF RowWrite
  <1>3. CASE FailRun(w)
    <2>1. worker[w].readFailed \in SUBSET FailureRow
      BY DEF TypeInv, TypeOK, WorkerRecord
    <2> QED BY <1>3, <2>1, <1>d, <1>k, MarkRunFailedWrites DEF FailRun
  <1>4. CASE ~StartRun(w) /\ ~CompleteRun(w) /\ ~FailRun(w)
    BY <1>4, <1>k DEF TaskStep, FaultStep, ReceiveTask, SkipRun, StartRunErrs, Extract,
       ReplacePages, FlushPages, RefreshRun, RefreshRunRaises, AttemptRaises, ExtractRaises,
         ReadFailedDocument, FailRunErrs, AckTask, WorkerLost,
       TaskTimesOut, OnlyWorkerMoves, tables, RowWrite
  <1> QED BY <1>1, <1>2, <1>3, <1>4

LEMMA NextWrites == TypeInv /\ StoreInv /\ FileInv /\ [Next]_vars => RowWrite
  <1>1. UNCHANGED vars => RowWrite
    BY DEF vars, RowWrite, tables, removed, RemovedBy
  <1> QED BY <1>1, RequestWrites, WorkerWrites DEF Next, Rest

-----------------------------------------------------------------------------

\* The entries a write leaves alone, and the one it sets.
LEMMA OtherRuns ==
  ASSUME TypeInv, NEW d \in Documents, NEW n \in Attempts, NEW s,
         run' = [run EXCEPT ![d][n] = s]
  PROVE  /\ run'[d][n] = s
         /\ \A e \in Documents, m \in Attempts : e # d \/ m # n => run'[e][m] = run[e][m]
  BY DEF TypeInv, TypeOK

LEMMA WriteIsStable ==
  ASSUME TypeInv, RowWrite, NEW d \in Documents, NEW n \in Attempts,
         run[d][n] = "completed"
  PROVE  \/ run'[d][n] \in {"completed", "failed"} /\ pages'[d][n] >= pages[d][n]
         \/ ~Exists(d)'
  <1>1. /\ document \in [Documents -> DocumentStatus \union {"absent"}]
        /\ run \in [Documents -> [Attempts -> RunStatus \union {"none"}]]
        /\ pages \in [Documents -> [Attempts -> Nat]]
    BY DEF TypeInv, TypeOK
  <1>2. pages[d][n] \in Nat /\ pages[d][n] >= pages[d][n]
    BY <1>1
  <1>3. CASE UNCHANGED <<document, run, pages>>
    BY <1>2, <1>3
  <1>4. ASSUME NEW e \in Documents, Inserted(e) \/ Deleted(e)
        PROVE  \/ run'[d][n] = "completed" /\ pages'[d][n] = pages[d][n]
               \/ ~Exists(d)'
    <2>1. CASE Inserted(e)
      BY <2>1 DEF Inserted
    <2>2. CASE Deleted(e)
      BY <2>2, <1>1 DEF Deleted, Exists
    <2> QED BY <1>4, <2>1, <2>2
  <1>5. ASSUME NEW e \in Documents, NEW m \in Attempts,
               Opened(e, m) \/ Started(e, m) \/ Completed(e, m) \/ Failed(e, m)
        PROVE  run'[d][n] \in {"completed", "failed"} /\ pages'[d][n] >= pages[d][n]
    <2>1. CASE Opened(e, m) \/ Started(e, m)
      <3>1. d # e \/ n # m
        BY <2>1 DEF Opened, Started
      <3> QED BY <2>1, <3>1, <1>2, OtherRuns DEF Opened, Started
    <2>2. CASE Failed(e, m)
      BY <2>2, <1>2, OtherRuns DEF Failed
    <2>3. CASE Completed(e, m)
      <3>1. run'[d][n] = "completed"
        BY <2>3, OtherRuns DEF Completed
      <3>2. pages'[d][n] >= pages[d][n]
        BY <2>3, <1>1 DEF Completed
      <3> QED BY <3>1, <3>2
    <2> QED BY <1>5, <2>1, <2>2, <2>3
  <1> QED BY <1>2, <1>3, <1>4, <1>5 DEF RowWrite

\* What search reads of a completed run is replaced, withdrawn or removed, but
\* never edited in place, and a completed run is never run again.
THEOREM SpecCompletedRunIsStable == Spec => CompletedRunIsStable
  <1>1. TypeInv /\ StoreInv /\ FileInv /\ [Next]_vars =>
          [\A d \in Documents, n \in Attempts :
              run[d][n] = "completed" =>
                 \/ run'[d][n] \in {"completed", "failed"} /\ pages'[d][n] >= pages[d][n]
                 \/ ~Exists(d)']_vars
    BY NextWrites, WriteIsStable
  <1> QED BY <1>1, SpecTypeInv, SpecStoreInv, SpecFileInv, PTL DEF Spec, CompletedRunIsStable

-----------------------------------------------------------------------------

LEMMA InitPublication == Init => Publication!Init
  BY DEF Init, Publication!Init, Exists, NewRequest

\* A write of status s to run n of d, in the abstract view.
LEMMA WriteInView ==
  ASSUME TypeInv, NEW d \in Documents, NEW n \in Attempts,
         NEW s \in RunStatus, NEW t \in DocumentStatus,
         Exists(d), run' = [run EXCEPT ![d][n] = s],
         document' \in {document, [document EXCEPT ![d] = t]}
  PROVE  /\ present' = present
         /\ opened' = [opened EXCEPT ![d] = @ \union {n}]
         /\ s = "completed" => shown' = [shown EXCEPT ![d] = @ \union {n}]
         /\ s # "completed" => shown' = [shown EXCEPT ![d] = @ \ {n}]
  <1>1. /\ run'[d][n] = s
        /\ \A e \in Documents, m \in Attempts : e # d \/ m # n => run'[e][m] = run[e][m]
    BY DEF TypeInv, TypeOK
  <1>2. document \in [Documents -> DocumentStatus \union {"absent"}]
    BY DEF TypeInv, TypeOK
  <1>3. present' = present
    BY <1>2 DEF Exists, present, DocumentStatus
  <1>4. opened' = [opened EXCEPT ![d] = @ \union {n}]
    <2>1. \A e \in Documents \ {d} : opened'[e] = opened[e]
      BY <1>1 DEF opened
    <2>2. opened'[d] = opened[d] \union {n}
      BY <1>1 DEF opened, RunStatus
    <2> QED BY <2>1, <2>2 DEF opened
  <1>5. s = "completed" => shown' = [shown EXCEPT ![d] = @ \union {n}]
    <2>1. \A e \in Documents \ {d} : shown'[e] = shown[e]
      BY <1>1 DEF shown
    <2>2. s = "completed" => shown'[d] = shown[d] \union {n}
      BY <1>1 DEF shown
    <2> QED BY <2>1, <2>2 DEF shown
  <1>6. s # "completed" => shown' = [shown EXCEPT ![d] = @ \ {n}]
    <2>1. \A e \in Documents \ {d} : shown'[e] = shown[e]
      BY <1>1 DEF shown
    <2>2. s # "completed" => shown'[d] = shown[d] \ {n}
      BY <1>1 DEF shown
    <2> QED BY <2>1, <2>2 DEF shown
  <1> QED BY <1>3, <1>4, <1>5, <1>6

LEMMA WritePublishes ==
  ASSUME TypeInv, RowWrite
  PROVE  [Publication!Next]_(Publication!pubVars)
  <1>1. /\ document \in [Documents -> DocumentStatus \union {"absent"}]
        /\ run \in [Documents -> [Attempts -> RunStatus \union {"none"}]]
        /\ pages \in [Documents -> [Attempts -> Nat]]
    BY DEF TypeInv, TypeOK
  <1>2. CASE removed' = removed /\ UNCHANGED <<document, run, pages>>
    BY <1>2 DEF Publication!pubVars, Exists, removed, RemovedBy
  <1>3. ASSUME NEW d \in Documents, removed' = removed, Inserted(d)
        PROVE  Publication!Upload(d)
    <2>1. present' = present \union {d}
      BY <1>1, <1>3 DEF Inserted, Exists, present
    <2> QED BY <1>3, <2>1 DEF Inserted, Publication!Upload, present, removed, RemovedBy
  <1>4. ASSUME NEW d \in Documents, Deleted(d) PROVE Publication!Remove(d)
    <2>1. present' = present \ {d}
      BY <1>1, <1>4 DEF Deleted, Exists, present
    <2>2. opened' = [opened EXCEPT ![d] = {}]
      BY <1>1, <1>4 DEF Deleted, opened
    <2>3. shown' = [shown EXCEPT ![d] = {}]
      BY <1>1, <1>4 DEF Deleted, shown
    <2> QED BY <1>4, <2>1, <2>2, <2>3 DEF Deleted, Publication!Remove, present, opened, shown, removed, RemovedBy
  <1>5. ASSUME NEW d \in Documents, NEW n \in Attempts, removed' = removed, Opened(d, n)
        PROVE  Publication!Open(d, n)
    <2>1. /\ present' = present
          /\ opened' = [opened EXCEPT ![d] = @ \union {n}]
          /\ shown' = [shown EXCEPT ![d] = @ \ {n}]
      BY WriteInView, <1>5 DEF Opened, DocumentStatus, RunStatus
    <2>2. shown' = shown
      BY <1>5, <2>1 DEF Opened, shown
    <2>3. d \in present /\ n \notin opened[d]
      BY <1>5 DEF Opened, present, opened
    <2>4. \A m \in opened[d] : m < n
      BY <1>5, AttemptsAreNat DEF Opened, IsNextAttempt, opened
    <2>5. n > 1 => n - 1 \in opened[d]
      BY <1>5, BoundsAssumption DEF Opened, IsNextAttempt, opened, Attempts
    <2> QED BY <1>5, <2>1, <2>2, <2>3, <2>4, <2>5
           DEF Opened, Publication!Open, present, opened, shown, removed, RemovedBy
  <1>6. ASSUME NEW d \in Documents, NEW n \in Attempts, removed' = removed, Started(d, n)
        PROVE  UNCHANGED Publication!pubVars
    <2>1. /\ present' = present
          /\ opened' = [opened EXCEPT ![d] = @ \union {n}]
          /\ shown' = [shown EXCEPT ![d] = @ \ {n}]
      BY WriteInView, <1>6 DEF Started, DocumentStatus, RunStatus
    <2>2. opened' = opened /\ shown' = shown
      BY <1>6, <2>1 DEF Started, opened, shown
    <2> QED BY <1>6, <2>1, <2>2 DEF Started, Publication!pubVars, present, opened, shown, removed, RemovedBy
  <1>7. ASSUME NEW d \in Documents, NEW n \in Attempts, removed' = removed, Completed(d, n)
        PROVE  Publication!Publish(d, n)
    <2>1. /\ present' = present
          /\ opened' = [opened EXCEPT ![d] = @ \union {n}]
          /\ shown' = [shown EXCEPT ![d] = @ \union {n}]
      BY WriteInView, <1>7 DEF Completed, DocumentStatus, RunStatus
    <2>2. opened' = opened /\ d \in present /\ n \in opened[d]
      BY <1>7, <2>1 DEF Completed, opened, present
    <2> QED BY <1>7, <2>1, <2>2 DEF Completed, Publication!Publish, present, opened, shown, removed, RemovedBy
  <1>8. ASSUME NEW d \in Documents, NEW n \in Attempts, removed' = removed, Failed(d, n)
        PROVE  Publication!Withdraw(d, n) \/ UNCHANGED Publication!pubVars
    <2>1. CASE run' = run
      <3>1. present' = present
        BY <1>1, <1>8 DEF Failed, Exists, present
      <3> QED BY <1>8, <2>1, <3>1 DEF Failed, Publication!pubVars, present, opened, shown, removed, RemovedBy
    <2>2. CASE run' = [run EXCEPT ![d][n] = "failed"]
      <3>1. /\ present' = present
            /\ opened' = [opened EXCEPT ![d] = @ \union {n}]
            /\ shown' = [shown EXCEPT ![d] = @ \ {n}]
        BY WriteInView, <1>8, <2>2 DEF Failed, DocumentStatus, RunStatus
      <3>2. n \in opened[d]
        BY <1>8 DEF Failed, opened
      <3>3. opened' = opened
        BY <3>1, <3>2 DEF opened
      <3> QED BY <1>8, <3>1, <3>3
             DEF Failed, Publication!Withdraw, present, opened, shown, removed, RemovedBy
    <2> QED BY <1>8, <2>1, <2>2 DEF Failed
  <1> QED BY <1>2, <1>3, <1>4, <1>5, <1>6, <1>7, <1>8 DEF RowWrite, Publication!Next

\* Readers see attempts opened in order and whole results appear, be replaced,
\* be withdrawn or removed in single steps, and nothing else.
THEOREM SpecImplementsPublication == Spec => ImplementsPublication
  <1>1. TypeInv /\ StoreInv /\ FileInv /\ [Next]_vars => [Publication!Next]_(Publication!pubVars)
    BY NextWrites, WritePublishes
  <1> QED BY <1>1, InitPublication, SpecTypeInv, SpecStoreInv, SpecFileInv, PTL
         DEF Spec, ImplementsPublication, Publication!Spec

=============================================================================
