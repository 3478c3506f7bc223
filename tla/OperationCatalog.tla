-------------------------- MODULE OperationCatalog --------------------------
(* The catalog of API operations of one project: requests that ingest a     *)
(* requirement document or import contracts, and the API flow that reads    *)
(* the catalog (requirements/operation_store.py, requirements/service.py,   *)
(* api/routes/documents.py, api/routes/operations.py).  The catalog is one  *)
(* file that every request reads, merges into and replaces; the lock of     *)
(* OperationStore belongs to the instance and each request makes its own,   *)
(* so that the reads and the writes of two requests interleave.             *)
EXTENDS Naturals, Sequences, FiniteSets

CONSTANTS
  Requests,     \* the threads of the pool that serves the routes
  Documents,    \* documents, each standing for one content (its id is a hash)
  Ids, Keys,    \* operation ids, and pairs of a method and a path
  OpsOf,        \* the operations discovered in a document, in their order
  Malformed,    \* documents whose contract or discovered path is not valid
  Imports,      \* the batches of operations that can be imported
  NoDoc,        \* source_document_id of an imported operation
  NoEntry,      \* an id the catalog does not hold
  MaxStarts,    \* bound on the requests served
  MaxSessions   \* bound on the runs of the backend

Operation == [id: Ids, key: Keys]

(* The operations of one document differ in id and in method and path       *)
(* (used_ids and seen of ApiDiscoveryService); those of one import in id.   *)
ASSUME CatalogAssumption ==
  /\ NoDoc \notin Documents
  /\ Malformed \subseteq Documents
  /\ OpsOf \in [Documents -> Seq(Operation)]
  /\ \A d \in Documents : \A m, n \in DOMAIN OpsOf[d] :
       m # n => OpsOf[d][m].id # OpsOf[d][n].id /\ OpsOf[d][m].key # OpsOf[d][n].key
  /\ Imports \subseteq Seq(Operation)
  /\ \A s \in Imports : \A m, n \in DOMAIN s : m # n => s[m].id # s[n].id
  /\ MaxStarts \in Nat /\ MaxSessions \in Nat

(* The suffix an id gets when another document holds it is the hash of the  *)
(* document: the id with its suffix is the pair of the two.                 *)
CatalogIds == [base: Ids, variant: Documents \cup {NoDoc}]
Entry == [doc: Documents \cup {NoDoc}, key: Keys, sess: Nat]
Catalogs == [CatalogIds -> Entry \cup {NoEntry}]

ASSUME NoEntryAssumption == NoEntry \notin Entry

Job == [kind: {"ingest", "import_text", "discover"}, doc: Documents \cup {NoDoc},
        ops: Seq(Operation)]

VARIABLES
  docs,      \* session in which each document was stored last, 0 if never
  cat,       \* operations.json
  session,   \* runtime_session_id
  starts,    \* requests served so far
  pc, job,   \* where each request is and what it does
  base,      \* the catalog a request read (a history of it)
  mine,      \* the dictionary it merges into
  pos,       \* the operation it merges next
  answer,    \* what it answers: ids and entries
  raced,     \* history: a request replaced a catalog it had not read
  displaced, \* history: an import took the place of another operation
  flow,      \* the API flow of this session
  frozen     \* ids that have frozen cases in this session

reqVars == <<starts, pc, job, base, mine, pos, answer>>
flowVars == <<flow, frozen>>
vars == <<docs, cat, session, raced, displaced, reqVars, flowVars>>

Empty == [i \in CatalogIds |-> NoEntry]
NoJob == [kind |-> "ingest", doc |-> NoDoc, ops |-> <<>>]
NoFlow == [stage |-> "none", doc |-> NoDoc, id |-> [base |-> NoDoc, variant |-> NoDoc],
           read |-> {}]
Flow == [stage: {"selected", "analysed", "designed", "failed"}, doc: Documents, id: CatalogIds,
         read: SUBSET Entry]

Init ==
  /\ docs = [d \in Documents |-> 0]
  /\ cat = Empty
  /\ session = 1
  /\ starts = 0
  /\ pc = [r \in Requests |-> "idle"]
  /\ job = [r \in Requests |-> NoJob]
  /\ base = [r \in Requests |-> Empty]
  /\ mine = [r \in Requests |-> Empty]
  /\ pos = [r \in Requests |-> 1]
  /\ answer = [r \in Requests |-> {}]
  /\ raced = FALSE
  /\ displaced = FALSE
  /\ flow = NoFlow
  /\ frozen = {}

-----------------------------------------------------------------------------
(* Requests.                                                                *)

Begins(r, j, at) ==
  /\ pc[r] = "idle"
  /\ starts < MaxStarts
  /\ starts' = starts + 1
  /\ job' = [job EXCEPT ![r] = j]
  /\ pc' = [pc EXCEPT ![r] = at]
  /\ answer' = [answer EXCEPT ![r] = {}]
  /\ UNCHANGED <<cat, session, base, mine, pos, raced, displaced, flowVars>>

(* The document is stored first; when its contract does not load, or a path *)
(* found in it is not one OperationContract takes, the request fails then.  *)
Ingest(r, d) ==
  /\ Begins(r, [kind |-> "ingest", doc |-> d, ops |-> OpsOf[d]],
            IF d \in Malformed THEN "failed" ELSE "read")
  /\ docs' = [docs EXCEPT ![d] = session]

Import(r, s, kind) ==
  /\ Begins(r, [kind |-> kind, doc |-> NoDoc, ops |-> s], "read")
  /\ UNCHANGED docs

Goes(r, to) == pc' = [pc EXCEPT ![r] = to]

(* Mutant of Kept: the entries of every other session are left out as well. *)
KeptOfSession(j) ==
  [i \in CatalogIds |->
     IF cat[i] # NoEntry /\ (cat[i].sess # session \/ (j.kind = "ingest" /\ cat[i].doc = j.doc))
     THEN NoEntry ELSE cat[i]]

(* save_requirement_document_operations leaves out what the document had;   *)
(* save_many takes the whole catalog.                                       *)
Kept(j) ==
  [i \in CatalogIds |->
     IF j.kind = "ingest" /\ cat[i] # NoEntry /\ cat[i].doc = j.doc THEN NoEntry ELSE cat[i]]

Read(r) ==
  /\ pc[r] = "read"
  /\ base' = [base EXCEPT ![r] = cat]
  /\ mine' = [mine EXCEPT ![r] = Kept(job[r])]
  /\ pos' = [pos EXCEPT ![r] = 1]
  /\ Goes(r, "merge")
  /\ UNCHANGED <<docs, cat, session, starts, job, answer, raced, displaced, flowVars>>

IdFor(c, j, op) ==
  LET plain == [base |-> op.id, variant |-> NoDoc]
  IN  IF j.kind = "ingest" /\ c[plain] # NoEntry /\ c[plain].doc # j.doc
      THEN [base |-> op.id, variant |-> j.doc]
      ELSE plain

(* Mutant of Superseded: entries of the same method and path stay.          *)
SupersededNone(c, j, op, i) == FALSE

Superseded(c, j, op, i) ==
  /\ c[i] # NoEntry
  /\ i # IdFor(c, j, op)
  /\ c[i].key = op.key
  /\ j.kind # "ingest" \/ c[i].doc = j.doc

EntryOf(j, op) == [doc |-> j.doc, key |-> op.key, sess |-> session]

Merged(c, j, op) ==
  [i \in CatalogIds |->
     IF i = IdFor(c, j, op) THEN EntryOf(j, op)
     ELSE IF Superseded(c, j, op, i) THEN NoEntry
     ELSE c[i]]

Merge(r) ==
  /\ pc[r] = "merge"
  /\ pos[r] \in DOMAIN job[r].ops
  /\ mine' = [mine EXCEPT ![r] = Merged(mine[r], job[r], job[r].ops[pos[r]])]
  /\ pos' = [pos EXCEPT ![r] = @ + 1]
  /\ UNCHANGED <<docs, cat, session, starts, pc, job, base, answer, raced, displaced, flowVars>>

Visible(c) == {[id |-> i, entry |-> c[i]] :
                 i \in {k \in CatalogIds : c[k] # NoEntry /\ c[k].sess = session}}

(* import_text answers with the operations it was given, not the catalog.   *)
Given(s) == {[id |-> [base |-> s[n].id, variant |-> NoDoc],
              entry |-> [doc |-> NoDoc, key |-> s[n].key, sess |-> session]] : n \in DOMAIN s}

(* An entry is removed, or its id goes to an operation of another origin.   *)
Displaces(old, new) ==
  \E i \in CatalogIds : old[i] # NoEntry /\ (new[i] = NoEntry \/ new[i].doc # old[i].doc)

(* The file is replaced as a whole.  discover lists the catalog afterwards, *)
(* the other two answer from what they hold.                                *)
Write(r) ==
  /\ pc[r] = "merge"
  /\ pos[r] \notin DOMAIN job[r].ops
  /\ cat' = mine[r]
  /\ raced' = (raced \/ cat # base[r])
  /\ displaced' = (displaced \/ (job[r].kind # "ingest" /\ Displaces(cat, mine[r])))
  /\ answer' = [answer EXCEPT ![r] =
       IF job[r].kind = "ingest" THEN Visible(mine[r]) ELSE Given(job[r].ops)]
  /\ Goes(r, IF job[r].kind = "discover" THEN "list" ELSE "done")
  /\ UNCHANGED <<docs, session, starts, job, base, mine, pos, flowVars>>

(* The temporary file cannot be written: the catalog stays as it is.        *)
NotWritten(r) ==
  /\ pc[r] = "merge"
  /\ pos[r] \notin DOMAIN job[r].ops
  /\ Goes(r, "failed")
  /\ UNCHANGED <<docs, cat, session, starts, job, base, mine, pos, answer, raced, displaced, flowVars>>

List(r) ==
  /\ pc[r] = "list"
  /\ answer' = [answer EXCEPT ![r] = Visible(cat)]
  /\ Goes(r, "done")
  /\ UNCHANGED <<docs, cat, session, starts, job, base, mine, pos, raced, displaced, flowVars>>

Respond(r) ==
  /\ pc[r] \in {"done", "failed"}
  /\ pc' = [pc EXCEPT ![r] = "idle"]
  /\ job' = [job EXCEPT ![r] = NoJob]
  /\ base' = [base EXCEPT ![r] = Empty]
  /\ mine' = [mine EXCEPT ![r] = Empty]
  /\ pos' = [pos EXCEPT ![r] = 1]
  /\ answer' = [answer EXCEPT ![r] = {}]
  /\ UNCHANGED <<docs, cat, session, starts, raced, displaced, flowVars>>

(* A new process has a new session; requests in flight are gone.            *)
Restart ==
  /\ session < MaxSessions
  /\ session' = session + 1
  /\ pc' = [r \in Requests |-> "idle"]
  /\ job' = [r \in Requests |-> NoJob]
  /\ base' = [r \in Requests |-> Empty]
  /\ mine' = [r \in Requests |-> Empty]
  /\ pos' = [r \in Requests |-> 1]
  /\ answer' = [r \in Requests |-> {}]
  /\ flow' = NoFlow
  /\ frozen' = {}
  /\ UNCHANGED <<docs, cat, starts, raced, displaced>>

-----------------------------------------------------------------------------
(* The API flow, as far as it depends on the catalog.                       *)

(* create: the operation is one of this session, has no frozen cases yet,   *)
(* and is an imported one or one of the document.                           *)
(* Mutant of MaySelect: the document of the operation is not compared.      *)
MaySelectAny(d, i) ==
  docs[d] # 0 /\ cat[i] # NoEntry /\ cat[i].sess = session /\ i \notin frozen

MaySelect(d, i) ==
  /\ docs[d] # 0
  /\ cat[i] # NoEntry
  /\ cat[i].sess = session
  /\ i \notin frozen
  /\ cat[i].doc \in {NoDoc, d}

Select(d, i) ==
  /\ flow.stage = "none"
  /\ MaySelect(d, i)
  /\ flow' = [stage |-> "selected", doc |-> d, id |-> i, read |-> {}]
  /\ UNCHANGED <<docs, cat, session, raced, displaced, reqVars, frozen>>

(* The Requirement graph and the design each look the id up again, in the   *)
(* entries of every session.                                                *)
LooksUp(from, to) ==
  /\ flow.stage = from
  /\ flow' = IF cat[flow.id] = NoEntry THEN [flow EXCEPT !.stage = "failed"]
             ELSE [flow EXCEPT !.stage = to, !.read = @ \cup {cat[flow.id]}]
  /\ UNCHANGED <<docs, cat, session, raced, displaced, reqVars, frozen>>

Analyse == LooksUp("selected", "analysed")
Design == LooksUp("analysed", "designed")

Freeze ==
  /\ flow.stage = "designed"
  /\ frozen' = frozen \cup {flow.id}
  /\ flow' = NoFlow
  /\ UNCHANGED <<docs, cat, session, raced, displaced, reqVars>>

(* A flow that failed is retried from the Requirement or, when there is one, *)
(* from the design with the Requirement it has; or it is skipped.           *)
Retry ==
  /\ flow.stage = "failed"
  /\ \/ flow' = [flow EXCEPT !.stage = "selected", !.read = {}]
     \/ flow.read # {} /\ flow' = [flow EXCEPT !.stage = "analysed"]
  /\ UNCHANGED <<docs, cat, session, raced, displaced, reqVars, frozen>>

Skip ==
  /\ flow.stage \in {"selected", "analysed", "designed", "failed"}
  /\ flow' = NoFlow
  /\ UNCHANGED <<docs, cat, session, raced, displaced, reqVars, frozen>>

-----------------------------------------------------------------------------
Serve(r) == Read(r) \/ Merge(r) \/ Write(r) \/ List(r) \/ Respond(r)

Next ==
  \/ \E r \in Requests : \/ \E d \in Documents : Ingest(r, d)
                         \/ \E s \in Imports, k \in {"import_text", "discover"} : Import(r, s, k)
                         \/ Serve(r)
                         \/ NotWritten(r)
  \/ Restart
  \/ \E d \in Documents, i \in CatalogIds : Select(d, i)
  \/ Analyse \/ Design \/ Freeze \/ Retry \/ Skip

Spec == Init /\ [][Next]_vars

-----------------------------------------------------------------------------
(* Type invariant.                                                          *)
TypeOK ==
  /\ docs \in [Documents -> Nat]
  /\ cat \in Catalogs
  /\ session \in Nat
  /\ starts \in Nat
  /\ pc \in [Requests -> {"idle", "read", "merge", "list", "done", "failed"}]
  /\ job \in [Requests -> Job]
  /\ base \in [Requests -> Catalogs]
  /\ mine \in [Requests -> Catalogs]
  /\ pos \in [Requests -> Nat]
  /\ answer \in [Requests -> SUBSET [id: CatalogIds, entry: Entry]]
  /\ raced \in BOOLEAN /\ displaced \in BOOLEAN
  /\ flow \in {NoFlow} \cup Flow
  /\ frozen \subseteq CatalogIds

OnePerDocumentAndKey(c) ==
  \A i, k \in CatalogIds :
    c[i] # NoEntry /\ c[k] # NoEntry /\ c[i].doc = c[k].doc /\ c[i].key = c[k].key => i = k

VariantsBelong(c) ==
  \A i \in CatalogIds : c[i] # NoEntry /\ i.variant # NoDoc => c[i].doc = i.variant

(* The catalog never holds two entries of one document for one method and   *)
(* path (an operation would be offered twice, and one of its frozen cases   *)
(* would not stop the other), and an id with a document's suffix is that    *)
(* document's, whatever ingests, imports, lost updates and restarts there   *)
(* were.                                                                    *)
OneEntryPerOperation == OnePerDocumentAndKey(cat) /\ VariantsBelong(cat)

(* An entry goes out of the catalog, or changes, only when its own document *)
(* is ingested, when an import brings its id or its method and path, or     *)
(* when the request that writes had not read it: "Replace one document's    *)
(* index while retaining every other document", relative to what was read.  *)
Explained(r, i) ==
  \/ job[r].kind = "ingest" /\ cat[i].doc = job[r].doc
  \/ /\ job[r].kind # "ingest"
     /\ \E n \in DOMAIN job[r].ops :
          \/ i = [base |-> job[r].ops[n].id, variant |-> NoDoc]
          \/ cat[i].key = job[r].ops[n].key
  \/ base[r][i] # cat[i]

NothingVanishes ==
  [][\A i \in CatalogIds :
       cat[i] # NoEntry /\ cat'[i] # cat[i] =>
         \E r \in Requests : pc[r] = "merge" /\ pc'[r] # "merge" /\ Explained(r, i)]_vars

(* As long as no request replaced a catalog it had not read and no import   *)
(* took the place of another operation, a flow of a document is             *)
(* analysed and designed from that document's operation or from an imported *)
(* one, never from the operation of another document that came to have its  *)
(* id: only create compares the two documents.                              *)
FlowReadsItsDocument ==
  ~raced /\ ~displaced => \A e \in flow.read : e.doc \in {NoDoc, flow.doc}
=============================================================================
