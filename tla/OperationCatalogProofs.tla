----------------------- MODULE OperationCatalogProofs -----------------------
(* Theorems about OperationCatalog for any documents, imports and number of *)
(* requests.  Nothing is assumed of how requests interleave: each one keeps *)
(* a dictionary of its own, and what holds of it holds of the file.         *)
EXTENDS OperationCatalog, TLAPS

-----------------------------------------------------------------------------
(* The inductive invariant, part by part.                                   *)

\* A catalog, and a dictionary, list an operation of a document once.
CatalogOK(c) == OnePerDocumentAndKey(c) /\ VariantsBelong(c)

\* A request in progress ingests a document or imports operations of none.
JobOK(j) ==
  /\ j \in Job
  /\ j.kind = "ingest" => j.doc \in Documents
  /\ j.kind # "ingest" => j.doc = NoDoc

\* What the job may take out of the catalog it read.
Accounted(old, j, i) ==
  \/ j.kind = "ingest" /\ old[i].doc = j.doc
  \/ /\ j.kind # "ingest"
     /\ \E n \in DOMAIN j.ops :
          \/ i = [base |-> j.ops[n].id, variant |-> NoDoc]
          \/ old[i].key = j.ops[n].key

Follows(old, new, j) ==
  \A i \in CatalogIds : old[i] # NoEntry /\ new[i] # old[i] => Accounted(old, j, i)

Working(r) ==
  /\ pc[r] # "idle" => JobOK(job[r])
  /\ CatalogOK(mine[r])
  /\ VariantsBelong(base[r])
  /\ pc[r] = "merge" => Follows(base[r], mine[r], job[r])

IInv == TypeOK /\ CatalogOK(cat) /\ \A r \in Requests : Working(r)

-----------------------------------------------------------------------------
(* The operators of the merge.                                              *)

LEMMA EmptyOK == Empty \in Catalogs /\ CatalogOK(Empty)
  BY DEF Empty, Catalogs, CatalogOK, OnePerDocumentAndKey, VariantsBelong

LEMMA NoJobType == NoJob \in Job
  BY DEF NoJob, Job

\* Leaving out the entries of one document leaves a catalog, and takes away
\* only what that document had.
LEMMA KeptOK ==
  ASSUME NEW j, JobOK(j), cat \in Catalogs, CatalogOK(cat)
  PROVE  Kept(j) \in Catalogs /\ CatalogOK(Kept(j)) /\ Follows(cat, Kept(j), j)
<1>1. Kept(j) \in Catalogs
  BY DEF Kept, Catalogs
<1>2. \A i \in CatalogIds : Kept(j)[i] # NoEntry => Kept(j)[i] = cat[i] /\ cat[i] # NoEntry
  BY DEF Kept
<1>3. CatalogOK(Kept(j))
  BY <1>2 DEF CatalogOK, OnePerDocumentAndKey, VariantsBelong
<1>4. Follows(cat, Kept(j), j)
  BY DEF Follows, Accounted, Kept
<1> QED BY <1>1, <1>3, <1>4

\* The id an operation gets, and the document of what is stored under it.
LEMMA IdForType ==
  ASSUME NEW c \in Catalogs, NEW j, JobOK(j), NEW op \in Operation
  PROVE  /\ IdFor(c, j, op) \in CatalogIds
         /\ IdFor(c, j, op).variant # NoDoc => IdFor(c, j, op).variant = j.doc
<1>1. [base |-> op.id, variant |-> NoDoc] \in CatalogIds
  BY DEF CatalogIds, Operation
<1>2. ASSUME j.kind = "ingest" PROVE [base |-> op.id, variant |-> j.doc] \in CatalogIds
  BY <1>2 DEF CatalogIds, Operation, JobOK
<1> QED BY <1>1, <1>2 DEF IdFor

LEMMA EntryOfType ==
  ASSUME NEW j, JobOK(j), NEW op \in Operation, session \in Nat
  PROVE  /\ EntryOf(j, op) \in Entry /\ EntryOf(j, op) # NoEntry
         /\ EntryOf(j, op).doc = j.doc /\ EntryOf(j, op).key = op.key
<1>1. EntryOf(j, op) \in Entry
  BY DEF EntryOf, Entry, JobOK, Job, Operation
<1> QED BY <1>1, NoEntryAssumption DEF NoEntryAssumption, EntryOf

\* Merging an operation: what is at each id afterwards.
LEMMA MergedAt ==
  ASSUME NEW c \in Catalogs, NEW j, NEW op, NEW i \in CatalogIds
  PROVE  Merged(c, j, op)[i] =
           IF i = IdFor(c, j, op) THEN EntryOf(j, op)
           ELSE IF Superseded(c, j, op, i) THEN NoEntry ELSE c[i]
  BY DEF Merged

\* The merge keeps a catalog a catalog: the entry of the same document, method
\* and path goes, and an id with a suffix belongs to the document merged.
LEMMA MergedOK ==
  ASSUME NEW c \in Catalogs, CatalogOK(c), NEW j, JobOK(j), NEW op \in Operation,
         session \in Nat
  PROVE  Merged(c, j, op) \in Catalogs /\ CatalogOK(Merged(c, j, op))
<1> DEFINE id == IdFor(c, j, op)
           e == EntryOf(j, op)
           m == Merged(c, j, op)
<1>1. id \in CatalogIds /\ (id.variant # NoDoc => id.variant = j.doc)
  BY IdForType
<1>2. e \in Entry /\ e # NoEntry /\ e.doc = j.doc /\ e.key = op.key
  BY EntryOfType
<1>3. \A i \in CatalogIds : m[i] = IF i = id THEN e
                                   ELSE IF Superseded(c, j, op, i) THEN NoEntry ELSE c[i]
  BY MergedAt
<1>4. m \in Catalogs
  <2>1. m = [i \in CatalogIds |-> m[i]]
    BY DEF Merged
  <2>2. \A i \in CatalogIds : m[i] \in Entry \cup {NoEntry}
    BY <1>2, <1>3 DEF Catalogs
  <2> HIDE DEF m
  <2> QED BY <2>1, <2>2 DEF Catalogs
<1>5. \A i \in CatalogIds : i # id /\ m[i] # NoEntry => m[i] = c[i] /\ ~Superseded(c, j, op, i)
  BY <1>3
<1>6. \A i \in CatalogIds : i # id /\ m[i] # NoEntry => ~(m[i].doc = j.doc /\ m[i].key = op.key)
  BY <1>5 DEF Superseded
<1>7. OnePerDocumentAndKey(m)
  <2> SUFFICES ASSUME NEW i \in CatalogIds, NEW k \in CatalogIds, m[i] # NoEntry, m[k] # NoEntry,
                      m[i].doc = m[k].doc, m[i].key = m[k].key
               PROVE  i = k
    BY DEF OnePerDocumentAndKey
  <2> HIDE DEF m, id, e
  <2>1. CASE i # id /\ k # id
    BY <2>1, <1>5 DEF CatalogOK, OnePerDocumentAndKey
  <2>2. m[id] = e
    BY <1>1, <1>3
  <2> QED BY <2>1, <2>2, <1>2, <1>6
<1>8. VariantsBelong(m)
  <2> HIDE DEF m, id, e
  <2> SUFFICES ASSUME NEW i \in CatalogIds, m[i] # NoEntry, i.variant # NoDoc
               PROVE  m[i].doc = i.variant
    BY DEF VariantsBelong
  <2>1. CASE i = id
    BY <2>1, <1>1, <1>2, <1>3
  <2>2. CASE i # id
    BY <2>2, <1>5 DEF CatalogOK, VariantsBelong
  <2> QED BY <2>1, <2>2
<1> QED BY <1>4, <1>7, <1>8 DEF CatalogOK

\* The merge takes away only what the job may take: an ingest goes to an id
\* that is free, its document's, or has its suffix.
LEMMA MergedFollows ==
  ASSUME NEW old \in Catalogs, VariantsBelong(old), NEW c \in Catalogs, NEW j, JobOK(j),
         Follows(old, c, j), NEW n \in DOMAIN j.ops, j.ops[n] \in Operation
  PROVE  Follows(old, Merged(c, j, j.ops[n]), j)
<1> DEFINE op == j.ops[n]
           id == IdFor(c, j, op)
           m == Merged(c, j, op)
<1> SUFFICES ASSUME NEW i \in CatalogIds, old[i] # NoEntry, m[i] # old[i]
             PROVE  Accounted(old, j, i)
  BY DEF Follows
<1>1. CASE c[i] # old[i]
  BY <1>1 DEF Follows
<1>2. CASE c[i] = old[i] /\ i = id
  <2>1. CASE j.kind # "ingest"
    <3>1. i = [base |-> op.id, variant |-> NoDoc]
      BY <1>2, <2>1 DEF IdFor
    <3> QED BY <2>1, <3>1 DEF Accounted
  <2>2. CASE j.kind = "ingest" /\ i = [base |-> op.id, variant |-> NoDoc]
    <3>1. ASSUME c[i].doc # j.doc PROVE FALSE
      <4>1. id = [base |-> op.id, variant |-> j.doc]
        BY <1>2, <2>2, <3>1 DEF IdFor
      <4>2. id.variant = j.doc /\ i.variant = NoDoc
        BY <4>1, <2>2
      <4> QED BY <4>2, <1>2, <2>2, CatalogAssumption DEF CatalogAssumption, JobOK
    <3> QED BY <3>1, <1>2, <2>2 DEF Accounted
  <2>3. CASE j.kind = "ingest" /\ i # [base |-> op.id, variant |-> NoDoc]
    <3>1. i = [base |-> op.id, variant |-> j.doc]
      BY <1>2, <2>3 DEF IdFor
    <3>2. i.variant = j.doc
      BY <3>1
    <3>3. i.variant # NoDoc
      BY <3>2, <2>3, CatalogAssumption DEF CatalogAssumption, JobOK
    <3>4. old[i].doc = j.doc
      BY <3>2, <3>3 DEF VariantsBelong
    <3> QED BY <2>3, <3>4 DEF Accounted
  <2> QED BY <2>1, <2>2, <2>3
<1>3. CASE c[i] = old[i] /\ i # id
  <2>1. Superseded(c, j, op, i)
    BY <1>3, MergedAt
  <2> QED BY <1>3, <2>1 DEF Superseded, Accounted
<1> QED BY <1>1, <1>2, <1>3

-----------------------------------------------------------------------------
(* Steps.                                                                   *)

LEMMA InitOK == Init => IInv
<1> SUFFICES ASSUME Init PROVE IInv
  OBVIOUS
<1> USE EmptyOK, NoJobType
<1>1. TypeOK
  BY DEF Init, TypeOK
<1>2. CatalogOK(cat)
  BY DEF Init
<1>3. \A r \in Requests : Working(r)
  BY DEF Init, Working, CatalogOK
<1> QED BY <1>1, <1>2, <1>3 DEF IInv

LEMMA BeginsOK ==
  ASSUME IInv, NEW r \in Requests, NEW j, JobOK(j), NEW at \in {"read", "failed"},
         Begins(r, j, at), docs' \in [Documents -> Nat]
  PROVE  IInv'
<1> USE DEF IInv
<1>1. TypeOK'
  BY DEF Begins, TypeOK, JobOK, flowVars
<1>2. CatalogOK(cat)'
  BY DEF Begins, CatalogOK, OnePerDocumentAndKey, VariantsBelong
<1>3. ASSUME NEW s \in Requests PROVE Working(s)'
  <2>1. /\ mine'[s] = mine[s] /\ base'[s] = base[s]
        /\ s # r => job'[s] = job[s] /\ pc'[s] = pc[s]
        /\ s = r => job'[s] = j /\ pc'[s] = at
    BY DEF Begins, TypeOK
  <2>2. Working(s)
    OBVIOUS
  <2> QED BY <2>1, <2>2 DEF Working, CatalogOK, OnePerDocumentAndKey, VariantsBelong, Follows
<1> QED BY <1>1, <1>2, <1>3

LEMMA IngestOK == ASSUME IInv, NEW r \in Requests, NEW d \in Documents, Ingest(r, d) PROVE IInv'
<1>1. JobOK([kind |-> "ingest", doc |-> d, ops |-> OpsOf[d]])
  BY CatalogAssumption DEF CatalogAssumption, JobOK, Job
<1>2. docs' \in [Documents -> Nat]
  BY DEF IInv, TypeOK, Ingest
<1> QED BY <1>1, <1>2, BeginsOK DEF Ingest

LEMMA ImportOK ==
  ASSUME IInv, NEW r \in Requests, NEW s \in Imports, NEW k \in {"import_text", "discover"},
         Import(r, s, k)
  PROVE  IInv'
<1>1. JobOK([kind |-> k, doc |-> NoDoc, ops |-> s])
  BY CatalogAssumption DEF CatalogAssumption, JobOK, Job
<1>2. docs' \in [Documents -> Nat]
  BY DEF IInv, TypeOK, Import
<1> QED BY <1>1, <1>2, BeginsOK DEF Import

LEMMA ReadOK == ASSUME IInv, NEW r \in Requests, Read(r) PROVE IInv'
<1> USE DEF IInv
<1>1. JobOK(job[r])
  BY DEF Read, Working
<1>2. Kept(job[r]) \in Catalogs /\ CatalogOK(Kept(job[r])) /\ Follows(cat, Kept(job[r]), job[r])
  BY <1>1, KeptOK DEF TypeOK
<1>3. TypeOK'
  BY <1>2 DEF Read, Goes, TypeOK, flowVars
<1>4. CatalogOK(cat)'
  BY DEF Read, CatalogOK, OnePerDocumentAndKey, VariantsBelong
<1>5. ASSUME NEW s \in Requests PROVE Working(s)'
  <2>1. /\ job'[s] = job[s]
        /\ s # r => mine'[s] = mine[s] /\ base'[s] = base[s] /\ pc'[s] = pc[s]
        /\ s = r => mine'[s] = Kept(job[r]) /\ base'[s] = cat /\ pc[s] # "idle"
    BY DEF Read, Goes, TypeOK
  <2>2. Working(s)
    OBVIOUS
  <2> HIDE DEF IInv
  <2>3. CASE s # r
    BY <2>1, <2>2, <2>3 DEF Working, CatalogOK, OnePerDocumentAndKey, VariantsBelong, Follows
  <2>4. CASE s = r
    BY <2>1, <2>4, <1>1, <1>2, IInv DEF IInv, Working, CatalogOK, OnePerDocumentAndKey, VariantsBelong, Follows
  <2> QED BY <2>3, <2>4
<1> QED BY <1>3, <1>4, <1>5

LEMMA MergeOK == ASSUME IInv, NEW r \in Requests, Merge(r) PROVE IInv'
<1> DEFINE op == job[r].ops[pos[r]]
           m == Merged(mine[r], job[r], op)
<1>1. JobOK(job[r]) /\ mine[r] \in Catalogs /\ base[r] \in Catalogs /\ session \in Nat
  BY DEF IInv, TypeOK, Merge, Working
<1>2. CatalogOK(mine[r]) /\ VariantsBelong(base[r]) /\ Follows(base[r], mine[r], job[r])
  BY DEF IInv, Merge, Working
<1>3. op \in Operation
  BY <1>1 DEF JobOK, Job, Merge
<1>4. m \in Catalogs /\ CatalogOK(m)
  BY <1>1, <1>2, <1>3, MergedOK
<1>5. Follows(base[r], m, job[r])
  BY <1>1, <1>2, <1>3, MergedFollows DEF Merge
<1> HIDE DEF op, m
<1>6. mine' = [mine EXCEPT ![r] = m] /\ pos' = [pos EXCEPT ![r] = @ + 1]
  BY DEF Merge, op, m
<1>7. TypeOK'
  BY <1>4, <1>6 DEF Merge, IInv, TypeOK, flowVars
<1>8. CatalogOK(cat)'
  BY DEF Merge, IInv, CatalogOK, OnePerDocumentAndKey, VariantsBelong
<1>9. ASSUME NEW s \in Requests PROVE Working(s)'
  <2>1. /\ job'[s] = job[s] /\ base'[s] = base[s] /\ pc'[s] = pc[s]
        /\ mine'[s] = IF s = r THEN m ELSE mine[s]
    BY <1>6 DEF Merge, IInv, TypeOK
  <2>2. Working(s)
    BY DEF IInv
  <2>3. CASE s # r
    BY <2>1, <2>2, <2>3 DEF Working, CatalogOK, OnePerDocumentAndKey, VariantsBelong, Follows
  <2>4. CASE s = r
    BY <2>1, <2>2, <2>4, <1>4, <1>5 DEF Working, CatalogOK, OnePerDocumentAndKey, VariantsBelong, Follows
  <2> QED BY <2>3, <2>4
<1> QED BY <1>7, <1>8, <1>9 DEF IInv

\* A step that leaves dictionaries, jobs and readings alone, and at most ends
\* a merge, keeps what is said of the requests.
LEMMA Quiet ==
  ASSUME IInv, UNCHANGED <<job, base, mine>>,
         \A s \in Requests : pc'[s] = pc[s] \/ (pc[s] # "idle" /\ pc'[s] # "merge")
  PROVE  \A s \in Requests : Working(s)'
<1> SUFFICES ASSUME NEW s \in Requests PROVE Working(s)'
  OBVIOUS
<1>1. Working(s) /\ (pc'[s] = pc[s] \/ (pc[s] # "idle" /\ pc'[s] # "merge"))
  BY DEF IInv
<1> QED BY <1>1 DEF Working, CatalogOK, OnePerDocumentAndKey, VariantsBelong, Follows

\* What a request lists are entries of the catalog.
LEMMA VisibleType ==
  ASSUME NEW c \in Catalogs PROVE Visible(c) \subseteq [id : CatalogIds, entry : Entry]
  BY DEF Visible, Catalogs

LEMMA GivenType ==
  ASSUME NEW s \in Seq(Operation), session \in Nat
  PROVE  Given(s) \subseteq [id : CatalogIds, entry : Entry]
<1> SUFFICES ASSUME NEW n \in DOMAIN s
             PROVE  [id |-> [base |-> s[n].id, variant |-> NoDoc],
                     entry |-> [doc |-> NoDoc, key |-> s[n].key, sess |-> session]]
                       \in [id : CatalogIds, entry : Entry]
  BY DEF Given
<1>1. s[n] \in Operation
  OBVIOUS
<1> QED BY <1>1 DEF Operation, CatalogIds, Entry

LEMMA WriteOK == ASSUME IInv, NEW r \in Requests, Write(r) PROVE IInv'
<1>1. CatalogOK(mine[r]) /\ mine[r] \in Catalogs /\ JobOK(job[r]) /\ session \in Nat
  BY DEF IInv, TypeOK, Write, Working
<1>2. (IF job[r].kind = "ingest" THEN Visible(mine[r]) ELSE Given(job[r].ops))
        \in SUBSET [id : CatalogIds, entry : Entry]
  BY <1>1, VisibleType, GivenType DEF JobOK, Job
<1>3. TypeOK'
  BY <1>1, <1>2 DEF Write, Goes, IInv, TypeOK, flowVars
<1>4. CatalogOK(cat)'
  BY <1>1 DEF Write, CatalogOK, OnePerDocumentAndKey, VariantsBelong
<1>5. \A s \in Requests : Working(s)'
  BY Quiet DEF Write, Goes, IInv, TypeOK
<1> QED BY <1>3, <1>4, <1>5 DEF IInv

LEMMA NotWrittenOK == ASSUME IInv, NEW r \in Requests, NotWritten(r) PROVE IInv'
<1>1. TypeOK'
  BY DEF NotWritten, Goes, IInv, TypeOK, flowVars
<1>2. CatalogOK(cat)'
  BY DEF NotWritten, IInv, CatalogOK, OnePerDocumentAndKey, VariantsBelong
<1>3. \A s \in Requests : Working(s)'
  BY Quiet DEF NotWritten, Goes, IInv, TypeOK
<1> QED BY <1>1, <1>2, <1>3 DEF IInv

LEMMA ListOK == ASSUME IInv, NEW r \in Requests, List(r) PROVE IInv'
<1>1. Visible(cat) \in SUBSET [id : CatalogIds, entry : Entry]
  BY VisibleType DEF IInv, TypeOK
<1>2. TypeOK'
  BY <1>1 DEF List, Goes, IInv, TypeOK, flowVars
<1>3. CatalogOK(cat)'
  BY DEF List, IInv, CatalogOK, OnePerDocumentAndKey, VariantsBelong
<1>4. \A s \in Requests : Working(s)'
  BY Quiet DEF List, Goes, IInv, TypeOK
<1> QED BY <1>2, <1>3, <1>4 DEF IInv

LEMMA RespondOK == ASSUME IInv, NEW r \in Requests, Respond(r) PROVE IInv'
<1> USE EmptyOK, NoJobType
<1>1. TypeOK'
  BY DEF Respond, IInv, TypeOK, flowVars
<1>2. CatalogOK(cat)'
  BY DEF Respond, IInv, CatalogOK, OnePerDocumentAndKey, VariantsBelong
<1>3. ASSUME NEW s \in Requests PROVE Working(s)'
  <2>1. /\ s # r => /\ pc'[s] = pc[s] /\ job'[s] = job[s]
                    /\ mine'[s] = mine[s] /\ base'[s] = base[s]
        /\ s = r => pc'[s] = "idle" /\ mine'[s] = Empty /\ base'[s] = Empty
    BY DEF Respond, IInv, TypeOK
  <2>2. Working(s)
    BY DEF IInv
  <2> QED BY <2>1, <2>2 DEF Working, CatalogOK, OnePerDocumentAndKey, VariantsBelong, Follows
<1> QED BY <1>1, <1>2, <1>3 DEF IInv

LEMMA RestartOK == ASSUME IInv, Restart PROVE IInv'
<1> USE EmptyOK, NoJobType
<1>1. TypeOK'
  BY DEF Restart, IInv, TypeOK
<1>2. CatalogOK(cat)'
  BY DEF Restart, IInv, CatalogOK, OnePerDocumentAndKey, VariantsBelong
<1>3. ASSUME NEW s \in Requests PROVE Working(s)'
  BY DEF Restart, Working, CatalogOK, OnePerDocumentAndKey, VariantsBelong, Follows
<1> QED BY <1>1, <1>2, <1>3 DEF IInv

\* The API flow reads the catalog and changes nothing of it.
LEMMA FlowOK ==
  ASSUME IInv, UNCHANGED <<docs, cat, session, raced, displaced, reqVars>>,
         flow' \in {NoFlow} \cup Flow, frozen' \subseteq CatalogIds
  PROVE  IInv'
<1>1. TypeOK'
  BY DEF IInv, TypeOK, reqVars
<1>2. CatalogOK(cat)'
  BY DEF IInv, CatalogOK, OnePerDocumentAndKey, VariantsBelong
<1>3. \A s \in Requests : Working(s)'
  BY Quiet DEF reqVars
<1> QED BY <1>1, <1>2, <1>3 DEF IInv

LEMMA SelectOK ==
  ASSUME IInv, NEW d \in Documents, NEW i \in CatalogIds, Select(d, i) PROVE IInv'
<1>1. flow' \in {NoFlow} \cup Flow
  BY DEF Select, Flow
<1>2. frozen' \subseteq CatalogIds
  BY DEF Select, IInv, TypeOK
<1> QED BY <1>1, <1>2, FlowOK DEF Select

LEMMA LooksUpOK ==
  ASSUME IInv, NEW from \in {"selected", "analysed"}, NEW to \in {"analysed", "designed"},
         LooksUp(from, to)
  PROVE  IInv'
<1>1. flow \in Flow
  BY DEF IInv, TypeOK, LooksUp, NoFlow
<1>2. cat[flow.id] = NoEntry \/ cat[flow.id] \in Entry
  BY <1>1 DEF IInv, TypeOK, Catalogs, Flow
<1>3. flow' \in {NoFlow} \cup Flow
  BY <1>1, <1>2 DEF LooksUp, Flow
<1>4. frozen' \subseteq CatalogIds
  BY DEF LooksUp, IInv, TypeOK
<1> QED BY <1>3, <1>4, FlowOK DEF LooksUp

LEMMA FreezeOK == ASSUME IInv, Freeze PROVE IInv'
<1>1. flow \in Flow
  BY DEF IInv, TypeOK, Freeze, NoFlow
<1>2. frozen' \subseteq CatalogIds
  BY <1>1 DEF IInv, TypeOK, Freeze, Flow
<1>3. flow' \in {NoFlow} \cup Flow
  BY DEF Freeze
<1> QED BY <1>2, <1>3, FlowOK DEF Freeze

LEMMA RetryOK == ASSUME IInv, Retry PROVE IInv'
<1>1. flow \in Flow
  BY DEF IInv, TypeOK, Retry, NoFlow
<1>2. flow' \in {NoFlow} \cup Flow
  BY <1>1 DEF Retry, Flow
<1>3. frozen' \subseteq CatalogIds
  BY DEF Retry, IInv, TypeOK
<1> QED BY <1>2, <1>3, FlowOK DEF Retry

LEMMA SkipOK == ASSUME IInv, Skip PROVE IInv'
<1>1. flow' \in {NoFlow} \cup Flow /\ frozen' \subseteq CatalogIds
  BY DEF Skip, IInv, TypeOK
<1> QED BY <1>1, FlowOK DEF Skip

LEMMA StutterOK == ASSUME IInv, UNCHANGED vars PROVE IInv'
<1>1. flow' \in {NoFlow} \cup Flow /\ frozen' \subseteq CatalogIds
  BY DEF vars, flowVars, IInv, TypeOK
<1> QED BY <1>1, FlowOK DEF vars

LEMMA NextOK == IInv /\ [Next]_vars => IInv'
<1> SUFFICES ASSUME IInv, [Next]_vars PROVE IInv'
  OBVIOUS
<1>1. ASSUME NEW r \in Requests, NEW d \in Documents, Ingest(r, d) PROVE IInv'
  BY <1>1, IngestOK
<1>2. ASSUME NEW r \in Requests, NEW s \in Imports, NEW k \in {"import_text", "discover"},
             Import(r, s, k)
      PROVE  IInv'
  BY <1>2, ImportOK
<1>3. ASSUME NEW r \in Requests, Serve(r) PROVE IInv'
  BY <1>3, ReadOK, MergeOK, WriteOK, ListOK, RespondOK DEF Serve
<1>4. ASSUME NEW r \in Requests, NotWritten(r) PROVE IInv'
  BY <1>4, NotWrittenOK
<1>5. ASSUME NEW d \in Documents, NEW i \in CatalogIds, Select(d, i) PROVE IInv'
  BY <1>5, SelectOK
<1>6. CASE Analyse \/ Design
  BY <1>6, LooksUpOK DEF Analyse, Design
<1>7. CASE Restart \/ Freeze \/ Retry \/ Skip
  BY <1>7, RestartOK, FreezeOK, RetryOK, SkipOK
<1>8. CASE UNCHANGED vars
  BY <1>8, StutterOK
<1> QED BY <1>1, <1>2, <1>3, <1>4, <1>5, <1>6, <1>7, <1>8 DEF Next

-----------------------------------------------------------------------------
(* Theorems.                                                                *)

\* The inductive invariant holds in every reachable state.
THEOREM Invariance == Spec => []IInv
BY InitOK, NextOK, PTL DEF Spec

\* What the file, the dictionaries and the answers hold are entries under ids
\* of the catalog (requirements/operation_store.py).
THEOREM TypeCorrect == Spec => []TypeOK
<1>1. IInv => TypeOK
  BY DEF IInv
<1> QED BY <1>1, Invariance, PTL

\* No operation of a document is ever listed twice, however many requests
\* overwrite each other's catalogs (_merge_operations of OperationStore).
THEOREM OneEntryCorrect == Spec => []OneEntryPerOperation
<1>1. IInv => OneEntryPerOperation
  BY DEF IInv, CatalogOK, OneEntryPerOperation
<1> QED BY <1>1, Invariance, PTL

\* Only the write of a request changes the file, and all that the write takes
\* out, or changes, is the job's or was not as the request had read it.
LEMMA StepExplained ==
  ASSUME IInv, [Next]_vars, NEW i \in CatalogIds, cat[i] # NoEntry, cat'[i] # cat[i]
  PROVE  \E r \in Requests : pc[r] = "merge" /\ pc'[r] # "merge" /\ Explained(r, i)
<1>1. cat' # cat
  OBVIOUS
<1>2. PICK r \in Requests : Write(r)
  BY <1>1 DEF Next, Ingest, Import, Begins, Serve, Read, Merge, List, Respond, NotWritten, Restart,
              Select, Analyse, Design, LooksUp, Freeze, Retry, Skip, vars
<1>3. pc[r] = "merge" /\ pc'[r] # "merge"
  BY <1>2 DEF Write, Goes, IInv, TypeOK
<1>4. Explained(r, i)
  <2>1. CASE base[r][i] # cat[i]
    BY <2>1 DEF Explained
  <2>2. CASE base[r][i] = cat[i]
    <3>1. cat'[i] = mine[r][i] /\ Follows(base[r], mine[r], job[r])
      BY <1>2 DEF Write, IInv, Working
    <3>2. Accounted(base[r], job[r], i)
      BY <2>2, <3>1 DEF Follows
    <3> QED BY <2>2, <3>2 DEF Accounted, Explained
  <2> QED BY <2>1, <2>2
<1> QED BY <1>3, <1>4

\* An entry goes out of the catalog, or changes, only for its own document,
\* for an import of its id or path, or because the writer had not read it.
THEOREM NothingVanishesCorrect == Spec => NothingVanishes
<1>1. IInv /\ [Next]_vars =>
        [\A i \in CatalogIds :
           cat[i] # NoEntry /\ cat'[i] # cat[i] =>
             \E r \in Requests : pc[r] = "merge" /\ pc'[r] # "merge" /\ Explained(r, i)]_vars
  BY StepExplained
<1> QED BY <1>1, Invariance, PTL DEF Spec, NothingVanishes

-----------------------------------------------------------------------------
(* Where a flow reads.  As long as no write raced and no import displaced   *)
(* another operation, an id that the catalog holds stays with its document: *)
(* to ingest a document again gives its operations the ids they had.        *)

Calm == ~raced /\ ~displaced

Plain(i) == [base |-> i.base, variant |-> NoDoc]

\* Another operation than one of document d has the id.
HeldByOther(c, d, i) == c[i] # NoEntry /\ c[i].doc # d

\* An operation has the id it was discovered with, or that one with a suffix
\* because an operation of another origin has it.
Placed(c) ==
  \A i \in CatalogIds : c[i] # NoEntry /\ c[i].doc \in Documents =>
    /\ \E n \in DOMAIN OpsOf[c[i].doc] : OpsOf[c[i].doc][n].id = i.base
    /\ i.variant # NoDoc => HeldByOther(c, c[i].doc, Plain(i))

\* How far the operations of d, up to the k-th, are back in dictionary m.
Placing(b, m, d, k) ==
  /\ \A i \in CatalogIds : HeldByOther(b, d, i) => m[i] = b[i]
  /\ \A i \in CatalogIds : HeldByOther(m, d, i) => m[i] = b[i]
  /\ \A i \in CatalogIds : m[i] # NoEntry /\ m[i].doc = d =>
       /\ \E n \in DOMAIN OpsOf[d] : n < k /\ OpsOf[d][n].id = i.base /\ OpsOf[d][n].key = m[i].key
       /\ i.variant # NoDoc => HeldByOther(b, d, Plain(i))
  /\ \A i \in CatalogIds : b[i] # NoEntry /\ b[i].doc = d =>
       \A n \in DOMAIN OpsOf[d] : n < k /\ OpsOf[d][n].id = i.base => m[i] # NoEntry /\ m[i].doc = d

\* What an import adds belongs to no document.
Adding(b, m) == \A i \in CatalogIds : m[i] # NoEntry => m[i] = b[i] \/ m[i].doc = NoDoc

MergeFits(r) ==
  pc[r] = "merge" =>
    /\ Placed(base[r])
    /\ job[r].kind = "ingest" => Placing(base[r], mine[r], job[r].doc, pos[r])
    /\ job[r].kind # "ingest" => Adding(base[r], mine[r])

FlowFits ==
  /\ flow.stage # "none" => cat[flow.id] # NoEntry /\ cat[flow.id].doc \in {NoDoc, flow.doc}
  /\ \A e \in flow.read : e.doc \in {NoDoc, flow.doc}

JobKnown(r) ==
  /\ pos[r] # 0
  /\ pc[r] # "idle" /\ job[r].kind = "ingest" => job[r].ops = OpsOf[job[r].doc]

JInv ==
  /\ \A r \in Requests : JobKnown(r)
  /\ Calm => Placed(cat) /\ FlowFits /\ \A r \in Requests : MergeFits(r)

\* Every id keeps its holder's origin.
Stays(c, new) ==
  \A i \in CatalogIds : c[i] # NoEntry => new[i] # NoEntry /\ new[i].doc = c[i].doc

LEMMA DocumentOps ==
  ASSUME NEW d \in Documents
  PROVE  /\ OpsOf[d] \in Seq(Operation) /\ DOMAIN OpsOf[d] = 1..Len(OpsOf[d]) /\ Len(OpsOf[d]) \in Nat
         /\ \A m, n \in DOMAIN OpsOf[d] :
              m # n => OpsOf[d][m].id # OpsOf[d][n].id /\ OpsOf[d][m].key # OpsOf[d][n].key
BY CatalogAssumption DEF CatalogAssumption

LEMMA PlainIsId == ASSUME NEW i \in CatalogIds PROVE Plain(i) \in CatalogIds
  BY DEF Plain, CatalogIds

\* Merging the k-th operation of a document puts it where it was.
LEMMA PlacingOn ==
  ASSUME NEW b \in Catalogs, NEW m \in Catalogs, NEW j, JobOK(j), j.kind = "ingest",
         j.ops = OpsOf[j.doc], NEW k \in DOMAIN OpsOf[j.doc], session \in Nat,
         VariantsBelong(b), VariantsBelong(m), Placed(b), Placing(b, m, j.doc, k)
  PROVE  Placing(b, Merged(m, j, OpsOf[j.doc][k]), j.doc, k + 1)
<1> DEFINE d == j.doc
           op == OpsOf[d][k]
           plain == [base |-> op.id, variant |-> NoDoc]
           id == IdFor(m, j, op)
           new == Merged(m, j, op)
<1>1. d \in Documents /\ op \in Operation /\ k \in Nat /\ d # NoDoc
  BY DocumentOps, CatalogAssumption DEF JobOK, CatalogAssumption
<1>2. /\ id \in CatalogIds /\ id.base = op.id /\ plain \in CatalogIds
      /\ id = IF HeldByOther(m, d, plain) THEN [base |-> op.id, variant |-> d] ELSE plain
  BY <1>1 DEF IdFor, HeldByOther, CatalogIds, Operation
<1>3. EntryOf(j, op) # NoEntry /\ EntryOf(j, op).doc = d /\ EntryOf(j, op).key = op.key
  BY <1>1, EntryOfType
<1>4. \A i \in CatalogIds : new[i] = IF i = id THEN EntryOf(j, op)
                                     ELSE IF Superseded(m, j, op, i) THEN NoEntry ELSE m[i]
  BY MergedAt
<1>5. \A i \in CatalogIds : Superseded(m, j, op, i) <=>
        m[i] # NoEntry /\ i # id /\ m[i].key = op.key /\ m[i].doc = d
  BY DEF Superseded
<1>6. /\ \A i \in CatalogIds : HeldByOther(b, d, i) => m[i] = b[i]
      /\ \A i \in CatalogIds : HeldByOther(m, d, i) => m[i] = b[i]
      /\ \A i \in CatalogIds : m[i] # NoEntry /\ m[i].doc = d =>
           /\ \E n \in DOMAIN OpsOf[d] : n < k /\ OpsOf[d][n].id = i.base /\ OpsOf[d][n].key = m[i].key
           /\ i.variant # NoDoc => HeldByOther(b, d, Plain(i))
      /\ \A i \in CatalogIds : b[i] # NoEntry /\ b[i].doc = d =>
           \A n \in DOMAIN OpsOf[d] : n < k /\ OpsOf[d][n].id = i.base => m[i] # NoEntry /\ m[i].doc = d
  BY DEF Placing
<1>7. DOMAIN OpsOf[d] \subseteq Nat
      /\ \A n \in DOMAIN OpsOf[d] : n # k => OpsOf[d][n].id # op.id /\ OpsOf[d][n].key # op.key
  BY <1>1, DocumentOps
<1>8. Placed(b)
  OBVIOUS
<1> HIDE DEF d, op, plain, id, new
<1>9. \A i \in CatalogIds : HeldByOther(b, d, i) => i # id
  <2> SUFFICES ASSUME HeldByOther(b, d, id) PROVE FALSE
    OBVIOUS
  <2>1. m[id] = b[id] /\ HeldByOther(m, d, id)
    BY <1>2, <1>6 DEF HeldByOther
  <2>2. id = [base |-> op.id, variant |-> d]
    BY <1>2, <2>1
  <2>3. b[id].doc = d
    BY <1>1, <1>2, <2>2 DEF VariantsBelong, HeldByOther
  <2> QED BY <2>3 DEF HeldByOther
<1>10. \A i \in CatalogIds : HeldByOther(b, d, i) => new[i] = b[i]
  BY <1>4, <1>5, <1>6, <1>9 DEF HeldByOther
<1>11. \A i \in CatalogIds : HeldByOther(new, d, i) => new[i] = b[i]
  BY <1>3, <1>4, <1>6 DEF HeldByOther
<1>12. ASSUME NEW i \in CatalogIds, new[i] # NoEntry, new[i].doc = d
       PROVE  /\ \E n \in DOMAIN OpsOf[d] :
                   n < k + 1 /\ OpsOf[d][n].id = i.base /\ OpsOf[d][n].key = new[i].key
              /\ i.variant # NoDoc => HeldByOther(b, d, Plain(i))
  <2>1. CASE i = id
    <3>1. k \in DOMAIN OpsOf[d] /\ k < k + 1 /\ OpsOf[d][k] = op
      BY <1>1 DEF d, op
    <3>2. op.id = i.base /\ op.key = new[i].key
      BY <1>2, <1>3, <1>4, <2>1
    <3>3. ASSUME i.variant # NoDoc PROVE HeldByOther(b, d, Plain(i))
      <4>1. HeldByOther(m, d, plain) /\ Plain(i) = plain
        BY <1>2, <2>1, <3>3 DEF plain, Plain
      <4> QED BY <1>2, <1>6, <4>1 DEF HeldByOther
    <3> QED BY <3>1, <3>2, <3>3
  <2>2. CASE i # id
    <3>1. new[i] = m[i]
      BY <1>4, <2>2, <1>12
    <3>2. PICK n \in DOMAIN OpsOf[d] : n < k /\ OpsOf[d][n].id = i.base /\ OpsOf[d][n].key = m[i].key
      BY <1>6, <1>12, <3>1
    <3>3. n < k + 1
      BY <1>1, <1>7, <3>2
    <3> QED BY <1>6, <1>12, <3>1, <3>2, <3>3
  <2> QED BY <2>1, <2>2
<1>13. ASSUME NEW i \in CatalogIds, b[i] # NoEntry, b[i].doc = d,
              NEW n \in DOMAIN OpsOf[d], n < k + 1, OpsOf[d][n].id = i.base
       PROVE  new[i] # NoEntry /\ new[i].doc = d
  <2>1. CASE i = id
    BY <1>3, <1>4, <2>1
  <2>2. CASE i # id /\ n # k
    <3>1. n < k
      BY <1>1, <1>7, <1>13, <2>2
    <3>2. m[i] # NoEntry /\ m[i].doc = d
      BY <1>6, <1>13, <3>1
    <3>3. m[i].key # op.key
      <4>1. PICK l \in DOMAIN OpsOf[d] : l < k /\ OpsOf[d][l].key = m[i].key
        BY <1>6, <3>2
      <4>2. l # k
        BY <1>1, <1>7, <4>1
      <4> QED BY <1>7, <4>1, <4>2
    <3> QED BY <1>4, <1>5, <2>2, <3>2, <3>3
  <2>3. CASE i # id /\ n = k
    <3>1. i.base = op.id
      BY <1>13, <2>3 DEF op, d
    <3>2. CASE i.variant = NoDoc
      <4>1. i = plain
        BY <3>1, <3>2 DEF CatalogIds, plain
      <4>2. ~HeldByOther(m, d, plain)
        BY <1>6, <1>13, <4>1 DEF HeldByOther
      <4> QED BY <1>2, <2>3, <4>1, <4>2
    <3>3. CASE i.variant # NoDoc
      <4>1. i.variant = d
        BY <1>13, <3>3 DEF VariantsBelong
      <4>2. i = [base |-> op.id, variant |-> d]
        BY <3>1, <4>1 DEF CatalogIds
      <4>3. Plain(i) = plain
        BY <3>1 DEF Plain, plain
      <4>4. HeldByOther(b, d, plain)
        BY <1>1, <1>8, <1>13, <3>3, <4>3 DEF Placed
      <4>5. HeldByOther(m, d, plain)
        BY <1>2, <1>6, <4>4 DEF HeldByOther
      <4> QED BY <1>2, <2>3, <4>2, <4>5
    <3> QED BY <3>2, <3>3
  <2> QED BY <2>1, <2>2, <2>3
<1>14. Placing(b, new, d, k + 1)
  BY <1>10, <1>11, <1>12, <1>13 DEF Placing
<1> QED BY <1>14 DEF d, op, new

\* A finished merge leaves every operation under the id it had.
LEMMA PlacingDone ==
  ASSUME NEW b \in Catalogs, NEW m \in Catalogs, NEW d \in Documents, NEW k \in Nat, k # 0,
         k \notin DOMAIN OpsOf[d], Placed(b), Placing(b, m, d, k)
  PROVE  Stays(b, m) /\ Placed(m)
<1>1. /\ DOMAIN OpsOf[d] = 1..Len(OpsOf[d]) /\ Len(OpsOf[d]) \in Nat
  BY DocumentOps
<1>2. \A n \in DOMAIN OpsOf[d] : n < k
  BY <1>1
<1>3. Stays(b, m)
  <2> SUFFICES ASSUME NEW i \in CatalogIds, b[i] # NoEntry
               PROVE  m[i] # NoEntry /\ m[i].doc = b[i].doc
    BY DEF Stays
  <2>1. CASE b[i].doc # d
    BY <2>1 DEF Placing, HeldByOther
  <2>2. CASE b[i].doc = d
    BY <1>2, <2>2 DEF Placed, Placing
  <2> QED BY <2>1, <2>2
<1>4. Placed(m)
  <2> SUFFICES ASSUME NEW i \in CatalogIds, m[i] # NoEntry, m[i].doc \in Documents
               PROVE  /\ \E n \in DOMAIN OpsOf[m[i].doc] : OpsOf[m[i].doc][n].id = i.base
                      /\ i.variant # NoDoc => HeldByOther(m, m[i].doc, Plain(i))
    BY DEF Placed
  <2>0. Plain(i) \in CatalogIds
    BY PlainIsId
  <2>1. CASE m[i].doc = d
    <3>1. /\ \E n \in DOMAIN OpsOf[d] : OpsOf[d][n].id = i.base
          /\ i.variant # NoDoc => HeldByOther(b, d, Plain(i))
      BY <2>1 DEF Placing
    <3>2. HeldByOther(b, d, Plain(i)) => HeldByOther(m, d, Plain(i))
      BY <1>3, <2>0 DEF Stays, HeldByOther
    <3> QED BY <2>1, <3>1, <3>2
  <2>2. CASE m[i].doc # d
    <3>1. m[i] = b[i]
      BY <2>2 DEF Placing, HeldByOther
    <3>2. /\ \E n \in DOMAIN OpsOf[m[i].doc] : OpsOf[m[i].doc][n].id = i.base
          /\ i.variant # NoDoc => HeldByOther(b, m[i].doc, Plain(i))
      BY <3>1 DEF Placed
    <3>3. HeldByOther(b, m[i].doc, Plain(i)) => HeldByOther(m, m[i].doc, Plain(i))
      BY <1>3, <2>0 DEF Stays, HeldByOther
    <3> QED BY <3>2, <3>3
  <2> QED BY <2>1, <2>2
<1> QED BY <1>3, <1>4

\* So does an import that displaces nothing.
LEMMA AddingDone ==
  ASSUME NEW b \in Catalogs, NEW m \in Catalogs, Placed(b), Adding(b, m), ~Displaces(b, m)
  PROVE  Stays(b, m) /\ Placed(m)
<1>1. Stays(b, m)
  BY DEF Displaces, Stays
<1>2. Placed(m)
  <2> SUFFICES ASSUME NEW i \in CatalogIds, m[i] # NoEntry, m[i].doc \in Documents
               PROVE  /\ \E n \in DOMAIN OpsOf[m[i].doc] : OpsOf[m[i].doc][n].id = i.base
                      /\ i.variant # NoDoc => HeldByOther(m, m[i].doc, Plain(i))
    BY DEF Placed
  <2>0. Plain(i) \in CatalogIds
    BY PlainIsId
  <2>1. m[i] = b[i]
    BY CatalogAssumption DEF Adding, CatalogAssumption
  <2>2. /\ \E n \in DOMAIN OpsOf[m[i].doc] : OpsOf[m[i].doc][n].id = i.base
        /\ i.variant # NoDoc => HeldByOther(b, m[i].doc, Plain(i))
    BY <2>1 DEF Placed
  <2>3. HeldByOther(b, m[i].doc, Plain(i)) => HeldByOther(m, m[i].doc, Plain(i))
    BY <1>1, <2>0 DEF Stays, HeldByOther
  <2> QED BY <2>2, <2>3
<1> QED BY <1>1, <1>2

LEMMA JobStarts == Init => JInv
<1> SUFFICES ASSUME Init PROVE JInv
  OBVIOUS
<1>1. Placed(cat)
  BY DEF Init, Empty, Placed
<1>2. FlowFits
  BY DEF Init, FlowFits, NoFlow
<1>3. \A r \in Requests : JobKnown(r) /\ MergeFits(r)
  BY DEF Init, JobKnown, MergeFits
<1> QED BY <1>1, <1>2, <1>3 DEF JInv

\* A step that leaves the file, the histories and the flow alone.
LEMMA Aside ==
  ASSUME JInv, UNCHANGED <<cat, raced, displaced, flow>>,
         \A r \in Requests : JobKnown(r)' /\ (Calm => MergeFits(r)')
  PROVE  JInv'
<1>1. Placed(cat)' <=> Placed(cat)
  BY DEF Placed, HeldByOther
<1>2. FlowFits' <=> FlowFits
  BY DEF FlowFits
<1> QED BY <1>1, <1>2 DEF JInv, Calm

LEMMA RequestFlow ==
  ASSUME IInv, JInv, NEW r \in Requests,
         \/ \E d \in Documents : Ingest(r, d)
         \/ \E s \in Imports, k \in {"import_text", "discover"} : Import(r, s, k)
         \/ List(r) \/ Respond(r) \/ NotWritten(r)
  PROVE  JInv'
<1> SUFFICES ASSUME NEW s \in Requests PROVE JobKnown(s)' /\ (Calm => MergeFits(s)')
  BY Aside DEF Ingest, Import, Begins, List, Respond, NotWritten, flowVars
<1>1. JobKnown(s) /\ (Calm => MergeFits(s))
  BY DEF JInv
<1>2. ASSUME NEW d \in Documents, Ingest(r, d) PROVE s # r \/ (JobKnown(s)' /\ MergeFits(s)')
  BY <1>1, <1>2 DEF Ingest, Begins, IInv, TypeOK, JobKnown, MergeFits
<1>3. ASSUME NEW i \in Imports, NEW k \in {"import_text", "discover"}, Import(r, i, k)
      PROVE  s # r \/ (JobKnown(s)' /\ MergeFits(s)')
  BY <1>1, <1>3 DEF Import, Begins, IInv, TypeOK, JobKnown, MergeFits
<1>4. CASE List(r) \/ Respond(r) \/ NotWritten(r)
  <2>1. CASE s = r
    BY <1>1, <1>4, <2>1 DEF List, Respond, NotWritten, Goes, IInv, TypeOK, JobKnown, MergeFits
  <2>2. CASE s # r
    <3>1. pc'[s] = pc[s] /\ job'[s] = job[s] /\ pos'[s] = pos[s] /\ base'[s] = base[s] /\ mine'[s] = mine[s]
      BY <1>4, <2>2 DEF List, Respond, NotWritten, Goes, IInv, TypeOK
    <3> QED BY <1>1, <3>1 DEF JobKnown, MergeFits
  <2> QED BY <2>1, <2>2
<1>5. ASSUME s # r, (\E d \in Documents : Ingest(r, d))
              \/ \E i \in Imports, k \in {"import_text", "discover"} : Import(r, i, k)
      PROVE  JobKnown(s)' /\ (Calm => MergeFits(s)')
  <2>1. pc'[s] = pc[s] /\ job'[s] = job[s] /\ pos'[s] = pos[s] /\ base'[s] = base[s] /\ mine'[s] = mine[s]
    BY <1>5 DEF Ingest, Import, Begins, IInv, TypeOK
  <2> QED BY <1>1, <2>1 DEF JobKnown, MergeFits
<1> QED BY <1>2, <1>3, <1>4, <1>5

LEMMA ReadFlow == ASSUME IInv, JInv, NEW r \in Requests, Read(r) PROVE JInv'
<1> SUFFICES ASSUME NEW s \in Requests PROVE JobKnown(s)' /\ (Calm => MergeFits(s)')
  BY Aside DEF Read, flowVars
<1>1. JobKnown(s) /\ (Calm => MergeFits(s) /\ Placed(cat))
  BY DEF JInv
<1>2. CASE s # r
  <2>1. pc'[s] = pc[s] /\ job'[s] = job[s] /\ pos'[s] = pos[s] /\ base'[s] = base[s] /\ mine'[s] = mine[s]
    BY <1>2 DEF Read, Goes, IInv, TypeOK
  <2> QED BY <1>1, <2>1 DEF JobKnown, MergeFits
<1>3. CASE s = r
  <2>1. /\ pc[s] = "read" /\ pc'[s] = "merge" /\ job'[s] = job[s] /\ pos'[s] = 1
        /\ base'[s] = cat /\ mine'[s] = Kept(job[s])
    BY <1>3 DEF Read, Goes, IInv, TypeOK
  <2>2. JobKnown(s)'
    BY <1>1, <2>1 DEF JobKnown
  <2>3. ASSUME job[s].kind = "ingest" PROVE Placing(cat, Kept(job[s]), job[s].doc, 1)
    <3>1. JobOK(job[s])
      BY <2>1 DEF IInv, Working
    <3>2. \A n \in DOMAIN OpsOf[job[s].doc] : ~(n < 1)
      BY <2>3, <3>1, DocumentOps DEF JobOK
    <3>3. \A i \in CatalogIds : Kept(job[s])[i] =
            IF cat[i] # NoEntry /\ cat[i].doc = job[s].doc THEN NoEntry ELSE cat[i]
      BY <2>3 DEF Kept
    <3> QED BY <3>2, <3>3 DEF Placing, HeldByOther
  <2>4. ASSUME job[s].kind # "ingest" PROVE Adding(cat, Kept(job[s]))
    BY <2>4 DEF Adding, Kept
  <2> QED BY <1>1, <2>1, <2>2, <2>3, <2>4 DEF MergeFits
<1> QED BY <1>2, <1>3

LEMMA MergeFlow == ASSUME IInv, JInv, NEW r \in Requests, Merge(r) PROVE JInv'
<1> SUFFICES ASSUME NEW s \in Requests PROVE JobKnown(s)' /\ (Calm => MergeFits(s)')
  BY Aside DEF Merge, flowVars
<1>1. JobKnown(s) /\ (Calm => MergeFits(s))
  BY DEF JInv
<1>2. CASE s # r
  <2>1. pc'[s] = pc[s] /\ job'[s] = job[s] /\ pos'[s] = pos[s] /\ base'[s] = base[s] /\ mine'[s] = mine[s]
    BY <1>2 DEF Merge, IInv, TypeOK
  <2> QED BY <1>1, <2>1 DEF JobKnown, MergeFits
<1>3. CASE s = r
  <2> DEFINE op == job[s].ops[pos[s]]
  <2>1. /\ pc[s] = "merge" /\ pc'[s] = "merge" /\ job'[s] = job[s] /\ pos[s] \in Nat /\ pos'[s] = pos[s] + 1
        /\ base'[s] = base[s] /\ mine'[s] = Merged(mine[s], job[s], op) /\ pos[s] \in DOMAIN job[s].ops
    BY <1>3 DEF Merge, IInv, TypeOK
  <2>2. /\ JobOK(job[s]) /\ base[s] \in Catalogs /\ mine[s] \in Catalogs /\ session \in Nat
        /\ VariantsBelong(base[s]) /\ VariantsBelong(mine[s])
    BY <2>1 DEF IInv, TypeOK, Working, CatalogOK
  <2>3. JobKnown(s)'
    BY <1>1, <2>1 DEF JobKnown
  <2>4. ASSUME Calm, job[s].kind = "ingest"
        PROVE  Placing(base[s], Merged(mine[s], job[s], op), job[s].doc, pos[s] + 1)
    <3>1. job[s].ops = OpsOf[job[s].doc] /\ pos[s] \in DOMAIN OpsOf[job[s].doc]
      BY <1>1, <2>1, <2>4 DEF JobKnown
    <3>2. Placed(base[s]) /\ Placing(base[s], mine[s], job[s].doc, pos[s])
      BY <1>1, <2>1, <2>4 DEF MergeFits
    <3>3. op = OpsOf[job[s].doc][pos[s]]
      BY <3>1
    <3> HIDE DEF op
    <3>4. Placing(base[s], Merged(mine[s], job[s], OpsOf[job[s].doc][pos[s]]), job[s].doc, pos[s] + 1)
      BY <2>2, <2>4, <3>1, <3>2, PlacingOn
    <3> QED BY <3>3, <3>4
  <2>5. ASSUME Calm, job[s].kind # "ingest" PROVE Adding(base[s], Merged(mine[s], job[s], op))
    <3>1. Adding(base[s], mine[s])
      BY <1>1, <2>1, <2>5 DEF MergeFits
    <3>2. EntryOf(job[s], op).doc = NoDoc
      BY <2>2, <2>5 DEF EntryOf, JobOK
    <3>3. \A i \in CatalogIds : Merged(mine[s], job[s], op)[i] \in {EntryOf(job[s], op), NoEntry, mine[s][i]}
      BY <2>2, MergedAt
    <3> HIDE DEF op
    <3> QED BY <3>1, <3>2, <3>3 DEF Adding
  <2> HIDE DEF op
  <2>6. Calm => Placed(base[s])
    BY <1>1, <2>1 DEF MergeFits
  <2> QED BY <2>1, <2>3, <2>4, <2>5, <2>6 DEF MergeFits
<1> QED BY <1>2, <1>3

\* A write that neither races nor displaces leaves every id with its holder.
LEMMA WriteFlow == ASSUME IInv, JInv, NEW r \in Requests, Write(r) PROVE JInv'
<1>1. /\ pc[r] = "merge" /\ cat' = mine[r] /\ pos[r] \notin DOMAIN job[r].ops /\ pos[r] \in Nat
      /\ base[r] \in Catalogs /\ mine[r] \in Catalogs /\ JobOK(job[r]) /\ JobKnown(r)
      /\ UNCHANGED <<job, base, mine, pos, flow>>
  BY DEF Write, IInv, TypeOK, Working, JInv, flowVars
<1>2. \A s \in Requests : pc'[s] = IF s = r THEN IF job[r].kind = "discover" THEN "list" ELSE "done" ELSE pc[s]
  BY DEF Write, Goes, IInv, TypeOK
<1>3. \A s \in Requests : JobKnown(s)'
  BY <1>1, <1>2 DEF JobKnown, JInv
<1>4. ASSUME Calm' PROVE Placed(cat)' /\ FlowFits' /\ \A s \in Requests : MergeFits(s)'
  <2>1. Calm /\ cat = base[r] /\ (job[r].kind # "ingest" => ~Displaces(cat, mine[r]))
    BY <1>4 DEF Calm, Write
  <2>2. /\ Placed(base[r])
        /\ job[r].kind = "ingest" => Placing(base[r], mine[r], job[r].doc, pos[r])
        /\ job[r].kind # "ingest" => Adding(base[r], mine[r])
    BY <1>1, <2>1 DEF JInv, MergeFits
  <2>3. Stays(base[r], mine[r]) /\ Placed(mine[r])
    <3>1. CASE job[r].kind = "ingest"
      <4>1. job[r].doc \in Documents /\ job[r].ops = OpsOf[job[r].doc] /\ pos[r] # 0
        BY <1>1, <3>1 DEF JobOK, JobKnown
      <4> QED BY <1>1, <2>2, <3>1, <4>1, PlacingDone
    <3>2. CASE job[r].kind # "ingest"
      BY <1>1, <2>1, <2>2, <3>2, AddingDone
    <3> QED BY <3>1, <3>2
  <2>4. FlowFits'
    <3>1. FlowFits /\ (flow.stage # "none" => flow.id \in CatalogIds)
      BY <2>1 DEF JInv, IInv, TypeOK, NoFlow, Flow
    <3>2. flow.stage # "none" => mine[r][flow.id] # NoEntry /\ mine[r][flow.id].doc = cat[flow.id].doc
      BY <2>1, <2>3, <3>1 DEF FlowFits, Stays
    <3> QED BY <1>1, <3>1, <3>2 DEF FlowFits
  <2>5. \A s \in Requests : MergeFits(s)'
    BY <1>1, <1>2, <2>1 DEF JInv, MergeFits
  <2>6. Placed(cat)'
    BY <1>1, <2>3 DEF Placed, HeldByOther
  <2> QED BY <2>4, <2>5, <2>6
<1> QED BY <1>3, <1>4 DEF JInv

LEMMA RestartFlow == ASSUME JInv, Restart PROVE JInv'
<1>1. \A s \in Requests : JobKnown(s)' /\ MergeFits(s)'
  BY DEF Restart, JobKnown, MergeFits
<1>2. FlowFits'
  BY DEF Restart, FlowFits, NoFlow
<1>3. Calm' => Placed(cat)'
  BY DEF Restart, JInv, Calm, Placed, HeldByOther
<1> QED BY <1>1, <1>2, <1>3 DEF JInv

\* The flow's own steps.
LEMMA FlowSteps ==
  ASSUME IInv, JInv, UNCHANGED <<docs, cat, session, raced, displaced, reqVars>>,
         Calm => FlowFits'
  PROVE  JInv'
<1>1. \A s \in Requests : JobKnown(s)' /\ (Calm => MergeFits(s)')
  BY DEF reqVars, JInv, JobKnown, MergeFits
<1>2. Calm => Placed(cat)'
  BY DEF JInv, Placed, HeldByOther
<1> QED BY <1>1, <1>2 DEF JInv, Calm

LEMMA FlowKeeps ==
  ASSUME IInv, JInv,
         \/ \E d \in Documents, i \in CatalogIds : Select(d, i)
         \/ Analyse \/ Design \/ Freeze \/ Retry \/ Skip \/ UNCHANGED vars
  PROVE  JInv'
<1>0. Calm => FlowFits
  BY DEF JInv
<1>1. ASSUME NEW d \in Documents, NEW i \in CatalogIds, Select(d, i) PROVE JInv'
  <2>1. FlowFits'
    BY <1>1 DEF Select, MaySelect, FlowFits
  <2> QED BY <1>1, <2>1, FlowSteps DEF Select
<1>2. ASSUME NEW from \in {"selected", "analysed"}, NEW to \in {"analysed", "designed"},
             LooksUp(from, to)
      PROVE  JInv'
  <2>1. flow \in Flow
    BY <1>2 DEF IInv, TypeOK, LooksUp, NoFlow
  <2>2. /\ flow'.id = flow.id /\ flow'.doc = flow.doc
        /\ flow'.read \subseteq flow.read \cup {cat[flow.id]}
        /\ UNCHANGED cat /\ flow.stage # "none"
    BY <1>2, <2>1 DEF LooksUp, Flow
  <2>3. Calm => FlowFits'
    BY <1>0, <2>2 DEF FlowFits
  <2> QED BY <1>2, <2>3, FlowSteps DEF LooksUp
<1>3. CASE Retry
  <2>1. flow \in Flow
    BY <1>3 DEF IInv, TypeOK, Retry, NoFlow
  <2>2. /\ flow'.id = flow.id /\ flow'.doc = flow.doc
        /\ flow'.read \subseteq flow.read
        /\ UNCHANGED cat /\ flow.stage # "none"
    BY <1>3, <2>1 DEF Retry, Flow
  <2>3. Calm => FlowFits'
    BY <1>0, <2>2 DEF FlowFits
  <2> QED BY <1>3, <2>3, FlowSteps DEF Retry
<1>4. CASE Freeze \/ Skip
  <2>1. FlowFits'
    BY <1>4 DEF Freeze, Skip, FlowFits, NoFlow
  <2> QED BY <1>4, <2>1, FlowSteps DEF Freeze, Skip
<1>5. CASE UNCHANGED vars
  <2>1. Calm => FlowFits'
    BY <1>0, <1>5 DEF vars, flowVars, FlowFits
  <2> QED BY <1>5, <2>1, FlowSteps DEF vars
<1> QED BY <1>1, <1>2, <1>3, <1>4, <1>5 DEF Analyse, Design

LEMMA JobNext == IInv /\ JInv /\ [Next]_vars => JInv'
<1> SUFFICES ASSUME IInv, JInv, [Next]_vars PROVE JInv'
  OBVIOUS
<1>1. ASSUME NEW r \in Requests,
             \/ \E d \in Documents : Ingest(r, d)
             \/ \E s \in Imports, k \in {"import_text", "discover"} : Import(r, s, k)
             \/ Serve(r) \/ NotWritten(r)
      PROVE  JInv'
  BY <1>1, RequestFlow, ReadFlow, MergeFlow, WriteFlow DEF Serve
<1>2. CASE Restart
  BY <1>2, RestartFlow
<1>3. CASE \/ \E d \in Documents, i \in CatalogIds : Select(d, i)
           \/ Analyse \/ Design \/ Freeze \/ Retry \/ Skip \/ UNCHANGED vars
  BY <1>3, FlowKeeps
<1> QED BY <1>1, <1>2, <1>3 DEF Next

\* For any number of requests, imports and restarts: as long as no write raced
\* and no import displaced another operation, what a flow reads is of its
\* document or imported (Superseded and IdFor of the merge, create's check).
THEOREM FlowReadsCorrect == Spec => []FlowReadsItsDocument
<1>1. JInv => FlowReadsItsDocument
  BY DEF JInv, Calm, FlowFits, FlowReadsItsDocument
<1>2. Spec => []JInv
  BY Invariance, JobStarts, JobNext, PTL DEF Spec
<1> QED BY <1>1, <1>2, PTL
=============================================================================
