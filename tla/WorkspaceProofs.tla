-------------------------- MODULE WorkspaceProofs --------------------------
(* Theorems about Workspace for any number of projects, operations,         *)
(* handlers and clicks.  One handler at a time comes first: of the page     *)
(* only its flag busy matters, so that invariant has no types but for the   *)
(* fields it reads.  Then the types, and what ties the page to a project.   *)
(* Last the gate: what is approved and confirmed there is what is shown.    *)
EXTENDS Workspace, FiniteSetTheorems, TLAPS

\* The fields that are read exist.
Shape ==
  /\ "busy" \in DOMAIN page /\ page.busy \in BOOLEAN
  /\ flight = [s \in Slots |-> flight[s]]
  /\ \A s \in Slots : "kind" \in DOMAIN flight[s]
  /\ "overlapped" \in DOMAIN history

\* Two handlers in flight are the same, and the page is busy with it.
Alone ==
  /\ \A s, t \in InFlight(flight) : s = t
  /\ page.busy <=> InFlight(flight) # {}

IInv == Shape /\ (history.overlapped \/ Alone)

\* A page that is written with the flag as it was.
Keeps(w) == "busy" \in DOMAIN w /\ w.busy = page.busy

-----------------------------------------------------------------------------
(* What the effects of React leave of a write.                              *)

LEMMA FollowBusy ==
  ASSUME NEW old, NEW new, "busy" \in DOMAIN new
  PROVE  "busy" \in DOMAIN Follow(old, new) /\ Follow(old, new).busy = new.busy
BY DEF Follow, Reselect

LEMMA RenderedBusy ==
  ASSUME NEW old, NEW w, "busy" \in DOMAIN w
  PROVE  "busy" \in DOMAIN Rendered(old, w) /\ Rendered(old, w).busy = w.busy
<1> DEFINE seen == Follow(old, w)
           loading == Loading(seen)
<1>1. "busy" \in DOMAIN seen /\ seen.busy = w.busy
  BY FollowBusy
<1>2. "busy" \in DOMAIN loading /\ loading.busy = w.busy
  <2> HIDE DEF seen
  <2> QED BY <1>1 DEF Loading, Blank
<1>3. "busy" \in DOMAIN Follow(seen, loading) /\ Follow(seen, loading).busy = w.busy
  <2> HIDE DEF seen, loading
  <2> QED BY <1>2, FollowBusy
<1>4. Rendered(old, w) \in {Follow(seen, loading), seen}
  BY DEF Rendered
<1> QED
  <2> HIDE DEF seen, loading
  <2> QED BY <1>1, <1>3, <1>4

LEMMA Written ==
  ASSUME NEW w, Write(w), "busy" \in DOMAIN w
  PROVE  /\ "busy" \in DOMAIN page' /\ page'.busy = w.busy
         /\ "overlapped" \in DOMAIN history'
         /\ history.overlapped => history'.overlapped
         /\ (InFlight(flight) # {} /\ \E s \in Slots \ InFlight(flight) : flight'[s].kind = "upload")
              => history'.overlapped
BY RenderedBusy DEF Write

\* Blank and the rest of the helpers leave the flag alone.
LEMMA Helpers ==
  ASSUME NEW w, Keeps(w), NEW n, NEW m
  PROVE  /\ Keeps(Blank(w)) /\ Keeps(ResetContext(w))
         /\ Keeps(Shows(w, n)) /\ Keeps(ShowsWorkflow(w, m))
         /\ Keeps(ShowsWorkflow(Shows(w, n), m))
BY DEF Keeps, Blank, ResetContext, Shows, ShowsWorkflow

-----------------------------------------------------------------------------
(* The kinds of steps.                                                      *)

\* A step that starts and ends no handler.
LEMMA Calm ==
  ASSUME IInv, NEW w, Keeps(w), Write(w), UNCHANGED flight
  PROVE  IInv'
BY Written DEF IInv, Shape, Alone, InFlight, Keeps

LEMMA LoadCalm ==
  ASSUME IInv, NEW w, Keeps(w), NEW l, Loads(w, l)
  PROVE  IInv'
<1>1. "busy" \in DOMAIN page' /\ page'.busy = page.busy
  BY RenderedBusy DEF Loads, Keeps
<1>2. "overlapped" \in DOMAIN history' /\ history'.overlapped = history.overlapped
  BY DEF Loads, IInv, Shape
<1> QED BY <1>1, <1>2 DEF Loads, IInv, Shape, Alone, InFlight

\* A handler starts when the page is not busy; an upload may start when it is.
LEMMA Begun ==
  ASSUME IInv, NEW s \in Slots, NEW kind \in Kinds, NEW pc, NEW w, "busy" \in DOMAIN w,
         Begin(s, kind, pc, w), kind = "upload" \/ ~page.busy
  PROVE  IInv'
<1> DEFINE busy == [w EXCEPT !.busy = TRUE]
<1>1. "busy" \in DOMAIN busy /\ busy.busy = TRUE
  OBVIOUS
<1>2. /\ page'.busy = TRUE /\ "busy" \in DOMAIN page'
      /\ "overlapped" \in DOMAIN history'
      /\ history.overlapped => history'.overlapped
      /\ (InFlight(flight) # {} /\ \E t \in Slots \ InFlight(flight) : flight'[t].kind = "upload")
           => history'.overlapped
  <2>1. Write(busy)
    BY DEF Begin
  <2> HIDE DEF busy
  <2> QED BY <1>1, <2>1, Written
<1>3. /\ flight' = [t \in Slots |-> flight'[t]] /\ flight'[s].kind = kind
      /\ "kind" \in DOMAIN flight'[s]
      /\ \A t \in Slots \ {s} : flight'[t] = flight[t]
      /\ s \notin InFlight(flight)
  BY DEF Begin, IInv, Shape
<1>4. kind # None
  BY WorkspaceAssumption DEF WorkspaceAssumption
<1>5. InFlight(flight') = InFlight(flight) \cup {s}
  BY <1>3, <1>4 DEF InFlight
<1>6. history'.overlapped \/ InFlight(flight) = {}
  BY <1>2, <1>3 DEF IInv, Alone
<1> QED BY <1>2, <1>3, <1>5, <1>6 DEF IInv, Shape, Alone

\* A handler awaits its next request.
LEMMA Awaited ==
  ASSUME IInv, NEW s \in Slots, NEW pc, NEW w, Keeps(w), Awaits(s, pc, w)
  PROVE  IInv'
<1>1. /\ flight' = [t \in Slots |-> flight'[t]]
      /\ \A t \in Slots : "kind" \in DOMAIN flight'[t] /\ flight'[t].kind = flight[t].kind
  BY DEF Awaits, IInv, Shape
<1>2. InFlight(flight') = InFlight(flight)
  BY <1>1 DEF InFlight
<1>3. Write(w)
  BY DEF Awaits
<1> QED BY <1>1, <1>2, <1>3, Written DEF IInv, Shape, Alone, Keeps

\* A handler ends with the page no longer busy.
LEMMA Ended ==
  ASSUME IInv, NEW s \in Slots, flight[s].kind # None, NEW w, Keeps(w), Ends(s, w)
  PROVE  IInv'
<1> DEFINE done == [w EXCEPT !.busy = FALSE,
                             !.starting = @ /\ flight[s].kind \notin {"run", "retry"}]
<1>1. "busy" \in DOMAIN done /\ done.busy = FALSE
  BY DEF Keeps
<1>2. Write(done)
  BY DEF Ends
<1>3. /\ page'.busy = FALSE /\ "busy" \in DOMAIN page'
      /\ "overlapped" \in DOMAIN history'
      /\ history.overlapped => history'.overlapped
  <2> HIDE DEF done
  <2> QED BY <1>1, <1>2, Written
<1>4. /\ flight' = [t \in Slots |-> flight'[t]] /\ flight'[s] = Idle
      /\ \A t \in Slots \ {s} : flight'[t] = flight[t]
  BY DEF Ends, IInv, Shape
<1>5. InFlight(flight') = InFlight(flight) \ {s} /\ s \in InFlight(flight)
  BY <1>4 DEF InFlight, Idle
<1>6. \A t \in Slots : "kind" \in DOMAIN flight'[t]
  BY <1>4 DEF IInv, Shape, Idle
<1>7. Shape'
  <2> HIDE DEF done
  <2> QED BY <1>3, <1>4, <1>6 DEF IInv, Shape
<1>8. history'.overlapped \/ Alone'
  <2> HIDE DEF done
  <2> QED BY <1>3, <1>5 DEF IInv, Alone
<1> QED BY <1>7, <1>8 DEF IInv

-----------------------------------------------------------------------------
(* What the user does.                                                      *)

LEMMA AtOnce ==
  ASSUME IInv, \/ \E p \in Projects : SelectProject(p)
               \/ \E op \in Ops : SelectOperation(op) \/ Toggle(op)
               \/ SelectDocument \/ Confirm
  PROVE  IInv'
<1>1. Keeps(page) /\ Keeps(Blank(page)) /\ Keeps(ResetContext(page))
  BY Helpers DEF IInv, Shape, Keeps
<1>2. ASSUME NEW p \in Projects, SelectProject(p) PROVE IInv'
  <2> DEFINE w == [Blank(page) EXCEPT !.project = p, !.sets = {}, !.approval = page.approval]
  <2>1. Keeps(w)
    BY <1>1 DEF Keeps
  <2>2. Write(w) /\ UNCHANGED flight
    BY <1>2 DEF SelectProject
  <2> QED
    <3> HIDE DEF w
    <3> QED BY <2>1, <2>2, Calm
<1>3. ASSUME NEW op \in Ops, SelectOperation(op) PROVE IInv'
  <2> DEFINE w == IF page.chosen = op THEN [page EXCEPT !.chosen = None]
                  ELSE [Blank(page) EXCEPT !.chosen = op, !.parsed = page.ops]
  <2>1. Keeps(w)
    BY <1>1 DEF Keeps
  <2>2. Write(w) /\ UNCHANGED flight
    BY <1>3 DEF SelectOperation
  <2> QED
    <3> HIDE DEF w
    <3> QED BY <2>1, <2>2, Calm
<1>4. CASE SelectDocument
  <2> DEFINE w == [ResetContext(page) EXCEPT !.parsed = page.ops]
  <2>1. Keeps(w)
    BY <1>1 DEF Keeps
  <2>2. Write(w) /\ UNCHANGED flight
    BY <1>4 DEF SelectDocument
  <2> QED
    <3> HIDE DEF w
    <3> QED BY <2>1, <2>2, Calm
<1>5. ASSUME NEW op \in Ops, Toggle(op) PROVE IInv'
  <2> DEFINE w == [page EXCEPT !.approval = NoApproval, !.report = 0, !.confirmed = {},
                     !.selected = IF op \in @ THEN @ \ {op} ELSE @ \cup {op}]
  <2>1. Keeps(w)
    BY <1>1 DEF Keeps
  <2>2. Write(w) /\ UNCHANGED flight
    BY <1>5 DEF Toggle
  <2> QED
    <3> HIDE DEF w
    <3> QED BY <2>1, <2>2, Calm
<1>6. CASE Confirm
  <2> DEFINE w == [page EXCEPT !.confirmed = page.selected \cap SideEffects]
  <2>1. Keeps(w)
    BY <1>1 DEF Keeps
  <2>2. Write(w) /\ UNCHANGED flight
    BY <1>6 DEF Confirm
  <2> QED
    <3> HIDE DEF w
    <3> QED BY <2>1, <2>2, Calm
<1> QED BY <1>2, <1>3, <1>4, <1>5, <1>6

LEMMA Handlers ==
  ASSUME IInv, NEW s \in Slots,
         \/ Run(s) \/ Retry(s) \/ Approve(s) \/ Gate(s) \/ Execute(s)
         \/ Upload(s) \/ Save(s)
  PROVE  IInv'
<1>1. Keeps(page) /\ Keeps(Blank(page)) /\ Keeps(ResetContext(page))
  BY Helpers DEF IInv, Shape, Keeps
<1>2. \E kind \in Kinds : \E pc, w :
        "busy" \in DOMAIN w /\ Begin(s, kind, pc, w) /\ (kind = "upload" \/ ~page.busy)
  <2>1. CASE Run(s)
    <3> DEFINE w == [Blank(page) EXCEPT !.chosen = page.chosen, !.starting = TRUE]
               pc == IF page.parsed # page.project \/ page.ops # page.parsed THEN "ingest" ELSE "create"
    <3>1. "busy" \in DOMAIN w
      BY <1>1 DEF Keeps
    <3>2. Begin(s, "run", pc, w) /\ ~page.busy
      BY <2>1 DEF Run
    <3> QED
      <4> HIDE DEF w, pc
      <4> QED BY <3>1, <3>2 DEF Kinds
  <2>2. CASE Retry(s)
    <3> DEFINE w == [page EXCEPT !.starting = TRUE]
               pc == IF page.status = "FAILED_DESIGN" THEN "retry" ELSE "start"
    <3>1. "busy" \in DOMAIN w
      BY <1>1 DEF Keeps
    <3>2. Begin(s, "retry", pc, w) /\ ~page.busy
      BY <2>2 DEF Retry
    <3> QED
      <4> HIDE DEF w, pc
      <4> QED BY <3>1, <3>2 DEF Kinds
  <2>3. CASE Approve(s)
    BY <2>3, <1>1 DEF Approve, Keeps, Kinds
  <2>4. CASE Gate(s)
    BY <2>4, <1>1 DEF Gate, Keeps, Kinds
  <2>5. CASE Execute(s)
    BY <2>5, <1>1 DEF Execute, Keeps, Kinds
  <2>6. CASE Upload(s)
    <3> DEFINE w == [ResetContext(page) EXCEPT !.parsed = None]
    <3>1. "busy" \in DOMAIN w
      BY <1>1 DEF Keeps
    <3>2. Begin(s, "upload", "parse", w)
      BY <2>6 DEF Upload
    <3> QED
      <4> HIDE DEF w
      <4> QED BY <3>1, <3>2 DEF Kinds
  <2>7. CASE Save(s)
    BY <2>7, <1>1 DEF Save, Keeps, Kinds
  <2> QED BY <2>1, <2>2, <2>3, <2>4, <2>5, <2>6, <2>7
<1> QED BY <1>2, Begun

-----------------------------------------------------------------------------
(* The answers.                                                             *)

\* How every answer goes on.
GoesOn(s) ==
  /\ flight[s].kind # None
  /\ \E w : Keeps(w) /\ (Ends(s, w) \/ \E pc : Awaits(s, pc, w))

LEMMA GoingOn == ASSUME IInv, NEW s \in Slots, GoesOn(s) PROVE IInv'
  BY Awaited, Ended DEF GoesOn

LEMMA Someone ==
  ASSUME NEW s \in Slots, NEW kinds, kinds \subseteq Kinds, NEW pc, At(s, kinds, pc)
  PROVE  flight[s].kind # None
BY WorkspaceAssumption DEF WorkspaceAssumption, At

\* The queue was made: the handler goes on with its number.
LEMMA CreatedKeeps ==
  ASSUME IInv, NEW s \in Slots, Created(s)
  PROVE  IInv'
<1>0. flight[s].kind # None
  BY Someone DEF Created, Kinds
<1>1. CASE Ends(s, page)
  BY <1>0, <1>1, Ended DEF Keeps, IInv, Shape
<1>2. CASE /\ flight' = [flight EXCEPT ![s].pc = "start", ![s].q = Len(queues')]
           /\ Write([page EXCEPT !.queue = Len(queues'), !.status = "PENDING"])
  <2> DEFINE w == [page EXCEPT !.queue = Len(queues'), !.status = "PENDING"]
  <2>1. Keeps(w)
    BY DEF IInv, Shape, Keeps
  <2>2. /\ flight' = [t \in Slots |-> flight'[t]]
        /\ \A t \in Slots : "kind" \in DOMAIN flight'[t] /\ flight'[t].kind = flight[t].kind
    BY <1>2 DEF IInv, Shape
  <2>3. InFlight(flight') = InFlight(flight)
    BY <2>2 DEF InFlight
  <2>4. Write(w)
    BY <1>2
  <2> QED
    <3> HIDE DEF w
    <3> QED BY <2>1, <2>2, <2>3, <2>4, Written DEF IInv, Shape, Alone, Keeps
<1> QED BY <1>1, <1>2 DEF Created

LEMMA Answers ==
  ASSUME IInv, NEW s \in Slots, Answer(s)
  PROVE  IInv'
<1>0. Keeps(page)
  BY DEF IInv, Shape, Keeps
<1>1. CASE Ingested(s)
  <2> DEFINE w == [page EXCEPT !.parsed = flight[s].p, !.ops = flight[s].p]
  <2>1. Keeps(w)
    BY <1>0 DEF Keeps
  <2>2. flight[s].kind # None
    BY <1>1, Someone DEF Ingested, Kinds
  <2>3. Awaits(s, "create", w) \/ Ends(s, w)
    BY <1>1 DEF Ingested
  <2> QED
    <3> HIDE DEF w
    <3> QED BY <2>1, <2>2, <2>3, GoingOn DEF GoesOn
<1>2. CASE Created(s)
  BY <1>2, CreatedKeeps
<1>3. CASE Started(s)
  <2>1. flight[s].kind # None
    BY <1>3, Someone DEF Started, Kinds
  <2> QED BY <1>0, <1>3, <2>1, GoingOn DEF GoesOn, Started
<1>4. CASE StartAnswered(s)
  <2> DEFINE w == [ShowsWorkflow(Shows(page, flight[s].q), flight[s].q) EXCEPT
                     !.chosen = IF flight[s].kind = "run" THEN flight[s].op ELSE @]
  <2>1. Keeps(w)
    BY <1>0, Helpers DEF Keeps
  <2>2. flight[s].kind # None
    BY <1>4, Someone DEF StartAnswered, Kinds
  <2>3. Ends(s, w)
    BY <1>4 DEF StartAnswered
  <2> QED
    <3> HIDE DEF w
    <3> QED BY <2>1, <2>2, <2>3, GoingOn DEF GoesOn
<1>5. CASE StartFails(s)
  <2>1. flight[s].kind # None
    BY <1>5, Someone DEF StartFails, Kinds
  <2> QED BY <1>0, <1>5, <2>1, GoingOn DEF GoesOn, StartFails
<1>6. CASE Resumed(s)
  <2> DEFINE w == [page EXCEPT !.queue = flight[s].q, !.status = "RUNNING_DESIGN",
                               !.wf = flight[s].q, !.phase = "designing"]
  <2>1. Keeps(w)
    BY <1>0 DEF Keeps
  <2>2. flight[s].kind # None
    BY <1>6, Someone DEF Resumed, Kinds
  <2>3. Awaits(s, "poll", w) \/ Ends(s, page) \/ Awaits(s, "refresh", page)
    BY <1>6 DEF Resumed
  <2> QED
    <3> HIDE DEF w
    <3> QED BY <1>0, <2>1, <2>2, <2>3, GoingOn DEF GoesOn
<1>7. CASE Polled(s)
  <2> DEFINE n == flight[s].q
             w == IF flight[s].kind # "approve" THEN Shows(page, n)
                  ELSE IF StatusOf(n) \in Settled THEN [Shows(page, n) EXCEPT !.chosen = queues[n].op]
                  ELSE page
  <2>1. Keeps(w)
    BY <1>0, Helpers DEF Keeps
  <2>2. flight[s].kind # None
    BY <1>7, Someone DEF Polled, Kinds
  <2>3. Ends(s, w) \/ \E pc : Awaits(s, pc, w)
    BY <1>7 DEF Polled
  <2> QED
    <3> HIDE DEF w
    <3> QED BY <2>1, <2>2, <2>3, GoingOn DEF GoesOn
<1>8. CASE CasesRead(s)
  <2> DEFINE cases == Completed(flight[s].p)
             w == [page EXCEPT !.sets = cases, !.selected = cases, !.chosen = None]
  <2>1. Keeps(w)
    BY <1>0 DEF Keeps
  <2>2. flight[s].kind # None
    BY <1>8, Someone DEF CasesRead, Kinds
  <2>3. Ends(s, w)
    BY <1>8 DEF CasesRead
  <2> QED
    <3> HIDE DEF w
    <3> QED BY <2>1, <2>2, <2>3, GoingOn DEF GoesOn
<1>9. CASE WorkflowRead(s)
  <2> DEFINE w == [ShowsWorkflow(page, flight[s].q) EXCEPT !.chosen = queues[flight[s].q].op]
  <2>1. Keeps(w)
    BY <1>0, Helpers DEF Keeps
  <2>2. flight[s].kind # None
    BY <1>9, Someone DEF WorkflowRead, Kinds
  <2>3. Ends(s, w)
    BY <1>9 DEF WorkflowRead
  <2> QED
    <3> HIDE DEF w
    <3> QED BY <2>1, <2>2, <2>3, GoingOn DEF GoesOn
<1>10. CASE Refreshed(s)
  <2>1. PICK answered \in BOOLEAN : Ends(s, IF answered THEN Shows(page, flight[s].q) ELSE page)
    BY <1>10 DEF Refreshed
  <2>2. Keeps(IF answered THEN Shows(page, flight[s].q) ELSE page)
    BY <1>0, Helpers
  <2>3. flight[s].kind # None
    BY <1>10, Someone DEF Refreshed, Kinds
  <2> QED BY <2>1, <2>2, <2>3, GoingOn DEF GoesOn
<1>11. CASE GateAnswered(s)
  <2> DEFINE w == [page EXCEPT !.approval = [of |-> flight[s].p, cases |-> flight[s].cases]]
  <2>1. Keeps(w)
    BY <1>0 DEF Keeps
  <2>2. flight[s].kind # None
    BY <1>11, Someone DEF GateAnswered, Kinds
  <2>3. Ends(s, w)
    BY <1>11 DEF GateAnswered
  <2> QED
    <3> HIDE DEF w
    <3> QED BY <2>1, <2>2, <2>3, GoingOn DEF GoesOn
<1>12. CASE Executed(s)
  <2> DEFINE w(answered) == [page EXCEPT !.approval = NoApproval,
                                         !.report = IF answered THEN Len(runs') ELSE @]
  <2>1. PICK answered \in BOOLEAN : Ends(s, w(answered))
    BY <1>12 DEF Executed
  <2>2. Keeps(w(answered))
    BY <1>0 DEF Keeps
  <2>3. flight[s].kind # None
    BY <1>12, Someone DEF Executed, Kinds
  <2> QED
    <3> HIDE DEF w
    <3> QED BY <2>1, <2>2, <2>3, GoingOn DEF GoesOn
<1>13. CASE Uploaded(s)
  <2> DEFINE w == [page EXCEPT !.parsed = flight[s].p, !.ops = flight[s].p, !.chosen = None]
  <2>1. Keeps(w)
    BY <1>0 DEF Keeps
  <2>2. flight[s].kind # None
    BY <1>13, Someone DEF Uploaded, Kinds
  <2>3. Ends(s, w)
    BY <1>13 DEF Uploaded
  <2> QED
    <3> HIDE DEF w
    <3> QED BY <2>1, <2>2, <2>3, GoingOn DEF GoesOn
<1>14. CASE Saved(s)
  <2> DEFINE w == [page EXCEPT !.project = flight[s].p]
  <2>1. Keeps(w)
    BY <1>0 DEF Keeps
  <2>2. flight[s].kind # None
    BY <1>14, Someone DEF Saved, Kinds
  <2>3. Awaits(s, "auth", w) \/ Ends(s, page)
    BY <1>14 DEF Saved
  <2> QED
    <3> HIDE DEF w
    <3> QED BY <1>0, <2>1, <2>2, <2>3, GoingOn DEF GoesOn
<1>15. CASE Fails(s)
  <2> DEFINE w == IF flight[s].kind = "execute" THEN [page EXCEPT !.approval = NoApproval] ELSE page
  <2>1. Keeps(w)
    BY <1>0 DEF Keeps
  <2>2. flight[s].kind # None /\ (Awaits(s, "refresh", page) \/ Ends(s, w))
    BY <1>15 DEF Fails
  <2> QED
    <3> HIDE DEF w
    <3> QED BY <1>0, <2>1, <2>2, GoingOn DEF GoesOn
<1> QED
  BY <1>1, <1>2, <1>3, <1>4, <1>5, <1>6, <1>7, <1>8, <1>9, <1>10, <1>11, <1>12, <1>13,
     <1>14, <1>15 DEF Answer

-----------------------------------------------------------------------------
(* The rest of Next.                                                        *)

\* Neither the loader, the restorer nor the backend touches a handler.
LEMMA Effects ==
  ASSUME IInv, \/ LoadReads \/ LoadDelivers \/ LoadEnds \/ LoadFails \/ Restored
               \/ \E n \in DOMAIN queues : ServerSettles(n)
  PROVE  IInv'
<1>0. Keeps(page)
  BY DEF IInv, Shape, Keeps
<1>1. CASE LoadReads \/ \E n \in DOMAIN queues : ServerSettles(n)
  BY <1>1 DEF LoadReads, ServerSettles, IInv, Shape, Alone, InFlight
<1>2. CASE LoadDelivers
  <2> DEFINE w == [page EXCEPT !.ops = page.project, !.sets = load.sets,
                               !.parsed = IF load.q = 0 THEN page.project ELSE @]
  <2>1. Keeps(w)
    BY <1>0 DEF Keeps
  <2>2. \E l : Loads(w, l)
    BY <1>2 DEF LoadDelivers
  <2> QED
    <3> HIDE DEF w
    <3> QED BY <2>1, <2>2, LoadCalm
<1>3. CASE LoadEnds
  <2> DEFINE n == load.q
  <2>0. PICK document \in BOOLEAN, workflow \in BOOLEAN :
          LET v == IF workflow /\ PhaseAt(load.status) # None THEN ShowsWorkflow(page, n)
                   ELSE [page EXCEPT !.wf = 0, !.phase = None]
          IN  Loads([v EXCEPT !.queue = n, !.status = load.status, !.chosen = queues[n].op,
                              !.parsed = IF document THEN page.project ELSE @], NoLoad)
    BY <1>3 DEF LoadEnds
  <2> DEFINE v == IF workflow /\ PhaseAt(load.status) # None THEN ShowsWorkflow(page, n)
                  ELSE [page EXCEPT !.wf = 0, !.phase = None]
             w == [v EXCEPT !.queue = n, !.status = load.status, !.chosen = queues[n].op,
                            !.parsed = IF document THEN page.project ELSE @]
  <2>1. Keeps(w)
    <3>1. Keeps(v)
      BY <1>0, Helpers DEF Keeps
    <3> HIDE DEF v
    <3> QED BY <3>1 DEF Keeps
  <2>2. \E l : Loads(w, l)
    BY <2>0
  <2> QED
    <3> HIDE DEF w
    <3> QED BY <2>1, <2>2, LoadCalm
<1>4. CASE LoadFails
  BY <1>0, <1>4, LoadCalm DEF LoadFails
<1>5. CASE Restored
  <2>1. "busy" \in DOMAIN page' /\ page'.busy = page.busy
    BY <1>5 DEF Restored, IInv, Shape
  <2> QED BY <1>5, <2>1 DEF Restored, IInv, Shape, Alone, InFlight
<1> QED BY <1>1, <1>2, <1>3, <1>4, <1>5

\* The page opens with no handler in flight and busy off.
THEOREM InitHolds == Init => IInv
  BY DEF Init, IInv, Shape, Alone, InFlight, Idle

\* No click, answer, effect or step of the backend breaks the invariant.
THEOREM NextKeeps == IInv /\ [Next]_vars => IInv'
<1> SUFFICES ASSUME IInv, [Next]_vars PROVE IInv'
  OBVIOUS
<1>1. CASE User
  BY <1>1, AtOnce, Handlers DEF User
<1>2. CASE \E s \in Slots : Answer(s)
  BY <1>2, Answers
<1>3. CASE \/ LoadReads \/ LoadDelivers \/ LoadEnds \/ LoadFails \/ Restored
           \/ \E n \in DOMAIN queues : ServerSettles(n)
  BY <1>3, Effects
<1>4. CASE UNCHANGED vars
  BY <1>4 DEF vars, IInv, Shape, Alone, InFlight
<1> QED BY <1>1, <1>2, <1>3, <1>4 DEF Next

\* For any number of projects, operations and handlers: while a handler is in
\* flight the page is busy, and no second one is in flight unless a file was
\* uploaded over another handler.
THEOREM OneHandlerCorrect == Spec => []OneHandlerAtATime
<1>1. IInv => OneHandlerAtATime
  <2> SUFFICES ASSUME IInv, ~history.overlapped PROVE OneHandlerAtATime
    BY DEF OneHandlerAtATime
  <2>1. InFlight(flight) = {} \/ \E s : InFlight(flight) = {s}
    BY DEF IInv, Alone
  <2>2. Cardinality(InFlight(flight)) <= 1
    <3>1. CASE InFlight(flight) = {}
      BY <3>1, FS_EmptySet
    <3>2. ASSUME NEW s, InFlight(flight) = {s} PROVE Cardinality(InFlight(flight)) <= 1
      <4>1. Cardinality({s}) = 1
        BY FS_Singleton
      <4> QED BY <3>2, <4>1
    <3> QED BY <2>1, <3>1, <3>2
  <2> QED BY <2>2 DEF OneHandlerAtATime, IInv, Alone
<1> QED BY <1>1, InitHolds, NextKeeps, PTL DEF Spec

-----------------------------------------------------------------------------
(* What the page shows belongs to its project.  The invariant types         *)
(* everything, because a page that refers to a queue shows what is there.   *)

OpsIn(p) == {op \in Ops : ProjectOf[op] = p}

\* A page over queues qs and executions rs.
Legal(w, qs, rs) ==
  /\ w \in Page
  /\ w.queue \in {0} \cup DOMAIN qs /\ w.wf \in {0} \cup DOMAIN qs
  /\ w.report \in {0} \cup DOMAIN rs
  /\ w.status # None => w.queue # 0

\* Nothing is selected where nothing is shown.
NoGhosts(w) == w.sets = {} => w.selected = {}

Consistent(w, qs, rs) ==
  /\ w.ops \in {w.project, None} /\ w.parsed \in {w.project, None}
  /\ w.sets \cup w.selected \cup w.approval.cases \subseteq OpsIn(w.project)
  /\ w.chosen # None => ProjectOf[w.chosen] = w.project
  /\ w.queue # 0 => qs[w.queue].p = w.project
  /\ w.wf # 0 => qs[w.wf].p = w.project
  /\ w.report # 0 => rs[w.report].p = w.project

\* Requests that are about the handler's queue.
Later == {"start", "started", "approve", "retry", "poll", "cases", "workflow", "refresh"}

Captured(s) ==
  /\ flight[s] \in Flight
  /\ flight[s].q \in {0} \cup DOMAIN queues
  /\ flight[s].kind # None => flight[s].p # None
  /\ flight[s].kind = "run" => flight[s].op # None
  /\ flight[s].kind # None /\ flight[s].pc \in Later => flight[s].q # 0

CapturedHere(s) ==
  flight[s].kind # None =>
    /\ flight[s].p = page.project
    /\ flight[s].q # 0 => queues[flight[s].q].p = page.project
    /\ flight[s].op # None => ProjectOf[flight[s].op] = page.project
    /\ flight[s].cases \subseteq OpsIn(page.project)

LoadFits ==
  /\ load \in [pc : {"off", "read", "deliver", "second"}, q : Numbers,
                status : Statuses \cup {None}, sets : SUBSET Ops]
  /\ load.q \in {0} \cup DOMAIN queues
  /\ load.pc \in {"deliver", "second"} =>
       load.sets \subseteq OpsIn(page.project) /\ (load.q # 0 => queues[load.q].p = page.project)
  /\ load.pc = "second" => load.q # 0

Backend ==
  /\ queues \in Seq(Queue) /\ Len(queues) <= MaxQueues
  /\ \A n \in DOMAIN queues : ProjectOf[queues[n].op] = queues[n].p
  /\ runs \in Seq([p : Projects, q : Numbers]) /\ Len(runs) <= MaxRuns

Histories ==
  /\ clicks \in 0..MaxClicks
  /\ restore \in Numbers /\ restore \in {0} \cup DOMAIN queues
  /\ history \in [crossed : BOOLEAN, overlapped : BOOLEAN, moved : BOOLEAN, hasty : BOOLEAN]

TInv ==
  /\ Backend /\ Histories /\ LoadFits
  /\ Legal(page, queues, runs) /\ NoGhosts(page)
  /\ flight \in [Slots -> Flight] /\ \A s \in Slots : Captured(s)
  /\ ~history.crossed => Consistent(page, queues, runs) /\ \A s \in Slots : CapturedHere(s)

-----------------------------------------------------------------------------
(* What a write leaves.                                                     *)

LEMMA BlankPage ==
  ASSUME NEW w \in Page, NEW qs, NEW rs, Legal(w, qs, rs)
  PROVE  /\ Legal(Blank(w), qs, rs) /\ Blank(w).project = w.project
         /\ Blank(w).sets = w.sets /\ Blank(w).selected = w.selected
         /\ Blank(w).confirmed = w.confirmed /\ Blank(w).busy = w.busy
         /\ Blank(w).ops = w.ops /\ Blank(w).parsed = w.parsed
         /\ Blank(w).chosen = None /\ Blank(w).queue = 0 /\ Blank(w).wf = 0
         /\ Blank(w).status = None /\ Blank(w).phase = None
         /\ Blank(w).approval = NoApproval /\ Blank(w).report = 0 /\ Blank(w).starting = FALSE
<1>1. 0 \in Numbers /\ 0 \in 0..MaxRuns
  BY WorkspaceAssumption DEF WorkspaceAssumption, Numbers
<1>2. Blank(w) \in Page
  BY <1>1 DEF Blank, Page, NoApproval
<1>3. /\ Blank(w).project = w.project
      /\ Blank(w).sets = w.sets /\ Blank(w).selected = w.selected
      /\ Blank(w).confirmed = w.confirmed /\ Blank(w).busy = w.busy
      /\ Blank(w).ops = w.ops /\ Blank(w).parsed = w.parsed
  BY DEF Blank, Page
<1>4. /\ Blank(w).chosen = None /\ Blank(w).queue = 0 /\ Blank(w).wf = 0
      /\ Blank(w).status = None /\ Blank(w).phase = None
      /\ Blank(w).approval = NoApproval /\ Blank(w).report = 0 /\ Blank(w).starting = FALSE
  BY DEF Blank, Page
<1> QED BY <1>2, <1>3, <1>4 DEF Legal

LEMMA ReselectPage ==
  ASSUME NEW w, NEW qs, NEW rs, Legal(w, qs, rs)
  PROVE  /\ Legal(Reselect(w), qs, rs) /\ NoGhosts(Reselect(w))
         /\ Reselect(w).project = w.project /\ Reselect(w).sets = w.sets
         /\ Consistent(w, qs, rs) => Consistent(Reselect(w), qs, rs)
<1>0. 0 \in 0..MaxRuns
  BY WorkspaceAssumption DEF WorkspaceAssumption
<1>1. Reselect(w) \in Page
  BY <1>0 DEF Reselect, Legal, Page, NoApproval
<1>2. /\ Reselect(w).project = w.project /\ Reselect(w).sets = w.sets
      /\ Reselect(w).selected = w.sets /\ Reselect(w).queue = w.queue /\ Reselect(w).wf = w.wf
      /\ Reselect(w).report = 0 /\ Reselect(w).status = w.status
      /\ Reselect(w).approval = NoApproval /\ Reselect(w).ops = w.ops
      /\ Reselect(w).parsed = w.parsed /\ Reselect(w).chosen = w.chosen
  BY DEF Reselect, Legal, Page
<1> QED BY <1>1, <1>2 DEF Legal, NoGhosts, Consistent, NoApproval

LEMMA FollowPage ==
  ASSUME NEW old \in Page, NEW w, NEW qs, NEW rs, Legal(w, qs, rs),
         NoGhosts(w) \/ old.sets # {}
  PROVE  /\ Legal(Follow(old, w), qs, rs) /\ NoGhosts(Follow(old, w))
         /\ Follow(old, w).project = w.project /\ Follow(old, w).sets = w.sets
         /\ Consistent(w, qs, rs) => Consistent(Follow(old, w), qs, rs)
<1>1. CASE Keys(old) # Keys(w)
  BY <1>1, ReselectPage DEF Follow
<1>2. CASE Keys(old) = Keys(w)
  <2>1. Follow(old, w) = w
    BY <1>2 DEF Follow
  <2>2. NoGhosts(w)
    <3> SUFFICES ASSUME w.sets = {}, old.sets # {} PROVE FALSE
      BY DEF NoGhosts
    <3>1. Cardinality(w.sets) = Cardinality(old.sets)
      BY <1>2 DEF Keys
    <3>2. IsFiniteSet(old.sets)
      BY FS_Subset, WorkspaceAssumption DEF WorkspaceAssumption, Page
    <3> QED BY <3>1, <3>2, FS_EmptySet
  <2> QED BY <2>1, <2>2
<1> QED BY <1>1, <1>2

\* After a change of the project the page shows nothing.
LEMMA LoadingPage ==
  ASSUME NEW w, NEW qs, NEW rs, Legal(w, qs, rs)
  PROVE  /\ Legal(Loading(w), qs, rs) /\ Loading(w).project = w.project
         /\ Loading(w).sets = {} /\ Loading(w).selected = w.selected
         /\ w.selected = {} => Consistent(Loading(w), qs, rs)
         /\ Loading(w).ops = None /\ Loading(w).parsed = None /\ Loading(w).chosen = None
         /\ Loading(w).queue = 0 /\ Loading(w).wf = 0 /\ Loading(w).report = 0
         /\ Loading(w).approval = NoApproval
<1> DEFINE b == Blank(w)
           l == [b EXCEPT !.sets = {}, !.ops = None, !.parsed = None]
<1>1. /\ Legal(b, qs, rs) /\ b.project = w.project /\ b.selected = w.selected
      /\ b.chosen = None /\ b.queue = 0 /\ b.wf = 0 /\ b.report = 0
      /\ b.status = None /\ b.approval = NoApproval
  BY BlankPage DEF Legal
<1>2. Loading(w) = l
  BY DEF Loading
<1> HIDE DEF b
<1>3. l \in Page
  BY <1>1 DEF Legal, Page
<1>4. /\ l.project = w.project /\ l.sets = {} /\ l.selected = w.selected
      /\ l.ops = None /\ l.parsed = None /\ l.chosen = None /\ l.queue = 0 /\ l.wf = 0
      /\ l.report = 0 /\ l.status = None /\ l.approval = NoApproval
  BY <1>1 DEF Legal, Page
<1> HIDE DEF l
<1> QED BY <1>2, <1>3, <1>4 DEF Legal, Consistent, NoApproval

LEMMA RenderedPage ==
  ASSUME NEW old \in Page, NEW w, NEW qs, NEW rs, Legal(w, qs, rs),
         NoGhosts(w) \/ old.sets # {}
  PROVE  /\ Legal(Rendered(old, w), qs, rs) /\ NoGhosts(Rendered(old, w))
         /\ Rendered(old, w).project = w.project
         /\ w.project # old.project \/ Consistent(w, qs, rs) => Consistent(Rendered(old, w), qs, rs)
<1> DEFINE seen == Follow(old, w)
           cleared == Loading(seen)
           last == Follow(seen, cleared)
<1>1. /\ Legal(seen, qs, rs) /\ NoGhosts(seen) /\ seen.project = w.project /\ seen.sets = w.sets
      /\ Consistent(w, qs, rs) => Consistent(seen, qs, rs)
  BY FollowPage
<1>2. Rendered(old, w) = IF w.project # old.project THEN last ELSE seen
  BY DEF Rendered
<1> HIDE DEF seen
<1>3. /\ Legal(cleared, qs, rs) /\ cleared.project = w.project /\ cleared.sets = {}
      /\ cleared.selected = seen.selected
      /\ cleared.ops = None /\ cleared.parsed = None /\ cleared.chosen = None
      /\ cleared.queue = 0 /\ cleared.wf = 0 /\ cleared.report = 0 /\ cleared.approval = NoApproval
  BY <1>1, LoadingPage
<1> HIDE DEF cleared
<1>4. NoGhosts(cleared) \/ seen.sets # {}
  BY <1>1, <1>3 DEF NoGhosts
<1>5. seen \in Page
  BY <1>1 DEF Legal
<1>6. /\ Legal(last, qs, rs) /\ NoGhosts(last) /\ last.project = w.project /\ last.sets = {}
  BY <1>3, <1>4, <1>5, FollowPage
<1>7. Consistent(last, qs, rs)
  <2>1. CASE Keys(seen) # Keys(cleared)
    <3>1. last = Reselect(cleared)
      BY <2>1 DEF Follow
    <3>2. /\ last.ops = None /\ last.parsed = None /\ last.chosen = None /\ last.queue = 0
          /\ last.wf = 0 /\ last.report = 0 /\ last.approval = NoApproval /\ last.selected = {}
      BY <1>3, <3>1 DEF Reselect, Legal, Page
    <3> QED BY <1>6, <3>2 DEF Consistent, NoApproval
  <2>2. CASE Keys(seen) = Keys(cleared)
    <3>1. last = cleared
      BY <2>2 DEF Follow
    <3>2. cleared.selected = {}
      BY <1>3, <1>6, <3>1 DEF NoGhosts
    <3> QED BY <1>3, <3>1, <3>2 DEF Consistent, NoApproval
  <2> QED BY <2>1, <2>2
<1> HIDE DEF last
<1> QED BY <1>1, <1>2, <1>6, <1>7

-----------------------------------------------------------------------------
(* Queues and executions are added and never taken away.                    *)

Grows(qs, rs, more, runs2) ==
  /\ DOMAIN qs \subseteq DOMAIN more /\ DOMAIN rs \subseteq DOMAIN runs2
  /\ \A n \in DOMAIN qs : more[n].p = qs[n].p /\ more[n].op = qs[n].op
  /\ \A n \in DOMAIN rs : runs2[n] = rs[n]

LEMMA LegalGrows ==
  ASSUME NEW w, NEW qs, NEW rs, NEW more, NEW runs2, Grows(qs, rs, more, runs2)
  PROVE  /\ Legal(w, qs, rs) => Legal(w, more, runs2)
         /\ Legal(w, qs, rs) /\ Consistent(w, qs, rs) => Consistent(w, more, runs2)
BY DEF Grows, Legal, Consistent

\* Queue n of the backend changes its status.
LEMMA BecomesGrows ==
  ASSUME Backend, NEW n \in DOMAIN queues, NEW st \in Statuses, Becomes(n, st), UNCHANGED runs
  PROVE  Backend' /\ Grows(queues, runs, queues', runs')
<1>1. /\ queues \in Seq(Queue) /\ DOMAIN queues = 1..Len(queues) /\ Len(queues) \in Nat
      /\ \A m \in DOMAIN queues : queues[m] \in Queue
  BY DEF Backend
<1>2. /\ queues' \in Seq(Queue) /\ Len(queues') = Len(queues) /\ DOMAIN queues' = DOMAIN queues
      /\ \A m \in DOMAIN queues : queues'[m].p = queues[m].p /\ queues'[m].op = queues[m].op
  <2>1. queues' = [queues EXCEPT ![n].status = st]
    BY DEF Becomes
  <2>2. [queues[n] EXCEPT !.status = st] \in Queue
    BY <1>1 DEF Queue
  <2>3. queues' = [queues EXCEPT ![n] = [queues[n] EXCEPT !.status = st]]
    BY <2>1
  <2>4. queues' \in Seq(Queue) /\ Len(queues') = Len(queues) /\ DOMAIN queues' = DOMAIN queues
    BY <1>1, <2>2, <2>3
  <2>5. ASSUME NEW m \in DOMAIN queues
        PROVE  queues'[m].p = queues[m].p /\ queues'[m].op = queues[m].op
    BY <1>1, <2>3 DEF Queue
  <2> QED BY <2>4, <2>5
<1> QED BY <1>2 DEF Backend, Grows

LEMMA SameBackend ==
  ASSUME Backend, UNCHANGED server
  PROVE  Backend' /\ Grows(queues, runs, queues', runs')
BY DEF Backend, Grows, server

LEMMA CapturedGrows ==
  ASSUME NEW s, Captured(s), Grows(queues, runs, queues', runs'), flight'[s] = flight[s]
  PROVE  /\ Captured(s)'
         /\ page'.project = page.project /\ CapturedHere(s) => CapturedHere(s)'
<1>1. Captured(s)'
  BY DEF Captured, Grows
<1>2. ASSUME page'.project = page.project, CapturedHere(s) PROVE CapturedHere(s)'
  BY <1>2 DEF CapturedHere, Captured, Grows
<1> QED BY <1>1, <1>2

-----------------------------------------------------------------------------
(* The kinds of steps again.                                                *)

\* What is asked of the page a step writes.
Fine(w) ==
  /\ Legal(w, queues', runs')
  /\ NoGhosts(w) \/ page.sets # {}
  /\ ~history.crossed /\ w.project = page.project => Consistent(w, queues', runs')

\* What a write leaves, apart from the handlers.
LEMMA Put ==
  ASSUME TInv, NEW w, Fine(w), Write(w), Backend', Grows(queues, runs, queues', runs'),
         clicks' \in 0..MaxClicks
  PROVE  /\ Histories' /\ LoadFits'
         /\ Legal(page, queues, runs)' /\ NoGhosts(page)'
         /\ page'.project = w.project
         /\ ~history'.crossed => ~history.crossed /\ Consistent(page, queues, runs)'
         /\ history'.crossed <=> history.crossed \/ (w.project # page.project /\ InFlight(flight') # {})
<1>1. page \in Page /\ page' = Rendered(page, w)
  BY DEF Write, TInv, Legal
<1>2. /\ Legal(page', queues', runs') /\ NoGhosts(page') /\ page'.project = w.project
      /\ w.project # page.project \/ Consistent(w, queues', runs') => Consistent(page', queues', runs')
  BY <1>1, RenderedPage DEF Fine
<1>3. history' \in [crossed : BOOLEAN, overlapped : BOOLEAN, moved : BOOLEAN, hasty : BOOLEAN]
  BY DEF Write, TInv, Histories
<1>4. history'.crossed = (history.crossed \/ (page'.project # page.project /\ InFlight(flight') # {}))
  BY DEF Write
<1>5. restore' \in Numbers /\ restore' \in {0} \cup DOMAIN queues'
  <2>1. restore' \in {restore, 0, page'.queue}
    BY DEF Write
  <2>2. restore \in Numbers /\ restore \in {0} \cup DOMAIN queues'
    BY DEF TInv, Histories, Grows
  <2>3. page'.queue \in Numbers /\ page'.queue \in {0} \cup DOMAIN queues'
    BY <1>2 DEF Legal, Page
  <2>4. 0 \in Numbers
    BY WorkspaceAssumption DEF WorkspaceAssumption, Numbers
  <2> QED BY <2>1, <2>2, <2>3, <2>4
<1>6. LoadFits'
  <2>1. CASE w.project = page.project
    <3>1. load' = load /\ page'.project = page.project
      BY <1>2, <2>1 DEF Write
    <3> QED BY <3>1 DEF TInv, LoadFits, Grows
  <2>2. CASE w.project # page.project
    <3>1. load' = [NoLoad EXCEPT !.pc = "read"]
      BY <2>2 DEF Write
    <3>2. load' = [pc |-> "read", q |-> 0, status |-> None, sets |-> {}]
      BY <3>1 DEF NoLoad
    <3> QED BY <3>2, WorkspaceAssumption DEF LoadFits, WorkspaceAssumption, Numbers
  <2> QED BY <2>1, <2>2
<1>7. ~history'.crossed => ~history.crossed /\ Consistent(page', queues', runs')
  BY <1>2, <1>4 DEF Fine
<1> QED BY <1>2, <1>3, <1>4, <1>5, <1>6, <1>7 DEF Histories

\* A step that starts and ends no handler.
LEMMA CalmPage ==
  ASSUME TInv, NEW w, Fine(w), Write(w), UNCHANGED <<flight, server>>, clicks' \in 0..MaxClicks
  PROVE  TInv'
<1>1. Backend' /\ Grows(queues, runs, queues', runs')
  BY SameBackend DEF TInv
<1>2. /\ Histories' /\ LoadFits'
      /\ Legal(page, queues, runs)' /\ NoGhosts(page)'
      /\ page'.project = w.project
      /\ ~history'.crossed => ~history.crossed /\ Consistent(page, queues, runs)'
      /\ history'.crossed <=> history.crossed \/ (w.project # page.project /\ InFlight(flight') # {})
  BY <1>1, Put
<1>3. \A s \in Slots : Captured(s)'
  BY <1>1, CapturedGrows DEF TInv
<1>4. ASSUME ~history'.crossed, NEW s \in Slots PROVE CapturedHere(s)'
  <2>1. CASE w.project = page.project
    <3>1. CapturedHere(s)
      BY <1>2, <1>4 DEF TInv
    <3> QED BY <1>1, <1>2, <2>1, <3>1, CapturedGrows DEF TInv
  <2>2. CASE w.project # page.project
    <3>1. InFlight(flight') = {}
      BY <1>2, <1>4, <2>2
    <3> QED BY <3>1 DEF CapturedHere, InFlight
  <2> QED BY <2>1, <2>2
<1> QED BY <1>1, <1>2, <1>3, <1>4 DEF TInv

\* A handler starts with what the page shows.
LEMMA BegunPage ==
  ASSUME TInv, NEW s \in Slots, NEW kind \in Kinds, NEW pc \in Requests, NEW w,
         Legal(w, queues, runs), NoGhosts(w) \/ page.sets # {}, w.project = page.project,
         Consistent(page, queues, runs) => Consistent(w, queues, runs),
         Begin(s, kind, pc, w), kind = "run" => page.chosen # None,
         pc \in Later => page.queue # 0
  PROVE  TInv'
<1> DEFINE busy == [w EXCEPT !.busy = TRUE]
           f == [kind |-> kind, pc |-> pc, p |-> page.project, q |-> page.queue,
                 op |-> page.chosen, wf |-> page.wf, cases |-> CasesOf(kind)]
<1>1. Backend' /\ Grows(queues, runs, queues', runs') /\ queues' = queues /\ runs' = runs
  BY SameBackend DEF TInv, Begin, server
<1>2. Fine(busy)
  <2>1. Legal(busy, queues, runs)
    BY DEF Legal, Page
  <2>2. busy.sets = w.sets /\ busy.selected = w.selected /\ busy.project = w.project
    BY DEF Legal, Page
  <2>3. Consistent(w, queues, runs) => Consistent(busy, queues, runs)
    BY DEF Consistent, Legal, Page
  <2> HIDE DEF busy
  <2> QED BY <1>1, <2>1, <2>2, <2>3 DEF Fine, NoGhosts, TInv
<1>3. Write(busy) /\ clicks' \in 0..MaxClicks
  <2>1. Write(busy)
    BY DEF Begin
  <2>2. clicks' \in 0..MaxClicks
    BY WorkspaceAssumption DEF Begin, Click, TInv, Histories, WorkspaceAssumption
  <2> QED BY <2>1, <2>2
<1>4. busy.project = page.project
  BY DEF Legal, Page
<1>5. flight' = [flight EXCEPT ![s] = f]
  BY DEF Begin
<1> HIDE DEF busy
<1>6. /\ Histories' /\ LoadFits'
      /\ Legal(page, queues, runs)' /\ NoGhosts(page)'
      /\ page'.project = page.project
      /\ ~history'.crossed => ~history.crossed /\ Consistent(page, queues, runs)'
  BY <1>1, <1>2, <1>3, <1>4, Put
<1>7. f \in Flight
  BY DEF TInv, Legal, Page, Flight, CasesOf
<1>8. f.kind = kind /\ f.pc = pc /\ f.p = page.project /\ f.q = page.queue /\ f.op = page.chosen
      /\ f.cases \in {page.approval.cases, page.selected, {}}
  BY DEF CasesOf
<1> HIDE DEF f
<1>9. flight' \in [Slots -> Flight] /\ flight'[s] = f /\ \A t \in Slots \ {s} : flight'[t] = flight[t]
  BY <1>5, <1>7 DEF TInv
<1>10. \A t \in Slots : Captured(t)'
  <2>1. Captured(s)'
    <3>1. page.queue \in {0} \cup DOMAIN queues /\ page.project # None
      BY WorkspaceAssumption DEF WorkspaceAssumption, TInv, Legal, Page
    <3> QED BY <1>1, <1>7, <1>8, <1>9, <3>1 DEF Captured
  <2>2. \A t \in Slots \ {s} : Captured(t)'
    BY <1>1, <1>9, CapturedGrows DEF TInv
  <2> QED BY <2>1, <2>2
<1>11. ASSUME ~history'.crossed, NEW t \in Slots PROVE CapturedHere(t)'
  <2>1. Consistent(page, queues, runs) /\ CapturedHere(t) /\ Captured(t)
    BY <1>6, <1>11 DEF TInv
  <2>2. CASE t = s
    BY <1>1, <1>6, <1>8, <1>9, <2>1, <2>2 DEF CapturedHere, Consistent
  <2>3. CASE t # s
    BY <1>1, <1>6, <1>9, <2>1, <2>3, CapturedGrows
  <2> QED BY <2>2, <2>3
<1> QED BY <1>1, <1>6, <1>9, <1>10, <1>11 DEF TInv

\* An answer: the handler awaits its next request, or ends.
LEMMA AnsweredPage ==
  ASSUME TInv, NEW s \in Slots, flight[s].kind # None, NEW w, Fine(w),
         Backend', Grows(queues, runs, queues', runs'), NoClick,
         \/ Ends(s, w) /\ w.project = page.project
         \/ \E pc \in Requests : Awaits(s, pc, w) /\ (pc \in Later => flight[s].q # 0)
  PROVE  TInv'
<1>0. clicks' \in 0..MaxClicks
  BY DEF NoClick, TInv, Histories
<1>1. CASE Ends(s, w) /\ w.project = page.project
  <2> DEFINE done == [w EXCEPT !.busy = FALSE,
                               !.starting = @ /\ flight[s].kind \notin {"run", "retry"}]
  <2>1. Write(done) /\ flight' = [flight EXCEPT ![s] = Idle]
    BY <1>1 DEF Ends
  <2>2. Legal(done, queues', runs') /\ done.project = w.project
    BY DEF Fine, Legal, Page
  <2>3. Fine(done)
    <3>1. done.sets = w.sets /\ done.selected = w.selected
      BY DEF Fine, Legal, Page
    <3>2. Consistent(w, queues', runs') => Consistent(done, queues', runs')
      BY DEF Fine, Consistent, Legal, Page
    <3> HIDE DEF done
    <3> QED BY <2>2, <3>1, <3>2 DEF Fine, NoGhosts
  <2> HIDE DEF done
  <2>4. /\ Histories' /\ LoadFits'
        /\ Legal(page, queues, runs)' /\ NoGhosts(page)'
        /\ page'.project = page.project
        /\ ~history'.crossed => ~history.crossed /\ Consistent(page, queues, runs)'
    BY <1>0, <1>1, <2>1, <2>2, <2>3, Put
  <2>5. Idle \in Flight /\ Idle.kind = None /\ Idle.q = 0
    <3>1. 0 \in Numbers
      BY WorkspaceAssumption DEF WorkspaceAssumption, Numbers
    <3>2. Idle.kind = None /\ Idle.q = 0
      BY DEF Idle
    <3>3. Idle \in Flight
      BY <3>1 DEF Idle, Flight, Requests
    <3> QED BY <3>2, <3>3
  <2>6. flight' \in [Slots -> Flight] /\ flight'[s] = Idle /\ \A t \in Slots \ {s} : flight'[t] = flight[t]
    BY <2>1, <2>5 DEF TInv
  <2>7. \A t \in Slots : Captured(t)'
    <3>1. None # "run"
      BY WorkspaceAssumption DEF WorkspaceAssumption, Kinds
    <3>2. Captured(s)'
      BY <2>5, <2>6, <3>1 DEF Captured
    <3>3. \A t \in Slots \ {s} : Captured(t)'
      BY <2>6, CapturedGrows DEF TInv
    <3> QED BY <3>2, <3>3
  <2>8. ASSUME ~history'.crossed, NEW t \in Slots PROVE CapturedHere(t)'
    <3>1. CapturedHere(t) /\ Captured(t)
      BY <2>4, <2>8 DEF TInv
    <3>2. CASE t = s
      BY <2>5, <2>6, <3>2 DEF CapturedHere
    <3>3. CASE t # s
      BY <2>4, <2>6, <3>1, <3>3, CapturedGrows
    <3> QED BY <3>2, <3>3
  <2> QED BY <2>4, <2>6, <2>7, <2>8 DEF TInv
<1>2. ASSUME NEW pc \in Requests, Awaits(s, pc, w), pc \in Later => flight[s].q # 0 PROVE TInv'
  <2>1. Write(w) /\ flight' = [flight EXCEPT ![s].pc = pc]
    BY <1>2 DEF Awaits
  <2>2. /\ Histories' /\ LoadFits'
        /\ Legal(page, queues, runs)' /\ NoGhosts(page)'
        /\ page'.project = w.project
        /\ ~history'.crossed => ~history.crossed /\ Consistent(page, queues, runs)'
        /\ history'.crossed <=> history.crossed \/ (w.project # page.project /\ InFlight(flight') # {})
    BY <1>0, <2>1, Put
  <2>3. /\ flight' \in [Slots -> Flight]
        /\ flight'[s] = [flight[s] EXCEPT !.pc = pc]
        /\ \A t \in Slots \ {s} : flight'[t] = flight[t]
    <3>1. flight[s] \in Flight
      BY DEF TInv
    <3>2. [flight[s] EXCEPT !.pc = pc] \in Flight
      BY <3>1 DEF Flight
    <3>3. flight' = [flight EXCEPT ![s] = [flight[s] EXCEPT !.pc = pc]]
      BY <2>1
    <3> QED BY <3>2, <3>3 DEF TInv
  <2>4. /\ flight'[s] \in Flight /\ flight'[s].pc = pc
        /\ flight'[s].kind = flight[s].kind /\ flight'[s].p = flight[s].p /\ flight'[s].q = flight[s].q
        /\ flight'[s].op = flight[s].op /\ flight'[s].cases = flight[s].cases
    BY <2>3 DEF TInv, Flight
  <2>5. \A t \in Slots : Captured(t)'
    <3>1. Captured(s)'
      BY <1>2, <2>4 DEF TInv, Captured, Grows
    <3>2. \A t \in Slots \ {s} : Captured(t)'
      BY <2>3, CapturedGrows DEF TInv
    <3> QED BY <3>1, <3>2
  <2>6. s \in InFlight(flight')
    BY <2>4 DEF InFlight
  <2>7. ASSUME ~history'.crossed, NEW t \in Slots PROVE CapturedHere(t)'
    <3>1. CapturedHere(t) /\ Captured(t) /\ page'.project = page.project
      BY <2>2, <2>6, <2>7 DEF TInv
    <3>2. CASE t = s
      BY <2>4, <3>1, <3>2 DEF CapturedHere, Captured, Grows
    <3>3. CASE t # s
      BY <2>3, <3>1, <3>3, CapturedGrows
    <3> QED BY <3>2, <3>3
  <2> QED BY <2>2, <2>3, <2>5, <2>7 DEF TInv
<1> QED BY <1>1, <1>2

-----------------------------------------------------------------------------
(* What is read of the backend.                                             *)

LEMMA QueueRead ==
  ASSUME Backend, NEW n \in DOMAIN queues
  PROVE  /\ n \in Numbers /\ n # 0 /\ queues[n].status \in Statuses
         /\ queues[n].p \in Projects /\ queues[n].op \in Ops
         /\ ProjectOf[queues[n].op] = queues[n].p
         /\ StatusOf(n) = queues[n].status /\ StatusOf(n) \in Statuses
         /\ PhaseAt(StatusOf(n)) \in Phases \cup {None}
<1>1. /\ n \in Nat /\ n # 0 /\ n <= MaxQueues /\ queues[n] \in Queue
      /\ ProjectOf[queues[n].op] = queues[n].p
  BY WorkspaceAssumption DEF Backend, WorkspaceAssumption
<1>2. StatusOf(n) = queues[n].status
  BY <1>1 DEF StatusOf
<1>3. PhaseAt(StatusOf(n)) \in Phases \cup {None}
  BY DEF PhaseAt, Phases
<1> QED BY <1>1, <1>2, <1>3, WorkspaceAssumption DEF Queue, Numbers, WorkspaceAssumption

LEMMA CompletedRead ==
  ASSUME Backend, NEW p
  PROVE  Completed(p) \subseteq OpsIn(p) /\ Completed(p) \subseteq Ops
BY QueueRead DEF Completed, Of, OpsIn

\* Every non-empty set of bounded numbers has a greatest element.
LEMMA Greatest ==
  ASSUME NEW N \in Nat, NEW S, S \subseteq 0..N, S # {}
  PROVE  \E n \in S : \A m \in S : m <= n
<1> DEFINE Above(n) == (n + 1)..N
           T == {Above(n) : n \in S}
           All == FiniteSubsetsOf(0..N)
           Less == StrictSubsetOrdering(0..N)
<1>1. T \subseteq All
  <2> SUFFICES ASSUME NEW n \in S PROVE Above(n) \in All
    OBVIOUS
  <2>1. n + 1 \in Int /\ N \in Int
    OBVIOUS
  <2>2. IsFiniteSet(Above(n))
    BY <2>1, FS_Interval
  <2>3. Above(n) \subseteq 0..N
    OBVIOUS
  <2> QED BY <2>2, <2>3 DEF FiniteSubsetsOf
<1>2. T # {}
  OBVIOUS
<1>3. PICK t \in T : \A u \in T : ~(<<u, t>> \in Less)
  <2>1. IsWellFoundedOn(Less, All)
    BY FS_StrictSubsetOrderingWellFounded
  <2> HIDE DEF T, Less, All
  <2> QED BY <1>1, <1>2, <2>1, WFMin
<1>4. PICK n \in S : t = Above(n)
  OBVIOUS
<1>5. ASSUME NEW m \in S, ~(m <= n) PROVE FALSE
  <2>1. Above(m) \subseteq Above(n) /\ m \in Above(n) /\ m \notin Above(m)
    BY <1>5
  <2>2. Above(m) \subseteq 0..N /\ Above(n) \subseteq 0..N /\ Above(m) # Above(n)
    BY <2>1
  <2>3. <<Above(m), Above(n)>> \in Less
    <3> HIDE DEF Above
    <3> QED BY <2>1, <2>2 DEF StrictSubsetOrdering
  <2> QED BY <1>3, <1>4, <2>3
<1> QED BY <1>5

LEMMA LatestRead ==
  ASSUME Backend, NEW p
  PROVE  /\ Latest(p) \in {0} \cup DOMAIN queues /\ Latest(p) \in Numbers
         /\ Latest(p) # 0 => queues[Latest(p)].p = p
<1>1. CASE Of(p) = {}
  BY <1>1, WorkspaceAssumption DEF Latest, Numbers, WorkspaceAssumption
<1>2. CASE Of(p) # {}
  <2>1. Of(p) \subseteq 0..MaxQueues
    BY QueueRead DEF Of, Numbers
  <2>2. \E n \in Of(p) : \A m \in Of(p) : m <= n
    BY <1>2, <2>1, Greatest, WorkspaceAssumption DEF WorkspaceAssumption
  <2>3. Latest(p) \in Of(p)
    BY <1>2, <2>2 DEF Latest
  <2> QED BY <2>3, QueueRead DEF Of
<1> QED BY <1>1, <1>2

\* The handler of s captured a project, and what its request is about.
LEMMA Capture ==
  ASSUME TInv, NEW s \in Slots, flight[s].kind # None
  PROVE  /\ flight[s].kind \in Kinds /\ flight[s].p \in Projects /\ flight[s].q \in Numbers
         /\ flight[s].op \in Ops \cup {None} /\ flight[s].cases \subseteq Ops
         /\ flight[s].kind = "run" => flight[s].op \in Ops
         /\ flight[s].pc \in Later => flight[s].q # 0
         /\ flight[s].q # 0 => flight[s].q \in DOMAIN queues
         /\ ~history.crossed => CapturedHere(s)
BY DEF TInv, Captured, Flight

LEMMA Kind ==
  ASSUME NEW s, NEW kinds \in SUBSET Kinds, NEW pc, At(s, kinds, pc)
  PROVE  flight[s].kind # None
BY WorkspaceAssumption DEF WorkspaceAssumption, At

-----------------------------------------------------------------------------
(* What the handlers write.                                                 *)

LEMMA ShowsPage ==
  ASSUME Backend, NEW n \in DOMAIN queues, NEW w, Legal(w, queues, runs)
  PROVE  LET v == Shows(w, n)
         IN  /\ Legal(v, queues, runs) /\ v.project = w.project
             /\ v.sets = w.sets /\ v.selected = w.selected
             /\ Consistent(w, queues, runs) /\ queues[n].p = w.project
                  => Consistent(v, queues, runs)
<1> DEFINE v == Shows(w, n)
<1>1. n \in Numbers /\ n # 0 /\ StatusOf(n) \in Statuses
  BY QueueRead
<1>2. /\ v \in Page /\ v.project = w.project /\ v.ops = w.ops /\ v.parsed = w.parsed
      /\ v.chosen = w.chosen /\ v.queue = n /\ v.wf = w.wf /\ v.sets = w.sets
      /\ v.selected = w.selected /\ v.approval = w.approval /\ v.report = w.report
  BY <1>1 DEF Shows, Legal, Page
<1> HIDE DEF v
<1>3. Legal(v, queues, runs)
  BY <1>1, <1>2 DEF Legal
<1>4. Consistent(w, queues, runs) /\ queues[n].p = w.project => Consistent(v, queues, runs)
  BY <1>2 DEF Consistent
<1> QED BY <1>2, <1>3, <1>4 DEF v

LEMMA ShowsWorkflowPage ==
  ASSUME Backend, NEW n \in DOMAIN queues, NEW w, Legal(w, queues, runs)
  PROVE  LET v == ShowsWorkflow(w, n)
         IN  /\ Legal(v, queues, runs) /\ v.project = w.project
             /\ v.sets = w.sets /\ v.selected = w.selected
             /\ Consistent(w, queues, runs) /\ queues[n].p = w.project
                  => Consistent(v, queues, runs)
<1> DEFINE v == ShowsWorkflow(w, n)
<1>1. n \in Numbers /\ PhaseAt(StatusOf(n)) \in Phases \cup {None}
  BY QueueRead
<1>2. /\ v \in Page /\ v.project = w.project /\ v.ops = w.ops /\ v.parsed = w.parsed
      /\ v.chosen = w.chosen /\ v.queue = w.queue /\ v.status = w.status /\ v.wf = n
      /\ v.sets = w.sets /\ v.selected = w.selected /\ v.approval = w.approval
      /\ v.report = w.report
  BY <1>1 DEF ShowsWorkflow, Legal, Page
<1> HIDE DEF v
<1>3. Legal(v, queues, runs)
  BY <1>2 DEF Legal
<1>4. Consistent(w, queues, runs) /\ queues[n].p = w.project => Consistent(v, queues, runs)
  BY <1>2 DEF Consistent
<1> QED BY <1>2, <1>3, <1>4 DEF v

LEMMA Chooses ==
  ASSUME NEW w, NEW qs, NEW rs, Legal(w, qs, rs), NEW op \in Ops \cup {None}
  PROVE  LET v == [w EXCEPT !.chosen = op]
         IN  /\ Legal(v, qs, rs) /\ v.project = w.project
             /\ v.sets = w.sets /\ v.selected = w.selected
             /\ Consistent(w, qs, rs) /\ (op # None => ProjectOf[op] = w.project)
                  => Consistent(v, qs, rs)
<1> DEFINE v == [w EXCEPT !.chosen = op]
<1>1. v \in Page
  BY DEF Legal, Page
<1>2. /\ v.project = w.project /\ v.ops = w.ops /\ v.parsed = w.parsed /\ v.chosen = op
      /\ v.queue = w.queue /\ v.status = w.status /\ v.wf = w.wf /\ v.sets = w.sets
      /\ v.selected = w.selected /\ v.approval = w.approval /\ v.report = w.report
  BY DEF Legal, Page
<1> HIDE DEF v
<1>3. Legal(v, qs, rs)
  BY <1>1, <1>2 DEF Legal
<1>4. Consistent(w, qs, rs) /\ (op # None => ProjectOf[op] = w.project) => Consistent(v, qs, rs)
  BY <1>2 DEF Consistent
<1> QED BY <1>2, <1>3, <1>4 DEF v

-----------------------------------------------------------------------------
(* What the user does.                                                      *)

LEMMA FineHere ==
  ASSUME TInv, UNCHANGED server, NEW w, Legal(w, queues, runs), NoGhosts(w) \/ page.sets # {},
         ~history.crossed /\ w.project = page.project => Consistent(w, queues, runs)
  PROVE  Fine(w)
BY DEF Fine, server

LEMMA Clicked == ASSUME TInv, Click PROVE clicks' \in 0..MaxClicks
BY WorkspaceAssumption DEF Click, TInv, Histories, WorkspaceAssumption

LEMMA PageAtOnce ==
  ASSUME TInv,
         \/ \E p \in Projects : SelectProject(p)
         \/ \E op \in Ops : SelectOperation(op) \/ Toggle(op)
         \/ SelectDocument \/ Confirm
  PROVE  TInv'
<1>0. /\ page \in Page /\ Legal(page, queues, runs) /\ NoGhosts(page)
      /\ ~history.crossed => Consistent(page, queues, runs)
  BY DEF TInv, Legal
<1>b. PICK b : b = Blank(page)
  OBVIOUS
<1>a. /\ Legal(b, queues, runs) /\ b.project = page.project /\ b.sets = page.sets
      /\ b.selected = page.selected /\ b.ops = page.ops /\ b.parsed = page.parsed
      /\ b.chosen = None /\ b.queue = 0 /\ b.wf = 0 /\ b.status = None
      /\ b.approval = NoApproval /\ b.report = 0
  BY <1>0, <1>b, BlankPage
<1>1. ASSUME NEW p \in Projects, SelectProject(p) PROVE TInv'
  <2> DEFINE w == [b EXCEPT !.project = p, !.sets = {}, !.approval = page.approval]
  <2>1. /\ w \in Page /\ w.project = p /\ w.queue = 0 /\ w.status = None /\ w.wf = 0
        /\ w.report = 0 /\ w.sets = {} /\ w.selected = page.selected
    BY <1>0, <1>a DEF Legal, Page
  <2>2. Write(w) /\ UNCHANGED <<flight, server>> /\ clicks' \in 0..MaxClicks /\ p # page.project
    BY <1>1, <1>b, Clicked DEF SelectProject
  <2> HIDE DEF w
  <2>3. Fine(w)
    BY <1>0, <2>1, <2>2, FineHere DEF NoGhosts, Legal
  <2> QED BY <2>2, <2>3, CalmPage
<1>2. ASSUME NEW op \in Ops, SelectOperation(op) PROVE TInv'
  <2> DEFINE v == [b EXCEPT !.chosen = op, !.parsed = page.ops]
             u == [page EXCEPT !.chosen = None]
  <2>1. /\ Legal(u, queues, runs) /\ NoGhosts(u) /\ u.project = page.project
        /\ ~history.crossed => Consistent(u, queues, runs)
    <3>1. /\ u \in Page /\ u.project = page.project /\ u.ops = page.ops /\ u.parsed = page.parsed
          /\ u.chosen = None /\ u.queue = page.queue /\ u.status = page.status /\ u.wf = page.wf
          /\ u.sets = page.sets /\ u.selected = page.selected
          /\ u.approval = page.approval /\ u.report = page.report
      BY <1>0 DEF Page
    <3> HIDE DEF u
    <3> QED BY <1>0, <3>1 DEF Legal, NoGhosts, Consistent
  <2>2. /\ Legal(v, queues, runs) /\ NoGhosts(v) /\ v.project = page.project
        /\ ~history.crossed => Consistent(v, queues, runs)
    <3>1. /\ v \in Page /\ v.project = page.project /\ v.ops = page.ops /\ v.parsed = page.ops
          /\ v.chosen = op /\ v.queue = 0 /\ v.status = None /\ v.wf = 0
          /\ v.sets = page.sets /\ v.selected = page.selected
          /\ v.approval = NoApproval /\ v.report = 0
      BY <1>0, <1>a DEF Legal, Page
    <3>2. ProjectOf[op] = page.ops /\ ProjectOf[op] # None
      BY <1>2, WorkspaceAssumption DEF SelectOperation, WorkspaceAssumption
    <3> HIDE DEF v
    <3> QED BY <1>0, <3>1, <3>2 DEF Legal, NoGhosts, Consistent, NoApproval
  <2>3. /\ Write(IF page.chosen = op THEN u ELSE v)
        /\ UNCHANGED <<flight, server>> /\ clicks' \in 0..MaxClicks
    BY <1>2, <1>b, Clicked DEF SelectOperation
  <2> HIDE DEF u, v
  <2>4. Fine(IF page.chosen = op THEN u ELSE v)
    BY <2>1, <2>2, <2>3, FineHere
  <2> QED BY <2>3, <2>4, CalmPage
<1>3. ASSUME NEW op \in Ops, Toggle(op) PROVE TInv'
  <2> DEFINE w == [page EXCEPT !.approval = NoApproval, !.report = 0, !.confirmed = {},
                     !.selected = IF op \in @ THEN @ \ {op} ELSE @ \cup {op}]
  <2>1. 0 \in 0..MaxRuns /\ NoApproval \in [of : Projects \cup {None}, cases : SUBSET Ops]
    BY WorkspaceAssumption DEF WorkspaceAssumption, NoApproval
  <2>2. /\ w \in Page /\ w.project = page.project /\ w.ops = page.ops /\ w.parsed = page.parsed
        /\ w.chosen = page.chosen /\ w.queue = page.queue /\ w.status = page.status
        /\ w.wf = page.wf /\ w.sets = page.sets /\ w.selected \subseteq page.selected \cup {op}
        /\ w.approval = NoApproval /\ w.report = 0
    BY <1>0, <2>1 DEF Page
  <2>3. /\ op \in page.sets /\ Write(w)
        /\ UNCHANGED <<flight, server>> /\ clicks' \in 0..MaxClicks
    BY <1>3, Clicked DEF Toggle
  <2> HIDE DEF w
  <2>4. /\ Legal(w, queues, runs) /\ page.sets # {}
        /\ ~history.crossed => Consistent(w, queues, runs)
    BY <1>0, <2>2, <2>3 DEF Legal, Consistent, NoApproval
  <2> QED BY <2>2, <2>3, <2>4, FineHere, CalmPage
<1>4. CASE SelectDocument
  <2> DEFINE w == [ResetContext(page) EXCEPT !.parsed = page.ops]
  <2>1. w = [[b EXCEPT !.selected = {}] EXCEPT !.parsed = page.ops]
    BY <1>b DEF ResetContext
  <2>2. /\ w \in Page /\ w.project = page.project /\ w.ops = page.ops /\ w.parsed = page.ops
        /\ w.chosen = None /\ w.queue = 0 /\ w.status = None /\ w.wf = 0
        /\ w.sets = page.sets /\ w.selected = {} /\ w.approval = NoApproval /\ w.report = 0
    BY <1>0, <1>a, <2>1 DEF Legal, Page
  <2>3. Write(w) /\ UNCHANGED <<flight, server>> /\ clicks' \in 0..MaxClicks
    BY <1>4, Clicked DEF SelectDocument
  <2> HIDE DEF w
  <2>4. /\ Legal(w, queues, runs) /\ NoGhosts(w)
        /\ ~history.crossed => Consistent(w, queues, runs)
    BY <1>0, <2>2 DEF Legal, NoGhosts, Consistent, NoApproval
  <2> QED BY <2>3, <2>4, FineHere, CalmPage
<1>5. CASE Confirm
  <2> DEFINE w == [page EXCEPT !.confirmed = page.selected \cap SideEffects]
  <2>1. /\ w \in Page /\ w.project = page.project /\ w.ops = page.ops /\ w.parsed = page.parsed
        /\ w.chosen = page.chosen /\ w.queue = page.queue /\ w.status = page.status
        /\ w.wf = page.wf /\ w.sets = page.sets /\ w.selected = page.selected
        /\ w.approval = page.approval /\ w.report = page.report
    BY <1>0 DEF Page
  <2>2. Write(w) /\ UNCHANGED <<flight, server>> /\ clicks' \in 0..MaxClicks
    BY <1>5, Clicked DEF Confirm
  <2> HIDE DEF w
  <2>3. /\ Legal(w, queues, runs) /\ NoGhosts(w)
        /\ ~history.crossed => Consistent(w, queues, runs)
    BY <1>0, <2>1 DEF Legal, NoGhosts, Consistent
  <2> QED BY <2>2, <2>3, FineHere, CalmPage
<1> QED BY <1>1, <1>2, <1>3, <1>4, <1>5

LEMMA PageHandlers ==
  ASSUME TInv, NEW s \in Slots,
         \/ Run(s) \/ Retry(s) \/ Approve(s) \/ Gate(s) \/ Execute(s)
         \/ Upload(s) \/ Save(s)
  PROVE  TInv'
<1>0. /\ page \in Page /\ Legal(page, queues, runs) /\ NoGhosts(page)
  BY DEF TInv, Legal
<1>b. PICK b : b = Blank(page)
  OBVIOUS
<1>a. /\ Legal(b, queues, runs) /\ b.project = page.project /\ b.sets = page.sets
      /\ b.selected = page.selected /\ b.ops = page.ops /\ b.parsed = page.parsed
      /\ b.chosen = None /\ b.queue = 0 /\ b.wf = 0 /\ b.status = None
      /\ b.approval = NoApproval /\ b.report = 0
  BY <1>0, <1>b, BlankPage
<1>1. ASSUME Run(s) PROVE TInv'
  <2> DEFINE w == [b EXCEPT !.chosen = page.chosen, !.starting = TRUE]
  <2>1. /\ w \in Page /\ w.project = page.project /\ w.ops = page.ops /\ w.parsed = page.parsed
        /\ w.chosen = page.chosen /\ w.queue = 0 /\ w.status = None /\ w.wf = 0
        /\ w.sets = page.sets /\ w.selected = page.selected
        /\ w.approval = NoApproval /\ w.report = 0
    BY <1>0, <1>a DEF Legal, Page
  <2>2. PICK pc \in {"ingest", "create"} : Begin(s, "run", pc, w)
    BY <1>1, <1>b DEF Run
  <2>3. page.chosen # None
    BY <1>1 DEF Run
  <2> HIDE DEF w
  <2>4. /\ Legal(w, queues, runs) /\ NoGhosts(w)
        /\ Consistent(page, queues, runs) => Consistent(w, queues, runs)
    BY <1>0, <2>1 DEF Legal, NoGhosts, Consistent, NoApproval
  <2>5. pc \in Requests /\ pc \notin Later /\ "run" \in Kinds
    BY DEF Requests, Later, Kinds
  <2> QED BY <2>1, <2>2, <2>3, <2>4, <2>5, BegunPage
<1>2. ASSUME Retry(s) PROVE TInv'
  <2> DEFINE w == [page EXCEPT !.starting = TRUE]
  <2>1. /\ w \in Page /\ w.project = page.project /\ w.ops = page.ops /\ w.parsed = page.parsed
        /\ w.chosen = page.chosen /\ w.queue = page.queue /\ w.status = page.status
        /\ w.wf = page.wf /\ w.sets = page.sets /\ w.selected = page.selected
        /\ w.approval = page.approval /\ w.report = page.report
    BY <1>0 DEF Page
  <2>2. PICK pc \in {"retry", "start"} : Begin(s, "retry", pc, w)
    BY <1>2 DEF Retry
  <2>3. page.queue # 0
    <3>1. page.status \in {"FAILED_NLU", "FAILED_DESIGN"}
      BY <1>2 DEF Retry
    <3>2. page.status # None
      BY <3>1, WorkspaceAssumption DEF WorkspaceAssumption, Statuses
    <3> QED BY <1>0, <3>2 DEF Legal
  <2> HIDE DEF w
  <2>4. /\ Legal(w, queues, runs) /\ NoGhosts(w)
        /\ Consistent(page, queues, runs) => Consistent(w, queues, runs)
    BY <1>0, <2>1 DEF Legal, NoGhosts, Consistent
  <2>5. pc \in Requests /\ "retry" \in Kinds /\ "retry" # "run"
    BY DEF Requests, Kinds
  <2> QED BY <2>1, <2>2, <2>3, <2>4, <2>5, BegunPage
<1>3. ASSUME Upload(s) PROVE TInv'
  <2> DEFINE w == [ResetContext(page) EXCEPT !.parsed = None]
  <2>1. w = [[b EXCEPT !.selected = {}] EXCEPT !.parsed = None]
    BY <1>b DEF ResetContext
  <2>2. /\ w \in Page /\ w.project = page.project /\ w.ops = page.ops /\ w.parsed = None
        /\ w.chosen = None /\ w.queue = 0 /\ w.status = None /\ w.wf = 0
        /\ w.sets = page.sets /\ w.selected = {} /\ w.approval = NoApproval /\ w.report = 0
    BY <1>0, <1>a, <2>1 DEF Legal, Page
  <2>3. Begin(s, "upload", "parse", w)
    BY <1>3 DEF Upload
  <2> HIDE DEF w
  <2>4. /\ Legal(w, queues, runs) /\ NoGhosts(w)
        /\ Consistent(page, queues, runs) => Consistent(w, queues, runs)
    BY <1>0, <2>2 DEF Legal, NoGhosts, Consistent, NoApproval
  <2>5. "parse" \in Requests /\ "parse" \notin Later /\ "upload" \in Kinds /\ "upload" # "run"
    BY DEF Requests, Later, Kinds
  <2> QED BY <2>2, <2>3, <2>4, <2>5, BegunPage
<1>4. ASSUME NEW kind \in Kinds, NEW pc \in Requests, kind # "run",
             pc \in Later => page.queue # 0, Begin(s, kind, pc, page)
      PROVE  TInv'
  BY <1>0, <1>4, BegunPage
<1>5. ASSUME Approve(s) PROVE TInv'
  <2>1. "approve" \in Kinds /\ "approve" \in Requests /\ "approve" # "run"
    BY DEF Kinds, Requests
  <2>2. Begin(s, "approve", "approve", page) /\ page.queue # 0
    BY <1>5 DEF Approve
  <2> QED BY <1>4, <2>1, <2>2
<1>6. ASSUME Gate(s) \/ Execute(s) \/ Save(s) PROVE TInv'
  <2>1. {"gate", "execute", "save"} \subseteq (Kinds \ {"run"}) \cap (Requests \ Later)
    BY DEF Kinds, Requests, Later
  <2>2. PICK kind \in {"gate", "execute", "save"} : Begin(s, kind, kind, page)
    BY <1>6 DEF Gate, Execute, Save
  <2>3. kind \in Kinds /\ kind # "run" /\ kind \in Requests /\ kind \notin Later
    BY <2>1
  <2> QED BY <1>4, <2>2, <2>3
<1> QED BY <1>1, <1>2, <1>3, <1>5, <1>6

-----------------------------------------------------------------------------
(* The answers.                                                             *)

\* An answer that leaves the queues and the executions alone.
LEMMA Answered ==
  ASSUME TInv, NEW s \in Slots, flight[s].kind # None, UNCHANGED server, NoClick,
         NEW w, Legal(w, queues, runs), NoGhosts(w), w.project = page.project,
         ~history.crossed => Consistent(w, queues, runs),
         \/ Ends(s, w)
         \/ \E pc \in Requests : Awaits(s, pc, w) /\ (pc \in Later => flight[s].q # 0)
  PROVE  TInv'
<1>1. Fine(w)
  BY FineHere
<1>2. Backend' /\ Grows(queues, runs, queues', runs')
  BY SameBackend DEF TInv
<1> QED BY <1>1, <1>2, AnsweredPage

LEMMA PageNow ==
  ASSUME TInv
  PROVE  /\ page \in Page /\ Legal(page, queues, runs) /\ NoGhosts(page) /\ Backend
         /\ ~history.crossed => Consistent(page, queues, runs)
BY DEF TInv, Legal

LEMMA PageOfQueue ==
  ASSUME TInv, NEW s \in Slots, flight[s].kind # None, flight[s].q # 0
  PROVE  LET n == flight[s].q
         IN  /\ n \in DOMAIN queues
             /\ \A w \in {Shows(page, n), ShowsWorkflow(page, n),
                          ShowsWorkflow(Shows(page, n), n)} :
                  /\ Legal(w, queues, runs) /\ NoGhosts(w) /\ w.project = page.project
                  /\ w.sets = page.sets /\ w.selected = page.selected
                  /\ ~history.crossed => Consistent(w, queues, runs)
<1> DEFINE n == flight[s].q
           u == Shows(page, n)
           v == ShowsWorkflow(page, n)
           x == ShowsWorkflow(u, n)
<1>1. /\ Legal(page, queues, runs) /\ NoGhosts(page) /\ Backend
      /\ ~history.crossed => Consistent(page, queues, runs) /\ queues[n].p = page.project
      /\ n \in DOMAIN queues
  BY PageNow, Capture DEF CapturedHere
<1> HIDE DEF n
<1>3. /\ Legal(u, queues, runs) /\ u.project = page.project
      /\ u.sets = page.sets /\ u.selected = page.selected
      /\ ~history.crossed => Consistent(u, queues, runs)
  BY <1>1, ShowsPage
<1>4. /\ Legal(v, queues, runs) /\ v.project = page.project
      /\ v.sets = page.sets /\ v.selected = page.selected
      /\ ~history.crossed => Consistent(v, queues, runs)
  BY <1>1, ShowsWorkflowPage
<1> HIDE DEF u
<1>5. /\ Legal(x, queues, runs) /\ x.project = page.project
      /\ x.sets = page.sets /\ x.selected = page.selected
      /\ ~history.crossed => Consistent(x, queues, runs)
  BY <1>1, <1>3, ShowsWorkflowPage
<1> HIDE DEF v, x
<1>6. NoGhosts(u) /\ NoGhosts(v) /\ NoGhosts(x)
  BY <1>1, <1>3, <1>4, <1>5 DEF NoGhosts
<1>7. \A w \in {u, v, x} :
        /\ Legal(w, queues, runs) /\ NoGhosts(w) /\ w.project = page.project
        /\ w.sets = page.sets /\ w.selected = page.selected
        /\ ~history.crossed => Consistent(w, queues, runs)
  BY <1>3, <1>4, <1>5, <1>6
<1> QED BY <1>1, <1>7 DEF n, u, v, x

\* Ingestion and upload show the operations of a project.
LEMMA PageOfProject ==
  ASSUME TInv, NEW s \in Slots, Ingested(s) \/ Uploaded(s)
  PROVE  TInv'
<1>1. flight[s].kind # None
  BY Kind DEF Ingested, Uploaded, Kinds
<1>2. PICK p \in Projects : p = flight[s].p /\ (~history.crossed => p = page.project)
  BY <1>1, Capture DEF CapturedHere
<1>3. /\ page \in Page /\ Legal(page, queues, runs) /\ NoGhosts(page)
      /\ ~history.crossed => Consistent(page, queues, runs)
  BY PageNow
<1>4. NoClick /\ UNCHANGED server
  BY DEF Ingested, Uploaded, At
<1>5. \E parsed \in {page.parsed, p} : \E chosen \in {page.chosen, None} :
        LET w == [page EXCEPT !.parsed = parsed, !.ops = p, !.chosen = chosen]
        IN  Awaits(s, "create", w) \/ Ends(s, w)
  <2> DEFINE w(parsed, chosen) == [page EXCEPT !.parsed = parsed, !.ops = p, !.chosen = chosen]
  <2>1. /\ w(p, page.chosen) = [page EXCEPT !.parsed = p, !.ops = p]
        /\ w(page.parsed, page.chosen) = [page EXCEPT !.ops = p]
    BY <1>3 DEF Page
  <2>2. CASE Ingested(s)
    <3>1. Awaits(s, "create", w(p, page.chosen)) \/ Ends(s, w(p, page.chosen))
      BY <1>2, <2>1, <2>2 DEF Ingested
    <3> QED BY <3>1
  <2>3. CASE Uploaded(s)
    <3>1. Ends(s, w(p, None))
      BY <1>2, <2>3 DEF Uploaded
    <3> QED BY <3>1
  <2> QED BY <2>2, <2>3
<1>6. PICK parsed \in {page.parsed, p} : \E chosen \in {page.chosen, None} :
        LET w == [page EXCEPT !.parsed = parsed, !.ops = p, !.chosen = chosen]
        IN  Awaits(s, "create", w) \/ Ends(s, w)
  BY <1>5
<1>7. PICK chosen \in {page.chosen, None} :
        LET w == [page EXCEPT !.parsed = parsed, !.ops = p, !.chosen = chosen]
        IN  Awaits(s, "create", w) \/ Ends(s, w)
  BY <1>6
<1> DEFINE w == [page EXCEPT !.parsed = parsed, !.ops = p, !.chosen = chosen]
<1>8. /\ w \in Page /\ w.project = page.project /\ w.ops = p /\ w.parsed = parsed
      /\ w.chosen = chosen /\ w.queue = page.queue /\ w.status = page.status /\ w.wf = page.wf
      /\ w.sets = page.sets /\ w.selected = page.selected
      /\ w.approval = page.approval /\ w.report = page.report
  BY <1>3 DEF Page
<1>9. Awaits(s, "create", w) \/ Ends(s, w)
  BY <1>7
<1> HIDE DEF w
<1>10. /\ Legal(w, queues, runs) /\ NoGhosts(w)
       /\ ~history.crossed => Consistent(w, queues, runs)
  BY <1>2, <1>3, <1>8 DEF Legal, NoGhosts, Consistent
<1>11. "create" \in Requests /\ "create" \notin Later
  BY DEF Requests, Later
<1> QED BY <1>1, <1>4, <1>8, <1>9, <1>10, <1>11, Answered

\* The analysis of the handler's queue was awaited.
LEMMA PageStarted ==
  ASSUME TInv, NEW s \in Slots, StartAnswered(s) \/ StartFails(s) \/ WorkflowRead(s) \/ Refreshed(s)
  PROVE  TInv'
<1> DEFINE n == flight[s].q
<1>1. flight[s].kind # None
  BY Kind DEF StartAnswered, StartFails, WorkflowRead, Refreshed, Kinds
<1>2. NoClick /\ UNCHANGED server /\ flight[s].pc \in Later
  BY DEF StartAnswered, StartFails, WorkflowRead, Refreshed, At, Later
<1>3. n # 0 /\ n \in DOMAIN queues
  BY <1>1, <1>2, Capture
<1>4. /\ page \in Page /\ Legal(page, queues, runs) /\ NoGhosts(page) /\ Backend
      /\ ~history.crossed => Consistent(page, queues, runs)
  BY PageNow
<1>5. \A w \in {Shows(page, n), ShowsWorkflow(page, n), ShowsWorkflow(Shows(page, n), n)} :
        /\ Legal(w, queues, runs) /\ NoGhosts(w) /\ w.project = page.project
        /\ w.sets = page.sets /\ w.selected = page.selected
        /\ ~history.crossed => Consistent(w, queues, runs)
  BY <1>1, <1>3, PageOfQueue
<1>6. ASSUME NEW u \in {ShowsWorkflow(page, n), ShowsWorkflow(Shows(page, n), n)},
             NEW op \in Ops \cup {None},
             ~history.crossed => (op # None => ProjectOf[op] = page.project),
             Ends(s, [u EXCEPT !.chosen = op])
      PROVE  TInv'
  <2> DEFINE w == [u EXCEPT !.chosen = op]
  <2>1. /\ Legal(u, queues, runs) /\ NoGhosts(u) /\ u.project = page.project
        /\ ~history.crossed => Consistent(u, queues, runs)
    BY <1>5, <1>6
  <2>2. /\ Legal(w, queues, runs) /\ w.project = page.project
        /\ w.sets = u.sets /\ w.selected = u.selected
        /\ ~history.crossed => Consistent(w, queues, runs)
    BY <1>6, <2>1, Chooses
  <2>3. Ends(s, w)
    BY <1>6
  <2> HIDE DEF w
  <2>4. NoGhosts(w)
    BY <2>1, <2>2 DEF NoGhosts
  <2> QED BY <1>1, <1>2, <2>2, <2>3, <2>4, Answered
<1>7. CASE StartAnswered(s)
  <2> DEFINE u == ShowsWorkflow(Shows(page, n), n)
             op == IF flight[s].kind = "run" THEN flight[s].op ELSE u.chosen
  <2>1. /\ Legal(u, queues, runs) /\ u.project = page.project
        /\ ~history.crossed => Consistent(u, queues, runs)
    BY <1>5
  <2>2. op \in Ops \cup {None}
    BY <1>1, <2>1, Capture DEF Legal, Page
  <2>3. ~history.crossed => (op # None => ProjectOf[op] = page.project)
    BY <1>1, <2>1, Capture DEF CapturedHere, Consistent
  <2>4. Ends(s, [u EXCEPT !.chosen = op])
    BY <1>7 DEF StartAnswered
  <2> HIDE DEF op
  <2> QED BY <1>6, <2>2, <2>3, <2>4
<1>8. CASE WorkflowRead(s)
  <2>1. Ends(s, [ShowsWorkflow(page, n) EXCEPT !.chosen = queues[n].op])
    BY <1>8 DEF WorkflowRead
  <2>2. queues[n].op \in Ops /\ ProjectOf[queues[n].op] = queues[n].p
    BY <1>3, <1>4, QueueRead
  <2>3. ~history.crossed => queues[n].p = page.project
    BY <1>1, <1>3, Capture DEF CapturedHere
  <2> QED BY <1>6, <2>1, <2>2, <2>3
<1>9. CASE StartFails(s)
  <2>1. Awaits(s, "poll", page) \/ Ends(s, page)
    BY <1>9 DEF StartFails
  <2>2. "poll" \in Requests
    BY DEF Requests
  <2> QED BY <1>1, <1>2, <1>3, <1>4, <2>1, <2>2, Answered
<1>10. CASE Refreshed(s)
  <2>1. Ends(s, Shows(page, n)) \/ Ends(s, page)
    BY <1>10 DEF Refreshed
  <2> QED BY <1>1, <1>2, <1>4, <1>5, <2>1, Answered
<1> QED BY <1>7, <1>8, <1>9, <1>10

LEMMA PagePolled == ASSUME TInv, NEW s \in Slots, Polled(s) PROVE TInv'
<1> DEFINE n == flight[s].q
           u == Shows(page, n)
           v == [u EXCEPT !.chosen = queues[n].op]
<1>1. flight[s].kind # None
  BY Kind DEF Polled, Kinds
<1>2. NoClick /\ UNCHANGED server /\ flight[s].pc \in Later
  BY DEF Polled, At, Later
<1>3. n # 0 /\ n \in DOMAIN queues
  BY <1>1, <1>2, Capture
<1>4. /\ page \in Page /\ Legal(page, queues, runs) /\ NoGhosts(page) /\ Backend
      /\ ~history.crossed => Consistent(page, queues, runs)
  BY PageNow
<1>5. /\ Legal(u, queues, runs) /\ NoGhosts(u) /\ u.project = page.project
      /\ ~history.crossed => Consistent(u, queues, runs)
  BY <1>1, <1>3, PageOfQueue
<1>6. /\ Legal(v, queues, runs) /\ NoGhosts(v) /\ v.project = page.project
      /\ ~history.crossed => Consistent(v, queues, runs)
  <2>1. queues[n].op \in Ops /\ ProjectOf[queues[n].op] = queues[n].p
    BY <1>3, <1>4, QueueRead
  <2>2. ~history.crossed => queues[n].p = page.project
    BY <1>1, <1>3, Capture DEF CapturedHere
  <2> HIDE DEF n, u
  <2>3. /\ Legal(v, queues, runs) /\ v.project = page.project
        /\ v.sets = u.sets /\ v.selected = u.selected
        /\ ~history.crossed => Consistent(v, queues, runs)
    BY <1>5, <2>1, <2>2, Chooses
  <2> HIDE DEF v
  <2> QED BY <1>5, <2>3 DEF NoGhosts
<1>7. PICK w \in {u, v, page} : Ends(s, w) \/ Awaits(s, "cases", w) \/ Awaits(s, "workflow", w)
  BY <1>4 DEF Polled
<1> HIDE DEF u, v, n
<1>8. /\ Legal(w, queues, runs) /\ NoGhosts(w) /\ w.project = page.project
      /\ ~history.crossed => Consistent(w, queues, runs)
  BY <1>4, <1>5, <1>6
<1>9. {"cases", "workflow"} \subseteq Requests /\ flight[s].q # 0
  BY <1>3 DEF Requests, n
<1> QED BY <1>1, <1>2, <1>7, <1>8, <1>9, Answered

\* Cases are those of the project that the handler captured.
LEMMA PageCases ==
  ASSUME TInv, NEW s \in Slots, CasesRead(s) \/ GateAnswered(s)
  PROVE  TInv'
<1>1. flight[s].kind # None
  BY Kind DEF CasesRead, GateAnswered, Kinds
<1>2. NoClick /\ UNCHANGED server
  BY DEF CasesRead, GateAnswered, At
<1>3. /\ page \in Page /\ Legal(page, queues, runs) /\ NoGhosts(page) /\ Backend
      /\ ~history.crossed => Consistent(page, queues, runs)
  BY PageNow
<1>4. CASE CasesRead(s)
  <2>1. PICK cases : cases = Completed(flight[s].p)
    OBVIOUS
  <2> DEFINE w == [page EXCEPT !.sets = cases, !.selected = cases, !.chosen = None]
  <2>2. cases \in SUBSET Ops /\ (~history.crossed => cases \subseteq OpsIn(page.project))
    BY <1>1, <1>3, <2>1, Capture, CompletedRead DEF CapturedHere
  <2>3. /\ w \in Page /\ w.project = page.project /\ w.ops = page.ops /\ w.parsed = page.parsed
        /\ w.chosen = None /\ w.queue = page.queue /\ w.status = page.status
        /\ w.wf = page.wf /\ w.sets = cases /\ w.selected = cases
        /\ w.approval = page.approval /\ w.report = page.report
    BY <1>3, <2>2 DEF Page
  <2>4. Ends(s, w)
    BY <1>4, <2>1 DEF CasesRead
  <2> HIDE DEF w
  <2>5. /\ Legal(w, queues, runs) /\ NoGhosts(w)
        /\ ~history.crossed => Consistent(w, queues, runs)
    BY <1>3, <2>2, <2>3 DEF Legal, NoGhosts, Consistent
  <2> QED BY <1>1, <1>2, <2>3, <2>4, <2>5, Answered
<1>5. CASE GateAnswered(s)
  <2>1. PICK approval : approval = [of |-> flight[s].p, cases |-> flight[s].cases]
    OBVIOUS
  <2> DEFINE w == [page EXCEPT !.approval = approval]
  <2>2. /\ approval \in [of : Projects \cup {None}, cases : SUBSET Ops]
        /\ ~history.crossed => approval.cases \subseteq OpsIn(page.project)
    BY <1>1, <2>1, Capture DEF CapturedHere
  <2>3. /\ w \in Page /\ w.project = page.project /\ w.ops = page.ops /\ w.parsed = page.parsed
        /\ w.chosen = page.chosen /\ w.queue = page.queue /\ w.status = page.status
        /\ w.wf = page.wf /\ w.sets = page.sets /\ w.selected = page.selected
        /\ w.approval = approval /\ w.report = page.report
    BY <1>3, <2>2 DEF Page
  <2>4. Ends(s, w)
    BY <1>5, <2>1 DEF GateAnswered
  <2> HIDE DEF w
  <2>5. /\ Legal(w, queues, runs) /\ NoGhosts(w)
        /\ ~history.crossed => Consistent(w, queues, runs)
    BY <1>3, <2>2, <2>3 DEF Legal, NoGhosts, Consistent
  <2> QED BY <1>1, <1>2, <2>3, <2>4, <2>5, Answered
<1> QED BY <1>4, <1>5

\* Saving a project selects it.
LEMMA PageSaved == ASSUME TInv, NEW s \in Slots, Saved(s) PROVE TInv'
<1>1. flight[s].kind # None
  BY Kind DEF Saved, Kinds
<1>2. NoClick /\ UNCHANGED server
  BY DEF Saved, At
<1>3. /\ page \in Page /\ Legal(page, queues, runs) /\ NoGhosts(page) /\ Backend
      /\ ~history.crossed => Consistent(page, queues, runs)
  BY PageNow
<1>4. CASE Awaits(s, "auth", [page EXCEPT !.project = flight[s].p])
  <2> DEFINE w == [page EXCEPT !.project = flight[s].p]
  <2>1. flight[s].p \in Projects
    BY <1>1, Capture
  <2>2. /\ w \in Page /\ w.ops = page.ops /\ w.parsed = page.parsed
        /\ w.chosen = page.chosen /\ w.queue = page.queue /\ w.status = page.status
        /\ w.wf = page.wf /\ w.sets = page.sets /\ w.selected = page.selected
        /\ w.approval = page.approval /\ w.report = page.report
    BY <1>3, <2>1 DEF Page
  <2>3. Awaits(s, "auth", w)
    BY <1>4
  <2> HIDE DEF w
  <2>4. /\ Legal(w, queues, runs) /\ NoGhosts(w)
        /\ ~history.crossed /\ w.project = page.project => Consistent(w, queues, runs)
    BY <1>3, <2>2 DEF Legal, NoGhosts, Consistent
  <2>5. Fine(w)
    BY <1>2, <2>4, FineHere
  <2>6. Backend' /\ Grows(queues, runs, queues', runs')
    BY <1>2, <1>3, SameBackend
  <2>7. "auth" \in Requests /\ "auth" \notin Later
    BY DEF Requests, Later
  <2> QED BY <1>1, <1>2, <2>3, <2>5, <2>6, <2>7, AnsweredPage
<1>5. CASE Ends(s, page)
  BY <1>1, <1>2, <1>3, <1>5, Answered
<1> QED BY <1>4, <1>5 DEF Saved

LEMMA PageFails == ASSUME TInv, NEW s \in Slots, Fails(s) PROVE TInv'
<1> DEFINE w == [page EXCEPT !.approval = NoApproval]
<1>1. flight[s].kind # None /\ NoClick /\ UNCHANGED server
  BY DEF Fails
<1>2. /\ page \in Page /\ Legal(page, queues, runs) /\ NoGhosts(page) /\ Backend
      /\ ~history.crossed => Consistent(page, queues, runs)
  BY PageNow
<1>3. CASE flight[s].pc \in Later /\ Awaits(s, "refresh", page)
  <2>1. flight[s].q # 0 /\ "refresh" \in Requests
    BY <1>1, <1>3, Capture DEF Requests
  <2> QED BY <1>1, <1>2, <1>3, <2>1, Answered
<1>4. CASE Ends(s, page)
  BY <1>1, <1>2, <1>4, Answered
<1>5. CASE Ends(s, w)
  <2>1. NoApproval \in [of : Projects \cup {None}, cases : SUBSET Ops]
    BY DEF NoApproval
  <2>2. /\ w \in Page /\ w.project = page.project /\ w.ops = page.ops /\ w.parsed = page.parsed
        /\ w.chosen = page.chosen /\ w.queue = page.queue /\ w.status = page.status
        /\ w.wf = page.wf /\ w.sets = page.sets /\ w.selected = page.selected
        /\ w.approval = NoApproval /\ w.report = page.report
    BY <1>2, <2>1 DEF Page
  <2> HIDE DEF w
  <2>3. /\ Legal(w, queues, runs) /\ NoGhosts(w)
        /\ ~history.crossed => Consistent(w, queues, runs)
    BY <1>2, <2>2 DEF Legal, NoGhosts, Consistent, NoApproval
  <2> QED BY <1>1, <1>5, <2>2, <2>3, Answered
<1>6. \/ flight[s].pc \in Later /\ Awaits(s, "refresh", page)
      \/ Ends(s, page) \/ Ends(s, w)
  BY DEF Fails, Later
<1> QED BY <1>3, <1>4, <1>5, <1>6

-----------------------------------------------------------------------------
(* The answers that change the backend.                                     *)

\* The analysis of a queue begins.
LEMMA PageBegins == ASSUME TInv, NEW s \in Slots, Started(s) PROVE TInv'
<1> DEFINE n == flight[s].q
<1>1. flight[s].kind # None
  BY Kind DEF Started, Kinds
<1>2. NoClick /\ flight[s].pc \in Later
  BY DEF Started, At, Later
<1>3. n # 0 /\ n \in DOMAIN queues
  BY <1>1, <1>2, Capture
<1>4. /\ Legal(page, queues, runs) /\ NoGhosts(page) /\ Backend
      /\ ~history.crossed => Consistent(page, queues, runs)
  BY PageNow
<1>5. Backend' /\ Grows(queues, runs, queues', runs')
  BY <1>3, <1>4, BecomesGrows DEF Started, Statuses
<1>6. Fine(page)
  BY <1>4, <1>5, LegalGrows DEF Fine
<1>7. Awaits(s, "started", page) /\ "started" \in Requests
  BY DEF Started, Requests
<1> QED BY <1>1, <1>2, <1>3, <1>5, <1>6, <1>7, AnsweredPage

\* The design of a queue begins.
LEMMA PageResumed == ASSUME TInv, NEW s \in Slots, Resumed(s) PROVE TInv'
<1>1. flight[s].kind # None
  BY Kind DEF Resumed, Kinds
<1>2. NoClick /\ flight[s].pc \in Later
  BY DEF Resumed, At, Later
<1>3. PICK n \in DOMAIN queues : n = flight[s].q /\ n # 0
  BY <1>1, <1>2, Capture
<1>4. /\ page \in Page /\ Legal(page, queues, runs) /\ NoGhosts(page) /\ Backend
      /\ ~history.crossed => Consistent(page, queues, runs)
      /\ ~history.crossed => queues[n].p = page.project
  BY <1>1, <1>3, PageNow, Capture DEF CapturedHere
<1>5. Backend' /\ Grows(queues, runs, queues', runs')
  BY <1>3, <1>4, BecomesGrows DEF Resumed, Statuses
<1>6. Fine(page)
  BY <1>4, <1>5, LegalGrows DEF Fine
<1> DEFINE w == [page EXCEPT !.queue = n, !.status = "RUNNING_DESIGN", !.wf = n,
                             !.phase = "designing"]
<1>7. Fine(w) /\ w.project = page.project
  <2>1. n \in Numbers
    BY <1>4, QueueRead
  <2>2. /\ w \in Page /\ w.project = page.project /\ w.ops = page.ops /\ w.parsed = page.parsed
        /\ w.chosen = page.chosen /\ w.queue = n /\ w.wf = n
        /\ w.sets = page.sets /\ w.selected = page.selected
        /\ w.approval = page.approval /\ w.report = page.report
    BY <1>4, <2>1 DEF Page, Statuses, Phases
  <2> HIDE DEF w
  <2>3. /\ Legal(w, queues, runs) /\ NoGhosts(w)
        /\ ~history.crossed => Consistent(w, queues, runs)
    BY <1>3, <1>4, <2>2 DEF Legal, NoGhosts, Consistent
  <2> QED BY <1>5, <2>2, <2>3, LegalGrows DEF Fine
<1>8. \/ Awaits(s, "poll", w) \/ Ends(s, page) \/ Awaits(s, "refresh", page)
  BY <1>3 DEF Resumed
<1>9. {"poll", "refresh"} \subseteq Requests /\ flight[s].q # 0
  BY <1>3 DEF Requests
<1> HIDE DEF w
<1> QED BY <1>1, <1>2, <1>5, <1>6, <1>7, <1>8, <1>9, AnsweredPage

\* An execution is added.
LEMMA PageExecuted == ASSUME TInv, NEW s \in Slots, Executed(s) PROVE TInv'
<1> DEFINE Ready == {n \in Of(flight[s].p) : queues[n].status = "READY"}
           r == [p |-> flight[s].p,
                 q |-> CHOOSE n \in Of(flight[s].p) :
                         /\ queues[n].status = "READY"
                         /\ \A m \in Of(flight[s].p) : queues[m].status = "READY" => m <= n]
<1>1. flight[s].kind # None /\ NoClick
  BY Kind DEF Executed, Kinds, At
<1>2. /\ page \in Page /\ Legal(page, queues, runs) /\ NoGhosts(page) /\ Backend
      /\ ~history.crossed => Consistent(page, queues, runs)
  BY PageNow
<1>3. /\ flight[s].p \in Projects
      /\ ~history.crossed => flight[s].p = page.project
  BY <1>1, Capture DEF CapturedHere
<1>4. r.p = flight[s].p /\ r \in [p : Projects, q : Numbers]
  <2>1. Ready # {} /\ Ready \subseteq 0..MaxQueues
    <3>1. Completed(flight[s].p) # {}
      BY DEF Executed, MayApprove
    <3>2. Ready # {}
      BY <3>1 DEF Completed
    <3> QED BY <1>2, <3>2, QueueRead DEF Of, Numbers
  <2>2. \E n \in Ready : \A m \in Ready : m <= n
    BY <2>1, Greatest, WorkspaceAssumption DEF WorkspaceAssumption
  <2>3. r.q \in Of(flight[s].p)
    BY <2>2
  <2>4. r.q \in Numbers
    BY <1>2, <2>3, QueueRead DEF Of
  <2> HIDE DEF Ready
  <2> QED BY <1>3, <2>4
<1>5. /\ runs' = Append(runs, r) /\ UNCHANGED queues /\ Len(runs) < MaxRuns
      /\ \E answered \in BOOLEAN :
           Ends(s, [page EXCEPT !.approval = NoApproval,
                                !.report = IF answered THEN Len(runs') ELSE @])
  BY DEF Executed
<1> HIDE DEF r, Ready
<1>6. /\ runs' \in Seq([p : Projects, q : Numbers]) /\ Len(runs') = Len(runs) + 1
      /\ DOMAIN runs' = 1..Len(runs') /\ Len(runs') \in 1..MaxRuns
      /\ runs'[Len(runs')] = r
      /\ \A n \in DOMAIN runs : n \in DOMAIN runs' /\ runs'[n] = runs[n]
  BY <1>2, <1>4, <1>5, WorkspaceAssumption DEF Backend, WorkspaceAssumption
<1>7. Backend' /\ Grows(queues, runs, queues', runs')
  BY <1>2, <1>5, <1>6 DEF Backend, Grows
<1>8. PICK answered \in BOOLEAN :
        Ends(s, [page EXCEPT !.approval = NoApproval,
                             !.report = IF answered THEN Len(runs') ELSE @])
  BY <1>5
<1> DEFINE w == [page EXCEPT !.approval = NoApproval,
                             !.report = IF answered THEN Len(runs') ELSE @]
<1>9. /\ w \in Page /\ w.project = page.project /\ w.ops = page.ops /\ w.parsed = page.parsed
      /\ w.chosen = page.chosen /\ w.queue = page.queue /\ w.status = page.status
      /\ w.wf = page.wf /\ w.sets = page.sets /\ w.selected = page.selected
      /\ w.approval = NoApproval /\ w.report \in {page.report, Len(runs')}
  <2>1. NoApproval \in [of : Projects \cup {None}, cases : SUBSET Ops]
    BY DEF NoApproval
  <2>2. Len(runs') \in 0..MaxRuns
    BY <1>6
  <2> QED BY <1>2, <2>1, <2>2 DEF Page
<1>10. Ends(s, w)
  BY <1>8
<1> HIDE DEF w
<1>11. Fine(w)
  <2>1. /\ Legal(page, queues', runs') /\ NoGhosts(page)
        /\ ~history.crossed => Consistent(page, queues', runs')
    BY <1>2, <1>7, LegalGrows
  <2>2. Legal(w, queues', runs') /\ NoGhosts(w)
    BY <1>6, <1>9, <2>1 DEF Legal, NoGhosts
  <2>3. ~history.crossed => Consistent(w, queues', runs')
    BY <1>3, <1>4, <1>6, <1>9, <2>1 DEF Consistent, NoApproval
  <2> QED BY <2>2, <2>3 DEF Fine
<1> QED BY <1>1, <1>7, <1>9, <1>10, <1>11, AnsweredPage

\* A queue is added; the handler goes on with it when it is told.
LEMMA PageCreated == ASSUME TInv, NEW s \in Slots, Created(s) PROVE TInv'
<1> DEFINE n == Len(queues')
           made == [p |-> flight[s].p, op |-> flight[s].op, status |-> "PENDING"]
           w == [page EXCEPT !.queue = n, !.status = "PENDING"]
<1>1. /\ flight[s].kind # None /\ flight[s].kind = "run"
      /\ NoClick /\ clicks' \in 0..MaxClicks
  BY Kind DEF Created, Kinds, At, NoClick, TInv, Histories
<1>2. /\ page \in Page /\ Legal(page, queues, runs) /\ NoGhosts(page) /\ Backend
      /\ ~history.crossed => Consistent(page, queues, runs)
  BY PageNow
<1>3. /\ flight[s].p \in Projects /\ flight[s].op \in Ops
      /\ ~history.crossed => flight[s].p = page.project
  BY <1>1, Capture DEF CapturedHere
<1>4. made \in Queue /\ made.p = flight[s].p /\ made.op = flight[s].op
  BY <1>3 DEF Queue, Statuses
<1>5. /\ queues' = Append(queues, made) /\ UNCHANGED runs /\ Len(queues) < MaxQueues
      /\ ProjectOf[made.op] = made.p
  BY <1>4 DEF Created, MayCreate
<1>6. \/ flight' = [flight EXCEPT ![s].pc = "start", ![s].q = n] /\ Write(w)
      \/ Ends(s, page)
  BY DEF Created
<1> HIDE DEF made
<1>7. /\ queues' \in Seq(Queue) /\ n = Len(queues) + 1 /\ DOMAIN queues' = 1..n
      /\ n \in 1..MaxQueues /\ n \in DOMAIN queues' /\ n # 0 /\ n \in Numbers
      /\ queues'[n] = made
      /\ \A m \in DOMAIN queues : m \in DOMAIN queues' /\ queues'[m] = queues[m]
      /\ \A m \in DOMAIN queues' : m # n => m \in DOMAIN queues
  BY <1>2, <1>4, <1>5, WorkspaceAssumption DEF Backend, Numbers, WorkspaceAssumption
<1> HIDE DEF n
<1>8. Backend' /\ Grows(queues, runs, queues', runs')
  <2>1. ASSUME NEW m \in DOMAIN queues' PROVE ProjectOf[queues'[m].op] = queues'[m].p
    BY <1>2, <1>5, <1>7 DEF Backend
  <2>2. Len(queues') <= MaxQueues
    BY <1>7 DEF n
  <2> QED BY <1>2, <1>5, <1>7, <2>1, <2>2 DEF Backend, Grows
<1>9. /\ Legal(page, queues', runs') /\ NoGhosts(page)
      /\ ~history.crossed => Consistent(page, queues', runs')
  BY <1>2, <1>8, LegalGrows
<1>10. CASE Ends(s, page)
  <2>1. Fine(page)
    BY <1>9 DEF Fine
  <2> QED BY <1>1, <1>8, <1>10, <2>1, AnsweredPage
<1>11. ASSUME flight' = [flight EXCEPT ![s].pc = "start", ![s].q = n], Write(w) PROVE TInv'
  <2>1. /\ w \in Page /\ w.project = page.project /\ w.ops = page.ops /\ w.parsed = page.parsed
        /\ w.chosen = page.chosen /\ w.queue = n /\ w.wf = page.wf
        /\ w.sets = page.sets /\ w.selected = page.selected
        /\ w.approval = page.approval /\ w.report = page.report
    BY <1>2, <1>7 DEF Page, Statuses
  <2> HIDE DEF w
  <2>2. Fine(w)
    <3>1. Legal(w, queues', runs') /\ NoGhosts(w)
      BY <1>7, <1>9, <2>1 DEF Legal, NoGhosts
    <3>2. ~history.crossed => Consistent(w, queues', runs')
      BY <1>3, <1>4, <1>7, <1>9, <2>1 DEF Consistent
    <3> QED BY <3>1, <3>2 DEF Fine
  <2>3. /\ Histories' /\ LoadFits'
        /\ Legal(page, queues, runs)' /\ NoGhosts(page)'
        /\ page'.project = page.project
        /\ ~history'.crossed => ~history.crossed /\ Consistent(page, queues, runs)'
    BY <1>1, <1>8, <1>11, <2>1, <2>2, Put
  <2>4. PICK f : f = flight[s] /\ f \in Flight
    BY DEF TInv
  <2> DEFINE g == [f EXCEPT !.pc = "start", !.q = n]
  <2>5. /\ g \in Flight /\ g.q = n /\ g.kind = f.kind /\ g.p = f.p /\ g.op = f.op
        /\ g.cases = f.cases
    BY <1>7, <2>4 DEF Flight, Requests
  <2>6. flight' = [flight EXCEPT ![s] = g]
    BY <1>11, <2>4 DEF TInv
  <2> HIDE DEF g
  <2>7. /\ flight' \in [Slots -> Flight] /\ flight'[s] = g
        /\ \A t \in Slots \ {s} : flight'[t] = flight[t]
    BY <2>5, <2>6 DEF TInv
  <2>8. \A t \in Slots : Captured(t)'
    <3>1. Captured(s)'
      BY <1>7, <2>4, <2>5, <2>7 DEF TInv, Captured
    <3>2. \A t \in Slots \ {s} : Captured(t)'
      BY <1>8, <2>7, CapturedGrows DEF TInv
    <3> QED BY <3>1, <3>2
  <2>9. ASSUME ~history'.crossed, NEW t \in Slots PROVE CapturedHere(t)'
    <3>1. CapturedHere(t) /\ Captured(t) /\ ~history.crossed
      BY <2>3, <2>9 DEF TInv
    <3>2. CASE t = s
      BY <1>3, <1>4, <1>7, <2>3, <2>4, <2>5, <2>7, <3>1, <3>2, <1>1 DEF CapturedHere
    <3>3. CASE t # s
      BY <1>8, <2>3, <2>7, <3>1, <3>3, CapturedGrows
    <3> QED BY <3>2, <3>3
  <2> QED BY <1>8, <2>3, <2>7, <2>8, <2>9 DEF TInv
<1> QED BY <1>6, <1>10, <1>11

LEMMA PageAnswers == ASSUME TInv, NEW s \in Slots, Answer(s) PROVE TInv'
BY PageOfProject, PageCreated, PageBegins, PageStarted, PageResumed, PagePolled, PageCases,
   PageExecuted, PageSaved, PageFails DEF Answer

-----------------------------------------------------------------------------
(* The loader, the reports and the backend.                                 *)

LEMMA LoadedPage ==
  ASSUME TInv, NEW w, NEW l, Loads(w, l),
         Legal(w, queues, runs), NoGhosts(w) \/ page.sets # {}, w.project = page.project,
         ~history.crossed => Consistent(w, queues, runs),
         \/ l = NoLoad
         \/ l = [load EXCEPT !.pc = "second"] /\ load.pc = "deliver" /\ load.q # 0
  PROVE  TInv'
<1>1. /\ page' = Rendered(page, w) /\ load' = l /\ UNCHANGED <<flight, server>> /\ NoClick
      /\ page \in Page
  BY PageNow DEF Loads
<1>2. /\ Legal(page', queues, runs) /\ NoGhosts(page') /\ page'.project = page.project
      /\ ~history.crossed => Consistent(page', queues, runs)
  BY <1>1, RenderedPage
<1>3. /\ history' \in [crossed : BOOLEAN, overlapped : BOOLEAN, moved : BOOLEAN, hasty : BOOLEAN]
      /\ history'.crossed = history.crossed
  BY DEF Loads, TInv, Histories
<1>4. restore' \in Numbers /\ restore' \in {0} \cup DOMAIN queues
  <2>1. restore' \in {restore, 0, page'.queue}
    BY DEF Loads
  <2>2. 0 \in Numbers
    BY WorkspaceAssumption DEF WorkspaceAssumption, Numbers
  <2>3. page'.queue \in Numbers /\ page'.queue \in {0} \cup DOMAIN queues
    BY <1>2 DEF Legal, Page
  <2> QED BY <2>1, <2>2, <2>3 DEF TInv, Histories
<1>5. LoadFits'
  <2>1. CASE l = NoLoad
    <3>1. load' = [pc |-> "off", q |-> 0, status |-> None, sets |-> {}]
      BY <1>1, <2>1 DEF NoLoad
    <3> QED BY <3>1, WorkspaceAssumption DEF LoadFits, WorkspaceAssumption, Numbers
  <2>2. CASE l = [load EXCEPT !.pc = "second"] /\ load.pc = "deliver" /\ load.q # 0
    <3>1. /\ load'.pc = "second" /\ load'.q = load.q /\ load'.sets = load.sets
          /\ load' \in [pc : {"off", "read", "deliver", "second"}, q : Numbers,
                        status : Statuses \cup {None}, sets : SUBSET Ops]
      BY <1>1, <2>2 DEF TInv, LoadFits
    <3> QED BY <1>1, <1>2, <2>2, <3>1 DEF TInv, LoadFits, server
  <2> QED BY <2>1, <2>2
<1>6. Backend' /\ Grows(queues, runs, queues', runs') /\ queues' = queues /\ runs' = runs
  BY <1>1, SameBackend DEF TInv, server
<1>7. Histories'
  BY <1>1, <1>3, <1>4, <1>6 DEF TInv, Histories, NoClick
<1>8. \A s \in Slots : Captured(s)'
  BY <1>1, <1>6, CapturedGrows DEF TInv
<1>9. ASSUME ~history'.crossed, NEW s \in Slots PROVE CapturedHere(s)'
  BY <1>1, <1>2, <1>3, <1>6, <1>9, CapturedGrows DEF TInv
<1> QED BY <1>1, <1>2, <1>3, <1>5, <1>6, <1>7, <1>8, <1>9 DEF TInv

LEMMA PageLoads ==
  ASSUME TInv, LoadReads \/ LoadDelivers \/ LoadEnds \/ LoadFails
  PROVE  TInv'
<1>0. /\ page \in Page /\ Legal(page, queues, runs) /\ NoGhosts(page) /\ Backend
      /\ ~history.crossed => Consistent(page, queues, runs)
  BY PageNow
<1>1. CASE LoadReads
  <2>1. /\ load' = [pc |-> "deliver", q |-> Latest(page.project),
                    status |-> StatusOf(Latest(page.project)), sets |-> Completed(page.project)]
        /\ UNCHANGED <<page, flight, restore, queues, runs, clicks, history>>
    BY <1>1 DEF LoadReads, server
  <2>2. /\ Latest(page.project) \in {0} \cup DOMAIN queues /\ Latest(page.project) \in Numbers
        /\ Latest(page.project) # 0 => queues[Latest(page.project)].p = page.project
        /\ Completed(page.project) \subseteq OpsIn(page.project)
        /\ Completed(page.project) \subseteq Ops
        /\ StatusOf(Latest(page.project)) \in Statuses \cup {None}
    BY <1>0, LatestRead, CompletedRead, QueueRead DEF StatusOf
  <2>3. LoadFits'
    BY <2>1, <2>2 DEF LoadFits
  <2>4. Backend' /\ Histories'
    BY <2>1 DEF TInv, Backend, Histories
  <2>5. \A s \in Slots : Captured(s)' /\ (CapturedHere(s) => CapturedHere(s)')
    BY <2>1 DEF TInv, Captured, CapturedHere
  <2> QED BY <2>1, <2>3, <2>4, <2>5 DEF TInv
<1>2. CASE LoadDelivers
  <2> DEFINE parsed == IF load.q = 0 THEN page.project ELSE page.parsed
             w == [page EXCEPT !.ops = page.project, !.sets = load.sets, !.parsed = parsed]
             l == IF load.q = 0 THEN NoLoad ELSE [load EXCEPT !.pc = "second"]
  <2>1. /\ load.pc = "deliver" /\ load.sets \subseteq Ops /\ load.sets \subseteq OpsIn(page.project)
    BY <1>2 DEF LoadDelivers, TInv, LoadFits
  <2>2. /\ w \in Page /\ w.project = page.project /\ w.ops = page.project /\ w.parsed = parsed
        /\ w.chosen = page.chosen /\ w.queue = page.queue /\ w.status = page.status
        /\ w.wf = page.wf /\ w.sets = load.sets /\ w.selected = page.selected
        /\ w.approval = page.approval /\ w.report = page.report
    BY <1>0, <2>1 DEF Page
  <2>3. Loads(w, l)
    BY <1>2 DEF LoadDelivers
  <2> HIDE DEF w
  <2>4. /\ Legal(w, queues, runs) /\ (NoGhosts(w) \/ page.sets # {})
        /\ ~history.crossed => Consistent(w, queues, runs)
    BY <1>0, <2>1, <2>2 DEF Legal, NoGhosts, Consistent
  <2> QED BY <2>1, <2>2, <2>3, <2>4, LoadedPage
<1>3. CASE LoadEnds
  <2>1. PICK n \in DOMAIN queues : n = load.q /\ queues[n].p = page.project
    BY <1>3 DEF LoadEnds, TInv, LoadFits
  <2>2. PICK document \in BOOLEAN, workflow \in BOOLEAN :
          LET v == IF workflow /\ PhaseAt(load.status) # None THEN ShowsWorkflow(page, n)
                   ELSE [page EXCEPT !.wf = 0, !.phase = None]
          IN  Loads([v EXCEPT !.queue = n, !.status = load.status, !.chosen = queues[n].op,
                              !.parsed = IF document THEN page.project ELSE @], NoLoad)
    BY <1>3, <2>1 DEF LoadEnds
  <2>3. PICK u : u = IF workflow /\ PhaseAt(load.status) # None THEN ShowsWorkflow(page, n)
                     ELSE [page EXCEPT !.wf = 0, !.phase = None]
    OBVIOUS
  <2>4. /\ Legal(u, queues, runs) /\ u.project = page.project
        /\ u.sets = page.sets /\ u.selected = page.selected
        /\ ~history.crossed => Consistent(u, queues, runs)
    <3>1. CASE u = ShowsWorkflow(page, n)
      BY <1>0, <2>1, <3>1, ShowsWorkflowPage
    <3>2. CASE u = [page EXCEPT !.wf = 0, !.phase = None]
      <4>1. 0 \in Numbers
        BY WorkspaceAssumption DEF WorkspaceAssumption, Numbers
      <4>2. /\ u \in Page /\ u.project = page.project /\ u.ops = page.ops /\ u.parsed = page.parsed
            /\ u.chosen = page.chosen /\ u.queue = page.queue /\ u.status = page.status
            /\ u.wf = 0 /\ u.sets = page.sets /\ u.selected = page.selected
            /\ u.approval = page.approval /\ u.report = page.report
        BY <1>0, <3>2, <4>1 DEF Page
      <4> QED BY <1>0, <4>2 DEF Legal, Consistent
    <3> QED BY <2>3, <3>1, <3>2
  <2>5. /\ queues[n].op \in Ops /\ ProjectOf[queues[n].op] = page.project /\ n \in Numbers /\ n # 0
        /\ load.status \in Statuses \cup {None}
    BY <1>0, <2>1, QueueRead DEF TInv, LoadFits
  <2> DEFINE parsed == IF document THEN page.project ELSE u.parsed
             w == [u EXCEPT !.queue = n, !.status = load.status, !.chosen = queues[n].op,
                            !.parsed = parsed]
  <2>6. /\ parsed \in Projects \cup {None}
        /\ u.parsed \in {page.project, None} => parsed \in {page.project, None}
    BY <1>0, <2>4 DEF Legal, Page
  <2>7. Loads(w, NoLoad)
    BY <2>2, <2>3
  <2> HIDE DEF parsed
  <2>8. /\ w \in Page /\ w.project = u.project /\ w.ops = u.ops /\ w.parsed = parsed
        /\ w.chosen = queues[n].op /\ w.queue = n /\ w.status = load.status /\ w.wf = u.wf
        /\ w.sets = u.sets /\ w.selected = u.selected
        /\ w.approval = u.approval /\ w.report = u.report
    BY <2>4, <2>5, <2>6 DEF Legal, Page
  <2> HIDE DEF w
  <2>9. /\ Legal(w, queues, runs) /\ NoGhosts(w)
        /\ ~history.crossed => Consistent(w, queues, runs)
    BY <1>0, <2>1, <2>4, <2>5, <2>6, <2>8 DEF Legal, NoGhosts, Consistent
  <2> QED BY <2>4, <2>7, <2>8, <2>9, LoadedPage
<1>4. CASE LoadFails
  BY <1>0, <1>4, LoadedPage DEF LoadFails
<1> QED BY <1>1, <1>2, <1>3, <1>4

LEMMA PageRestored == ASSUME TInv, Restored PROVE TInv'
<1>0. /\ page \in Page /\ Legal(page, queues, runs) /\ NoGhosts(page) /\ Backend
      /\ ~history.crossed => Consistent(page, queues, runs)
  BY PageNow
<1>1. \E n \in {0} \cup DOMAIN runs :
        /\ n # 0 => runs[n].p = page.project
        /\ page' = [page EXCEPT !.report = n] \/ page' = page
  <2> DEFINE reports == {n \in DOMAIN runs : runs[n].p = page.project /\ runs[n].q = restore}
             last == CHOOSE n \in reports : \A m \in reports : m <= n
  <2>1. \/ page' = page
        \/ reports # {} /\ page' = [page EXCEPT !.report = last]
        \/ page' = [page EXCEPT !.report = 0]
    BY DEF Restored
  <2>2. reports # {} => last \in reports
    <3>1. reports \subseteq 0..MaxRuns
      BY <1>0, WorkspaceAssumption DEF Backend, WorkspaceAssumption
    <3> HIDE DEF reports
    <3>2. reports # {} => \E n \in reports : \A m \in reports : m <= n
      BY <3>1, Greatest, WorkspaceAssumption DEF WorkspaceAssumption
    <3> QED BY <3>2
  <2> HIDE DEF last
  <2> QED BY <2>1, <2>2
<1>2. PICK n \in {0} \cup DOMAIN runs :
        /\ n # 0 => runs[n].p = page.project
        /\ page' = [page EXCEPT !.report = n] \/ page' = page
  BY <1>1
<1>3. UNCHANGED <<flight, load, queues, runs, clicks, history>> /\ restore' = 0
  BY DEF Restored, server
<1>4. n \in 0..MaxRuns
  BY <1>0, WorkspaceAssumption DEF Backend, WorkspaceAssumption
<1>5. /\ page' \in Page /\ page'.project = page.project /\ page'.ops = page.ops
      /\ page'.parsed = page.parsed
      /\ page'.chosen = page.chosen /\ page'.queue = page.queue /\ page'.status = page.status
      /\ page'.wf = page.wf /\ page'.sets = page.sets /\ page'.selected = page.selected
      /\ page'.approval = page.approval /\ page'.report \in {n, page.report}
  BY <1>0, <1>2, <1>4 DEF Page
<1>6. /\ Legal(page', queues', runs') /\ NoGhosts(page')
      /\ ~history.crossed => Consistent(page', queues', runs')
  BY <1>0, <1>2, <1>3, <1>5 DEF Legal, NoGhosts, Consistent
<1>7. LoadFits' /\ Backend'
  BY <1>3, <1>5 DEF TInv, LoadFits, Backend
<1>8. Histories'
  BY <1>3, WorkspaceAssumption DEF TInv, Histories, WorkspaceAssumption, Numbers
<1>9. \A s \in Slots : Captured(s)' /\ (CapturedHere(s) => CapturedHere(s)')
  BY <1>3, <1>5 DEF TInv, Captured, CapturedHere
<1> QED BY <1>3, <1>6, <1>7, <1>8, <1>9 DEF TInv

LEMMA PageSettles == ASSUME TInv, NEW n \in DOMAIN queues, ServerSettles(n) PROVE TInv'
<1>1. Backend' /\ Grows(queues, runs, queues', runs')
  <2>1. PICK st \in Statuses : Becomes(n, st)
    BY DEF ServerSettles, Statuses
  <2>2. UNCHANGED runs
    BY DEF ServerSettles
  <2> QED BY <2>1, <2>2, BecomesGrows DEF TInv
<1>2. UNCHANGED <<page, flight, load, restore, clicks, history>>
  BY DEF ServerSettles
<1>3. /\ Legal(page', queues', runs') /\ NoGhosts(page')
      /\ ~history'.crossed => Consistent(page', queues', runs')
  BY <1>1, <1>2, LegalGrows DEF TInv
<1>4. LoadFits' /\ Histories'
  BY <1>1, <1>2 DEF TInv, LoadFits, Histories, Grows
<1>5. \A s \in Slots : Captured(s)' /\ (CapturedHere(s) => CapturedHere(s)')
  BY <1>1, <1>2, CapturedGrows DEF TInv
<1> QED BY <1>1, <1>2, <1>3, <1>4, <1>5 DEF TInv

-----------------------------------------------------------------------------
(* The second invariant.                                                    *)

LEMMA EarlierBackend ==
  ASSUME NEW qs \in Earlier
  PROVE  qs \in Seq(Queue) /\ Len(qs) <= 2 /\ \A n \in DOMAIN qs : ProjectOf[qs[n].op] = qs[n].p
<1> DEFINE Was(op, st) == [p |-> ProjectOf[op], op |-> op, status |-> st]
<1>1. ASSUME NEW op \in Ops, NEW st \in Statuses
      PROVE  Was(op, st) \in Queue /\ ProjectOf[Was(op, st).op] = Was(op, st).p
  BY WorkspaceAssumption DEF Queue, WorkspaceAssumption
<1>2. \/ qs = <<>>
      \/ \E op \in Ops : \E st \in Statuses : qs = <<Was(op, st)>>
      \/ \E op \in Ops : \E other \in Ops : qs = <<Was(op, "READY"), Was(other, "READY")>>
  BY DEF Earlier
<1>3. "READY" \in Statuses
  BY DEF Statuses
<1> HIDE DEF Was
<1>4. CASE qs = <<>>
  BY <1>4
<1>5. ASSUME NEW op \in Ops, NEW st \in Statuses, qs = <<Was(op, st)>>
      PROVE  qs \in Seq(Queue) /\ Len(qs) <= 2 /\ \A n \in DOMAIN qs : ProjectOf[qs[n].op] = qs[n].p
  <2>1. PICK q \in Queue : q = Was(op, st) /\ ProjectOf[q.op] = q.p
    BY <1>1
  <2>2. qs = <<q>>
    BY <1>5, <2>1
  <2>3. Len(qs) = 1 /\ \A n \in DOMAIN qs : qs[n] = q
    BY <2>2
  <2> QED BY <2>1, <2>2, <2>3
<1>6. ASSUME NEW op \in Ops, NEW other \in Ops, qs = <<Was(op, "READY"), Was(other, "READY")>>
      PROVE  qs \in Seq(Queue) /\ Len(qs) <= 2 /\ \A n \in DOMAIN qs : ProjectOf[qs[n].op] = qs[n].p
  <2>1. PICK q \in Queue : q = Was(op, "READY") /\ ProjectOf[q.op] = q.p
    BY <1>1, <1>3
  <2>2. PICK r \in Queue : r = Was(other, "READY") /\ ProjectOf[r.op] = r.p
    BY <1>1, <1>3
  <2>3. qs = <<q, r>>
    BY <1>6, <2>1, <2>2
  <2>4. Len(qs) = 2 /\ \A n \in DOMAIN qs : qs[n] \in {q, r}
    BY <2>3
  <2>5. qs \in Seq(Queue)
    BY <2>3
  <2> QED BY <2>1, <2>2, <2>4, <2>5
<1> QED BY <1>2, <1>4, <1>5, <1>6

\* The page opens on a project whose queues and cases are read next.
THEOREM PageOpens == Init => TInv
<1> SUFFICES ASSUME Init PROVE TInv
  OBVIOUS
<1>1. 0 \in Numbers /\ 0 \in 0..MaxRuns /\ 0 \in 0..MaxClicks
  BY WorkspaceAssumption DEF WorkspaceAssumption, Numbers
<1>2. Backend
  <2>1. queues \in Earlier /\ runs = <<>>
    BY DEF Init
  <2> QED BY <2>1, EarlierBackend, WorkspaceAssumption DEF Backend, WorkspaceAssumption
<1>3. Histories
  BY <1>1 DEF Init, Histories
<1>4. load = [pc |-> "read", q |-> 0, status |-> None, sets |-> {}]
  BY DEF Init, NoLoad
<1>5. LoadFits
  BY <1>1, <1>4 DEF LoadFits
<1>6. /\ page \in Page /\ page.ops = None /\ page.parsed = None /\ page.chosen = None
      /\ page.queue = 0 /\ page.status = None /\ page.wf = 0 /\ page.sets = {}
      /\ page.selected = {} /\ page.approval = NoApproval /\ page.report = 0
  BY <1>1 DEF Init, Page, NoApproval
<1>7. Legal(page, queues, runs) /\ NoGhosts(page) /\ Consistent(page, queues, runs)
  BY <1>6 DEF Legal, NoGhosts, Consistent, NoApproval
<1>8. Idle \in Flight /\ Idle.kind = None /\ Idle.q = 0
  <2>1. Idle.kind = None /\ Idle.q = 0
    BY DEF Idle
  <2>2. Idle \in Flight
    BY <1>1 DEF Idle, Flight, Requests
  <2> QED BY <2>1, <2>2
<1>9. flight \in [Slots -> Flight] /\ \A s \in Slots : flight[s] = Idle
  BY <1>8 DEF Init
<1>10. None # "run"
  BY WorkspaceAssumption DEF WorkspaceAssumption, Kinds
<1>11. \A s \in Slots : Captured(s) /\ CapturedHere(s)
  BY <1>8, <1>9, <1>10 DEF Captured, CapturedHere
<1> QED BY <1>2, <1>3, <1>5, <1>7, <1>9, <1>11 DEF TInv

\* No step breaks the types, nor, while no project is changed under a
\* handler, what ties the page to its project.
THEOREM NextTypes == TInv /\ [Next]_vars => TInv'
<1> SUFFICES ASSUME TInv, [Next]_vars PROVE TInv'
  OBVIOUS
<1>1. CASE User
  BY <1>1, PageAtOnce, PageHandlers DEF User
<1>2. CASE \E s \in Slots : Answer(s)
  BY <1>2, PageAnswers
<1>3. CASE LoadReads \/ LoadDelivers \/ LoadEnds \/ LoadFails
  BY <1>3, PageLoads
<1>4. CASE Restored
  BY <1>4, PageRestored
<1>5. CASE \E n \in DOMAIN queues : ServerSettles(n)
  BY <1>5, PageSettles
<1>6. CASE UNCHANGED vars
  BY <1>6 DEF vars, TInv, Backend, Histories, LoadFits, Captured, CapturedHere
<1> QED BY <1>1, <1>2, <1>3, <1>4, <1>5, <1>6 DEF Next

\* For any number of projects, operations, handlers and clicks: everything
\* the page, the handlers and the backend hold stays within its type, and the
\* page refers only to queues, workflows and reports that exist.
THEOREM TypeCorrect == Spec => []TypeOK
<1>1. TInv => TypeOK
  BY DEF TInv, Backend, Histories, LoadFits, Legal, TypeOK
<1> QED BY <1>1, PageOpens, NextTypes, PTL DEF Spec

\* For any number of projects, operations, handlers and clicks: all that the
\* page shows is of the selected project, unless the project was changed
\* while a handler was in flight.
THEOREM ShownCorrect == Spec => []ShownBelongsToProject
<1>1. TInv => ShownBelongsToProject
  <2> SUFFICES ASSUME TInv, ~history.crossed PROVE ShownBelongsToProject
    BY DEF ShownBelongsToProject
  <2>1. Consistent(page, queues, runs)
    BY DEF TInv
  <2> QED BY <2>1 DEF Consistent, ShownBelongsToProject, OpsIn
<1> QED BY <1>1, PageOpens, NextTypes, PTL DEF Spec

-----------------------------------------------------------------------------
(* What the gate shows.  A selection changes without the approval and the   *)
(* confirmation being cleared only where a handler reads the final cases,   *)
(* and then the cases are more than those shown, which clears both: the     *)
(* operation that was just designed is of no other queue.                   *)

DifferentOps == \A m, n \in DOMAIN queues : m # n => queues[m].op # queues[n].op

\* What is shown, and what the loader brings, was complete at some time.
Chain ==
  /\ page.sets \subseteq Completed(page.project)
  /\ load.pc = "deliver" =>
       /\ load.sets \subseteq Completed(page.project)
       /\ page.sets \subseteq load.sets \/ load.sets \subseteq page.sets

\* A handler that awaits a design, or the cases after it.
Designs(s) == flight[s].kind \in {"approve", "retry"} /\ flight[s].pc \in {"poll", "cases"}
OpOf(s) == queues[flight[s].q].op

Stage(s) ==
  Designs(s) =>
    /\ flight[s].pc = "cases" => queues[flight[s].q].status = "READY"
    /\ \/ history.crossed \/ OpOf(s) \notin page.sets
       \/ /\ page.confirmed = {} \/ history.hasty
          /\ page.approval = NoApproval \/ history.overlapped

\* The gate was asked with the selection that is shown.
Held(s) == flight[s].kind = "gate" => history.moved \/ flight[s].cases = page.selected

Gates ==
  /\ DifferentOps /\ (~history.crossed => Chain)
  /\ \A s \in Slots : Stage(s) /\ Held(s)
  /\ ApprovedIsSelected /\ ConfirmedIsSelected

GInv == TInv /\ IInv /\ Gates

\* The fields that the effects write exist.
Shaped(w) ==
  {"project", "sets", "selected", "approval", "report", "confirmed", "busy", "starting"}
    \subseteq DOMAIN w

LEMMA AnewPage ==
  ASSUME NEW old, NEW w, Shaped(w), w.project # old.project
  PROVE  Rendered(old, w).sets = {} /\ Rendered(old, w).approval = NoApproval
<1> DEFINE seen == Follow(old, w)
           cleared == Loading(seen)
           last == Follow(seen, cleared)
<1>1. Rendered(old, w) = last
  BY DEF Rendered
<1>2. DOMAIN seen = DOMAIN w
  BY DEF Follow, Reselect
<1> HIDE DEF seen
<1>3. /\ DOMAIN Blank(seen) = DOMAIN w
      /\ "approval" \in DOMAIN w /\ "sets" \in DOMAIN w
      /\ Blank(seen).approval = NoApproval
  BY <1>2 DEF Blank, Shaped
<1>4. DOMAIN cleared = DOMAIN w /\ cleared.sets = {} /\ cleared.approval = NoApproval
  BY <1>3 DEF Loading
<1> HIDE DEF cleared
<1>5. last.sets = {} /\ last.approval = NoApproval
  BY <1>3, <1>4 DEF Follow, Reselect
<1> QED BY <1>1, <1>5

LEMMA FollowGate ==
  ASSUME NEW old, NEW w, Shaped(w)
  PROVE  /\ Keys(old) = Keys(w) => Follow(old, w) = w
         /\ Keys(old) # Keys(w) =>
              /\ Follow(old, w).approval = NoApproval /\ Follow(old, w).confirmed = {}
         /\ Follow(old, w).sets = w.sets /\ Follow(old, w).project = w.project
BY DEF Follow, Reselect, Shaped

-----------------------------------------------------------------------------
(* A step, seen from the gate.                                              *)

\* What a step notes of what it changes.
Noted(w) ==
  /\ page' = Rendered(page, w)
  /\ history.crossed => history'.crossed
  /\ history.overlapped => history'.overlapped
  /\ history.moved => history'.moved
  /\ history.hasty => history'.hasty
  /\ page'.selected # page.selected /\ (\E s \in Slots : flight'[s].kind = "gate") => history'.moved
  /\ page'.confirmed # {} /\ page.confirmed = {} /\ InFlight(flight) # {} => history'.hasty
  /\ w.project # page.project /\ InFlight(flight') # {} => history'.crossed
  /\ load'.pc = "deliver" => load' = load /\ w.project = page.project

LEMMA RenderedProject ==
  ASSUME NEW old, NEW w, Shaped(w)
  PROVE  Rendered(old, w).project = w.project
<1> DEFINE seen == Follow(old, w)
           cleared == Loading(seen)
           last == Follow(seen, cleared)
<1>1. Rendered(old, w) \in {seen, last}
  BY DEF Rendered
<1>2. "project" \in DOMAIN seen /\ seen.project = w.project
  BY DEF Follow, Reselect, Shaped
<1> HIDE DEF seen
<1>3. "project" \in DOMAIN cleared /\ cleared.project = seen.project
  BY <1>2 DEF Loading, Blank
<1> HIDE DEF cleared
<1>4. last.project = seen.project
  BY <1>3 DEF Follow, Reselect
<1> QED BY <1>1, <1>2, <1>4

LEMMA WriteNotes == ASSUME NEW w, Shaped(w), Write(w) PROVE Noted(w)
<1>1. page' = Rendered(page, w) /\ page'.project = w.project
  BY RenderedProject DEF Write
<1>2. /\ history' =
           [crossed |-> history.crossed \/ (page'.project # page.project /\ InFlight(flight') # {}),
            overlapped |-> history.overlapped \/
              (InFlight(flight) # {} /\ \E s \in Slots \ InFlight(flight) : flight'[s].kind = "upload"),
            moved |-> history.moved \/
              (page'.selected # page.selected /\ \E s \in Slots : flight'[s].kind = "gate"),
            hasty |-> history.hasty \/ (page'.confirmed \ page.confirmed # {} /\ InFlight(flight) # {})]
  BY DEF Write
<1>3. load'.pc = "deliver" => load' = load /\ w.project = page.project
  <2>1. w.project # page.project => load' = [pc |-> "read", q |-> 0, status |-> None, sets |-> {}]
    BY DEF Write, NoLoad
  <2>2. w.project = page.project => load' = load
    BY DEF Write
  <2> QED BY <2>1, <2>2
<1>4. /\ history.crossed => history'.crossed
      /\ history.overlapped => history'.overlapped
      /\ history.moved => history'.moved
      /\ history.hasty => history'.hasty
  BY <1>2
<1>5. page'.selected # page.selected /\ (\E s \in Slots : flight'[s].kind = "gate") => history'.moved
  BY <1>2
<1>6. page'.confirmed # {} /\ page.confirmed = {} /\ InFlight(flight) # {} => history'.hasty
  BY <1>2
<1>7. w.project # page.project /\ InFlight(flight') # {} => history'.crossed
  BY <1>1, <1>2
<1> QED BY <1>1, <1>3, <1>4, <1>5, <1>6, <1>7 DEF Noted

LEMMA LoadNotes ==
  ASSUME TInv, NEW w, NEW l, Loads(w, l), Shaped(w), w.project = page.project,
         w.confirmed = page.confirmed, l.pc # "deliver"
  PROVE  Noted(w)
<1>1. page' = Rendered(page, w) /\ load' = l /\ UNCHANGED flight
  BY DEF Loads
<1>2. /\ history' = [history EXCEPT !.moved = @ \/ (page'.selected # page.selected
                                                /\ \E s \in Slots : flight[s].kind = "gate")]
      /\ history \in [crossed : BOOLEAN, overlapped : BOOLEAN, moved : BOOLEAN, hasty : BOOLEAN]
  BY DEF Loads, TInv, Histories
<1>3. /\ history'.crossed = history.crossed /\ history'.overlapped = history.overlapped
      /\ history'.hasty = history.hasty
      /\ history.moved => history'.moved
      /\ page'.selected # page.selected /\ (\E s \in Slots : flight'[s].kind = "gate") => history'.moved
  BY <1>1, <1>2
<1>4. page'.confirmed = {} \/ page'.confirmed = page.confirmed
  BY <1>1, FollowGate DEF Rendered
<1> QED BY <1>1, <1>3, <1>4 DEF Noted

\* No queue goes back from READY, and the operations of queues differ.
Steady ==
  /\ DOMAIN queues \subseteq DOMAIN queues'
  /\ \A n \in DOMAIN queues :
       /\ queues'[n].p = queues[n].p /\ queues'[n].op = queues[n].op
       /\ queues[n].status = "READY" => queues'[n].status = "READY"
  /\ DifferentOps'

LEMMA CompletedStays == ASSUME Steady, NEW p PROVE Completed(p) \subseteq Completed(p)'
BY DEF Steady, Completed, Of

\* What a handler holds after the step.
Entered(t) ==
  Designs(t)' =>
    /\ flight'[t].pc = "cases" => queues'[flight'[t].q].status = "READY"
    /\ \/ history.crossed \/ OpOf(t)' \notin page.sets
       \/ Designs(t) /\ OpOf(t)' = OpOf(t)

Took(t) ==
  flight'[t].kind = "gate" =>
    \/ flight'[t].cases = page.selected
    \/ flight[t].kind = "gate" /\ flight'[t].cases = flight[t].cases

LEMMA OthersStay ==
  ASSUME GInv, Steady, NEW t \in Slots, flight'[t] = flight[t]
  PROVE  Entered(t) /\ Took(t)
<1>1. Took(t)
  BY DEF Took
<1>2. ASSUME Designs(t)' PROVE /\ flight'[t].pc = "cases" => queues'[flight'[t].q].status = "READY"
                               /\ Designs(t) /\ OpOf(t)' = OpOf(t)
  <2>1. Designs(t)
    BY <1>2 DEF Designs
  <2>2. flight[t].q \in DOMAIN queues
    <3>1. flight[t].kind # None
      BY <2>1, WorkspaceAssumption DEF Designs, WorkspaceAssumption, Kinds
    <3> QED BY <2>1, <3>1, Capture DEF GInv, Designs, Later
  <2>3. OpOf(t)' = OpOf(t)
    BY <2>2 DEF Steady, OpOf
  <2>4. flight'[t].pc = "cases" => queues'[flight'[t].q].status = "READY"
    BY <2>1, <2>2 DEF GInv, Gates, Stage, Steady
  <2> QED BY <2>1, <2>3, <2>4
<1> QED BY <1>1, <1>2 DEF Entered

\* What is asked of the page that is written, before the effects.
Sound(w) ==
  /\ w.approval # NoApproval =>
       \/ history.moved \/ history.crossed \/ history.overlapped
       \/ w.approval.cases = w.selected
  /\ w.confirmed # {} =>
       \/ history.hasty \/ history.crossed
       \/ w.selected \cap SideEffects \subseteq w.confirmed

Fits(w) ==
  /\ Keys(page) = Keys(w) => Sound(w)
  /\ w.sets \subseteq page.sets \/ page.sets \subseteq w.sets
  /\ w.sets \subseteq Completed(page.project)'
  /\ load.pc = "deliver" /\ load' = load => w.sets \subseteq load.sets \/ load.sets \subseteq w.sets
  /\ \/ page.approval # NoApproval \/ w.approval = NoApproval
     \/ history.overlapped \/ InFlight(flight') = {}

LEMMA Moves ==
  ASSUME GInv, TInv', NEW w, Shaped(w), Noted(w), Steady,
         w.project = page.project /\ ~history.crossed => Fits(w),
         \A t \in Slots : Entered(t) /\ Took(t)
  PROVE  Gates'
<1>1. \A t \in Slots : Held(t)'
  BY DEF Took, Held, Noted, GInv, Gates
<1>2. NoGhosts(page') /\ page \in Page /\ page' \in Page
  BY DEF GInv, TInv, Legal
<1>3. DifferentOps'
  BY DEF Steady
<1>4. /\ \A t \in Slots : flight'[t].pc = "cases" /\ Designs(t)' => queues'[flight'[t].q].status = "READY"
  BY DEF Entered
<1>5. CASE history'.crossed
  BY <1>1, <1>3, <1>4, <1>5 DEF Gates, Stage, ApprovedIsSelected, ConfirmedIsSelected
<1>6. CASE ~history'.crossed /\ w.project # page.project
  <2>1. page'.sets = {} /\ page'.approval = NoApproval /\ page'.selected = {}
    BY <1>2, <1>6, AnewPage DEF Noted, NoGhosts
  <2>2. ApprovedIsSelected' /\ ConfirmedIsSelected'
    BY <2>1 DEF ApprovedIsSelected, ConfirmedIsSelected
  <2>3. \A t \in Slots : Stage(t)'
    BY <1>4, <2>1 DEF Stage
  <2>4. load'.pc # "deliver"
    BY <1>6 DEF Noted
  <2> QED BY <1>1, <1>3, <2>1, <2>2, <2>3, <2>4 DEF Gates, Chain
<1>7. CASE ~history'.crossed /\ w.project = page.project
  <2>1. ~history.crossed /\ Fits(w) /\ page' = Follow(page, w)
    BY <1>7 DEF Noted, Rendered
  <2>2. /\ Keys(page) = Keys(w) => page' = w
        /\ Keys(page) # Keys(w) => page'.approval = NoApproval /\ page'.confirmed = {}
        /\ page'.sets = w.sets /\ page'.project = page.project
    BY <1>7, <2>1, FollowGate
  <2>3. ApprovedIsSelected' /\ ConfirmedIsSelected'
    <3>1. CASE Keys(page) # Keys(w)
      BY <2>2, <3>1 DEF ApprovedIsSelected, ConfirmedIsSelected
    <3>2. CASE Keys(page) = Keys(w)
      BY <2>1, <2>2, <3>2 DEF ApprovedIsSelected, ConfirmedIsSelected, Fits, Sound, Noted
    <3> QED BY <3>1, <3>2
  <2>4. Chain'
    <3>1. page'.sets \subseteq Completed(page.project)'
      BY <2>1, <2>2 DEF Fits
    <3>2. ASSUME load'.pc = "deliver"
          PROVE  /\ load'.sets \subseteq Completed(page.project)'
                 /\ page'.sets \subseteq load'.sets \/ load'.sets \subseteq page'.sets
      <4>1. load' = load
        BY <3>2 DEF Noted
      <4>2. load.sets \subseteq Completed(page.project)
        BY <2>1, <3>2, <4>1 DEF GInv, Gates, Chain
      <4>3. PICK p : p = page.project
        OBVIOUS
      <4>4. Completed(p) \subseteq Completed(p)'
        BY CompletedStays
      <4>5. load.sets \subseteq Completed(page.project)'
        BY <2>2, <4>2, <4>3, <4>4
      <4> QED BY <2>1, <2>2, <3>2, <4>1, <4>5 DEF Fits
    <3> QED BY <3>1, <3>2 DEF Chain
  <2>5. Keys(page) = Keys(w) => w.sets = page.sets
    <3>1. Keys(page) = Keys(w) => Cardinality(w.sets) = Cardinality(page.sets)
      BY DEF Keys
    <3>2. IsFiniteSet(page.sets) /\ IsFiniteSet(w.sets)
      BY <1>2, <2>2, FS_Subset, WorkspaceAssumption DEF Page, WorkspaceAssumption
    <3> QED BY <2>1, <3>1, <3>2, FS_Subset DEF Fits
  <2>6. ASSUME NEW t \in Slots, Designs(t)', OpOf(t)' \in page'.sets
        PROVE  /\ page'.confirmed = {} \/ history'.hasty
               /\ page'.approval = NoApproval \/ history'.overlapped
    <3>1. CASE Keys(page) # Keys(w)
      BY <2>2, <3>1
    <3>2. CASE Keys(page) = Keys(w)
      <4>1. page' = w /\ w.sets = page.sets
        BY <2>2, <2>5, <3>2
      <4>2. Designs(t) /\ OpOf(t)' = OpOf(t)
        BY <2>1, <2>6, <4>1 DEF Entered
      <4>3. /\ page.confirmed = {} \/ history.hasty
            /\ page.approval = NoApproval \/ history.overlapped
        BY <2>1, <2>6, <4>1, <4>2 DEF GInv, Gates, Stage
      <4>4. t \in InFlight(flight) /\ t \in InFlight(flight')
        BY <2>6, <4>2, WorkspaceAssumption DEF Designs, InFlight, WorkspaceAssumption, Kinds
      <4> QED BY <2>1, <4>1, <4>3, <4>4 DEF Noted, Fits
    <3> QED BY <3>1, <3>2
  <2>7. \A t \in Slots : Stage(t)'
    BY <1>4, <2>6 DEF Stage
  <2> QED BY <1>1, <1>3, <2>3, <2>4, <2>7 DEF Gates
<1> QED BY <1>5, <1>6, <1>7

-----------------------------------------------------------------------------
(* The kinds of steps, for the gate.                                        *)

\* A page written with the cases as they were; what is selected stays, or
\* the approval is taken back.
Plain(w) ==
  /\ Shaped(w) /\ w.sets = page.sets /\ w.confirmed = page.confirmed
  /\ \/ w.selected = page.selected /\ w.approval = page.approval
     \/ w.selected \subseteq page.selected /\ w.approval = NoApproval

LEMMA PlainPage ==
  ASSUME TInv
  PROVE  /\ Shaped(page) /\ Plain(page) /\ Plain(Blank(page)) /\ Plain(ResetContext(page))
         /\ \A w, n : Plain(w) => Plain(Shows(w, n)) /\ Plain(ShowsWorkflow(w, n))
         /\ \A w, x : Plain(w) => Plain([w EXCEPT !.chosen = x])
         /\ \A w, x : Plain(w) => Plain([w EXCEPT !.parsed = x])
<1>1. page \in Page
  BY DEF TInv, Legal
<1>2. Shaped(page)
  BY <1>1 DEF Shaped, Page
<1>3. Plain(page)
  BY <1>2 DEF Plain
<1>4. Plain(Blank(page)) /\ Shaped(Blank(page)) /\ Blank(page).approval = NoApproval
  BY <1>2 DEF Plain, Blank, Shaped
<1>5. Plain(ResetContext(page))
  BY <1>4 DEF Plain, ResetContext, Shaped
<1>6. \A w, n : Plain(w) => Plain(Shows(w, n)) /\ Plain(ShowsWorkflow(w, n))
  BY DEF Plain, Shows, ShowsWorkflow, Shaped
<1>7. /\ \A w, x : Plain(w) => Plain([w EXCEPT !.chosen = x])
      /\ \A w, x : Plain(w) => Plain([w EXCEPT !.parsed = x])
  BY DEF Plain, Shaped
<1> QED BY <1>2, <1>3, <1>4, <1>5, <1>6, <1>7

LEMMA PlainMoves ==
  ASSUME GInv, TInv', NEW w, Plain(w), Noted(w), Steady, \A t \in Slots : Entered(t) /\ Took(t)
  PROVE  Gates'
<1>1. ASSUME w.project = page.project, ~history.crossed PROVE Fits(w)
  <2>1. Sound(w)
    BY DEF Plain, Sound, GInv, Gates, ApprovedIsSelected, ConfirmedIsSelected
  <2>2. Chain
    BY <1>1 DEF GInv, Gates
  <2>3. page'.project = page.project
    BY <1>1, RenderedProject DEF Noted, Plain
  <2>4. PICK p : p = page.project
    OBVIOUS
  <2>5. Completed(p) \subseteq Completed(p)'
    BY CompletedStays
  <2>6. w.sets \subseteq Completed(page.project)'
    BY <2>2, <2>3, <2>4, <2>5 DEF Chain, Plain
  <2> QED BY <2>1, <2>2, <2>6 DEF Fits, Plain, Chain
<1> QED BY <1>1, Moves DEF Plain

LEMMA Appended ==
  ASSUME NEW S, NEW seq \in Seq(S), NEW e \in S
  PROVE  LET more == Append(seq, e)
         IN  /\ DOMAIN more = DOMAIN seq \cup {Len(seq) + 1}
             /\ \A n \in DOMAIN seq : more[n] = seq[n]
             /\ more[Len(seq) + 1] = e
OBVIOUS

\* The backend: nothing, a queue that was not READY, or a new queue.
LEMMA Steadily ==
  ASSUME GInv,
         \/ UNCHANGED queues
         \/ \E n \in DOMAIN queues : \E st \in Statuses :
              Becomes(n, st) /\ queues[n].status # "READY"
         \/ \E p \in Projects : \E op \in Ops :
              MayCreate(p, op) /\ queues' = Append(queues, [p |-> p, op |-> op, status |-> "PENDING"])
  PROVE  Steady
<1>1. /\ Backend /\ DifferentOps /\ queues \in Seq(Queue)
      /\ DOMAIN queues = 1..Len(queues) /\ Len(queues) \in Nat
      /\ \A n \in DOMAIN queues : queues[n] \in Queue
  BY DEF GInv, TInv, Gates, Backend
<1>2. CASE UNCHANGED queues
  BY <1>1, <1>2 DEF Steady, DifferentOps
<1>3. ASSUME NEW n \in DOMAIN queues, NEW st \in Statuses, Becomes(n, st), queues[n].status # "READY"
      PROVE  Steady
  <2>1. queues' = [queues EXCEPT ![n] = [queues[n] EXCEPT !.status = st]]
    BY <1>1, <1>3 DEF Becomes
  <2>2. /\ DOMAIN queues' = DOMAIN queues
        /\ \A m \in DOMAIN queues :
             /\ queues'[m].p = queues[m].p /\ queues'[m].op = queues[m].op
             /\ m # n => queues'[m].status = queues[m].status
    BY <1>1, <2>1 DEF Queue
  <2> QED BY <1>1, <1>3, <2>2 DEF Steady, DifferentOps
<1>4. ASSUME NEW p \in Projects, NEW op \in Ops, MayCreate(p, op),
             queues' = Append(queues, [p |-> p, op |-> op, status |-> "PENDING"])
      PROVE  Steady
  <2>1. /\ DOMAIN queues' = DOMAIN queues \cup {Len(queues) + 1}
        /\ \A m \in DOMAIN queues : queues'[m] = queues[m]
        /\ queues'[Len(queues) + 1].op = op
    <3>1. PICK q \in Queue : q = [p |-> p, op |-> op, status |-> "PENDING"] /\ q.op = op
      BY <1>4 DEF Queue, Statuses
    <3>2. queues' = Append(queues, q)
      BY <1>4, <3>1
    <3>3. /\ DOMAIN Append(queues, q) = DOMAIN queues \cup {Len(queues) + 1}
          /\ \A m \in DOMAIN queues : Append(queues, q)[m] = queues[m]
          /\ Append(queues, q)[Len(queues) + 1] = q
      <4>1. queues \in Seq(Queue) /\ q \in Queue
        BY <1>1, <3>1
      <4> HIDE DEF Queue
      <4> QED BY ONLY <4>1, Appended
    <3> QED BY <3>1, <3>2, <3>3
  <2>2. ASSUME NEW m \in DOMAIN queues PROVE queues[m].op # op
    <3>1. CASE queues[m].p = p
      <4>1. queues[m].status = "READY" /\ op \notin Completed(p)
        BY <1>4, <3>1 DEF MayCreate, Of
      <4> QED BY <3>1, <4>1 DEF Completed, Of
    <3>2. CASE queues[m].p # p
      <4>1. ProjectOf[queues[m].op] = queues[m].p /\ ProjectOf[op] = p
        BY <1>1, <1>4, QueueRead DEF MayCreate
      <4> QED BY <3>2, <4>1, SMTT(30)
    <3> QED BY <3>1, <3>2
  <2> QED BY <1>1, <2>1, <2>2 DEF Steady, DifferentOps
<1> QED BY <1>2, <1>3, <1>4

LEMMA BegunGate ==
  ASSUME GInv, TInv', NEW s \in Slots, NEW kind, NEW pc, pc \notin {"poll", "cases"},
         NEW w, Plain(w), Begin(s, kind, pc, w)
  PROVE  Gates'
<1> DEFINE busy == [w EXCEPT !.busy = TRUE]
<1>1. Plain(busy)
  BY DEF Plain, Shaped
<1>2. Write(busy) /\ UNCHANGED queues
  BY DEF Begin, server
<1> HIDE DEF busy
<1>3. Noted(busy) /\ Steady
  BY <1>1, <1>2, WriteNotes, Steadily DEF Plain
<1>4. /\ flight'[s].pc = pc /\ flight'[s].kind = kind
      /\ kind = "gate" => flight'[s].cases = page.selected
      /\ \A t \in Slots \ {s} : flight'[t] = flight[t]
  <2>1. /\ flight'[s].pc = pc /\ flight'[s].kind = kind
        /\ flight'[s].cases = CasesOf(kind)
        /\ \A t \in Slots \ {s} : flight'[t] = flight[t]
    BY DEF Begin, GInv, TInv
  <2>2. kind = "gate" => CasesOf(kind) = page.selected
    BY DEF CasesOf
  <2> QED BY <2>1, <2>2
<1>5. Entered(s) /\ Took(s)
  BY <1>4 DEF Entered, Took, Designs
<1> QED BY <1>1, <1>3, <1>4, <1>5, OthersStay, PlainMoves

LEMMA EndsOthers ==
  ASSUME GInv, NEW s \in Slots, flight' = [flight EXCEPT ![s] = Idle], Steady
  PROVE  \A t \in Slots : Entered(t) /\ Took(t)
<1>1. /\ flight'[s].kind = None
      /\ \A t \in Slots \ {s} : flight'[t] = flight[t]
  BY DEF Idle, GInv, TInv
<1>2. Entered(s) /\ Took(s)
  BY <1>1, WorkspaceAssumption DEF Entered, Took, Designs, WorkspaceAssumption, Kinds
<1> QED BY <1>1, <1>2, OthersStay

LEMMA EndedGate ==
  ASSUME GInv, TInv', NEW s \in Slots, NEW w, Plain(w), Ends(s, w), Steady
  PROVE  Gates'
<1> DEFINE done == [w EXCEPT !.busy = FALSE,
                             !.starting = @ /\ flight[s].kind \notin {"run", "retry"}]
<1>1. Plain(done)
  BY DEF Plain, Shaped
<1>2. Write(done) /\ flight' = [flight EXCEPT ![s] = Idle]
  BY DEF Ends
<1> HIDE DEF done
<1> QED BY <1>1, <1>2, WriteNotes, EndsOthers, PlainMoves DEF Plain

LEMMA AwaitedGate ==
  ASSUME GInv, TInv', NEW s \in Slots, NEW pc, NEW w, Plain(w), Awaits(s, pc, w), Steady,
         flight[s].kind \in {"approve", "retry"} /\ pc \in {"poll", "cases"} =>
           /\ flight[s].q \in DOMAIN queues
           /\ pc = "cases" => queues[flight[s].q].status = "READY"
           /\ history.crossed \/ Designs(s) \/ OpOf(s) \notin page.sets
  PROVE  Gates'
<1>1. Write(w) /\ flight' = [flight EXCEPT ![s].pc = pc]
  BY DEF Awaits
<1>2. /\ flight'[s].pc = pc /\ flight'[s].kind = flight[s].kind /\ flight'[s].q = flight[s].q
      /\ flight'[s].cases = flight[s].cases
      /\ \A t \in Slots \ {s} : flight'[t] = flight[t]
  BY <1>1 DEF GInv, TInv, Flight
<1>3. Took(s)
  BY <1>2 DEF Took
<1>4. Entered(s)
  BY <1>2 DEF Entered, Designs, OpOf, Steady
<1>5. \A t \in Slots : Entered(t) /\ Took(t)
  BY <1>2, <1>3, <1>4, OthersStay
<1> QED BY <1>1, <1>5, WriteNotes, PlainMoves DEF Plain

LEMMA GateAtOnce ==
  ASSUME GInv, TInv',
         \/ \E p \in Projects : SelectProject(p)
         \/ \E op \in Ops : SelectOperation(op) \/ Toggle(op)
         \/ SelectDocument \/ Confirm
  PROVE  Gates'
<1>0. /\ Shaped(page) /\ Plain(page) /\ Plain(Blank(page)) /\ Plain(ResetContext(page))
      /\ page \in Page
  BY PlainPage DEF GInv, TInv, Legal
<1>1. UNCHANGED queues /\ UNCHANGED flight
  BY DEF SelectProject, SelectOperation, Toggle, SelectDocument, Confirm, server
<1>2. Steady /\ \A t \in Slots : Entered(t) /\ Took(t)
  BY <1>1, Steadily, OthersStay
<1>3. ASSUME NEW w, Plain(w), Write(w) PROVE Gates'
  BY <1>2, <1>3, WriteNotes, PlainMoves DEF Plain
<1>4. ASSUME NEW p \in Projects, SelectProject(p) PROVE Gates'
  <2> DEFINE w == [Blank(page) EXCEPT !.project = p, !.sets = {}, !.approval = page.approval]
  <2>1. Shaped(w) /\ w.project # page.project
    BY <1>0, <1>4 DEF Plain, Shaped, SelectProject
  <2>2. Write(w)
    BY <1>4 DEF SelectProject
  <2> HIDE DEF w
  <2> QED BY <1>2, <2>1, <2>2, WriteNotes, Moves
<1>5. ASSUME NEW op \in Ops, SelectOperation(op) PROVE Gates'
  <2> DEFINE v == [Blank(page) EXCEPT !.chosen = op, !.parsed = page.ops]
             u == [page EXCEPT !.chosen = None]
  <2>1. Plain(v) /\ Plain(u)
    BY <1>0 DEF Plain, Shaped
  <2>2. Write(u) \/ Write(v)
    BY <1>5 DEF SelectOperation
  <2> HIDE DEF u, v
  <2> QED BY <1>3, <2>1, <2>2
<1>6. CASE SelectDocument
  <2> DEFINE w == [ResetContext(page) EXCEPT !.parsed = page.ops]
  <2>1. Plain(w)
    BY <1>0 DEF Plain, Shaped
  <2>2. Write(w)
    BY <1>6 DEF SelectDocument
  <2> HIDE DEF w
  <2> QED BY <1>3, <2>1, <2>2
<1>7. ASSUME NEW w, Shaped(w), w.project = page.project, w.sets = page.sets, Sound(w),
             w.approval = NoApproval, Write(w)
      PROVE  Gates'
  <2>1. ASSUME ~history.crossed PROVE Fits(w)
    <3>1. Chain
      BY <2>1 DEF GInv, Gates
    <3>2. page'.project = page.project
      BY <1>7, RenderedProject DEF Write
    <3>3. PICK p : p = page.project
      OBVIOUS
    <3>4. Completed(p) \subseteq Completed(p)'
      BY <1>2, CompletedStays
    <3>5. w.sets \subseteq Completed(page.project)'
      BY <1>7, <3>1, <3>2, <3>3, <3>4 DEF Chain
    <3> QED BY <1>7, <3>1, <3>5 DEF Fits, Chain
  <2> QED BY <1>2, <1>7, <2>1, WriteNotes, Moves
<1>8. ASSUME NEW op \in Ops, Toggle(op) PROVE Gates'
  <2> DEFINE w == [page EXCEPT !.approval = NoApproval, !.report = 0, !.confirmed = {},
                     !.selected = IF op \in @ THEN @ \ {op} ELSE @ \cup {op}]
  <2>1. /\ Shaped(w) /\ w.project = page.project /\ w.sets = page.sets
        /\ w.approval = NoApproval /\ w.confirmed = {}
    BY <1>0 DEF Shaped
  <2>2. Write(w)
    BY <1>8 DEF Toggle
  <2> HIDE DEF w
  <2> QED BY <1>7, <2>1, <2>2 DEF Sound
<1>9. CASE Confirm
  <2> DEFINE w == [page EXCEPT !.confirmed = page.selected \cap SideEffects]
  <2>1. /\ Shaped(w) /\ w.project = page.project /\ w.sets = page.sets
        /\ w.approval = page.approval /\ w.selected = page.selected
        /\ w.confirmed = page.selected \cap SideEffects
    BY <1>0 DEF Shaped
  <2>2. Write(w) /\ page.approval = NoApproval
    BY <1>9 DEF Confirm
  <2> HIDE DEF w
  <2> QED BY <1>7, <2>1, <2>2 DEF Sound
<1> QED BY <1>4, <1>5, <1>6, <1>8, <1>9

LEMMA GateHandlers ==
  ASSUME GInv, TInv', NEW s \in Slots,
         \/ Run(s) \/ Retry(s) \/ Approve(s) \/ Gate(s) \/ Execute(s)
         \/ Upload(s) \/ Save(s)
  PROVE  Gates'
<1>0. Shaped(page) /\ Plain(page) /\ Plain(Blank(page)) /\ Plain(ResetContext(page))
  BY PlainPage DEF GInv
<1>1. CASE Run(s)
  <2> DEFINE w == [Blank(page) EXCEPT !.chosen = page.chosen, !.starting = TRUE]
  <2>1. Plain(w)
    BY <1>0 DEF Plain, Shaped
  <2>2. PICK pc \in {"ingest", "create"} : Begin(s, "run", pc, w)
    BY <1>1 DEF Run
  <2> HIDE DEF w
  <2> QED BY <2>1, <2>2, BegunGate
<1>2. CASE Retry(s)
  <2> DEFINE w == [page EXCEPT !.starting = TRUE]
  <2>1. Plain(w)
    BY <1>0 DEF Plain, Shaped
  <2>2. PICK pc \in {"retry", "start"} : Begin(s, "retry", pc, w)
    BY <1>2 DEF Retry
  <2> HIDE DEF w
  <2> QED BY <2>1, <2>2, BegunGate
<1>3. CASE Upload(s)
  <2> DEFINE w == [ResetContext(page) EXCEPT !.parsed = None]
  <2>1. Plain(w)
    BY <1>0 DEF Plain, Shaped
  <2>2. Begin(s, "upload", "parse", w)
    BY <1>3 DEF Upload
  <2> HIDE DEF w
  <2> QED BY <2>1, <2>2, BegunGate
<1>4. CASE Approve(s) \/ Gate(s) \/ Execute(s) \/ Save(s)
  <2>1. PICK kind \in {"approve", "gate", "execute", "save"} : Begin(s, kind, kind, page)
    BY <1>4 DEF Approve, Gate, Execute, Save
  <2> QED BY <1>0, <2>1, BegunGate
<1> QED BY <1>1, <1>2, <1>3, <1>4

-----------------------------------------------------------------------------
(* The answers, for the gate.                                               *)

\* Answers after which no handler awaits a design that did not before.
LEMMA GateUntouched ==
  ASSUME GInv, TInv', NEW s \in Slots,
         \/ Ingested(s) \/ Created(s) \/ Started(s) \/ StartAnswered(s) \/ StartFails(s)
         \/ WorkflowRead(s) \/ Refreshed(s) \/ Executed(s) \/ Uploaded(s)
         \/ Saved(s) \/ Fails(s)
  PROVE  Gates'
<1>0. /\ Shaped(page) /\ Plain(page) /\ TInv
      /\ \A w, n : Plain(w) => Plain(Shows(w, n)) /\ Plain(ShowsWorkflow(w, n))
      /\ \A w, x : Plain(w) => Plain([w EXCEPT !.chosen = x])
  BY PlainPage DEF GInv
<1>1. ASSUME NEW w, Plain(w), Steady, NEW pc,
             ~(flight[s].kind \in {"approve", "retry"} /\ pc \in {"poll", "cases"}),
             Ends(s, w) \/ Awaits(s, pc, w)
      PROVE  Gates'
  BY <1>1, EndedGate, AwaitedGate
<1>2. CASE Ingested(s)
  <2> DEFINE w == [page EXCEPT !.parsed = flight[s].p, !.ops = flight[s].p]
  <2>1. Plain(w)
    BY <1>0 DEF Plain, Shaped
  <2>2. Steady
    BY <1>2, Steadily DEF Ingested, server
  <2>3. Ends(s, w) \/ Awaits(s, "create", w)
    BY <1>2 DEF Ingested
  <2> HIDE DEF w
  <2> QED BY <1>1, <2>1, <2>2, <2>3
<1>3. CASE Created(s)
  <2> DEFINE w == [page EXCEPT !.queue = Len(queues'), !.status = "PENDING"]
  <2>1. flight[s].kind # None /\ flight[s].kind = "run"
    BY <1>3, Kind DEF Created, Kinds, At
  <2>2. flight[s].p \in Projects /\ flight[s].op \in Ops
    BY <1>0, <2>1, Capture
  <2>3. Steady
    BY <1>3, <2>2, Steadily DEF Created
  <2>4. CASE Ends(s, page)
    BY <1>0, <1>1, <2>3, <2>4
  <2>5. ASSUME flight' = [flight EXCEPT ![s].pc = "start", ![s].q = Len(queues')], Write(w)
        PROVE  Gates'
    <3>1. Plain(w)
      BY <1>0 DEF Plain, Shaped
    <3> HIDE DEF w
    <3>2. flight[s] \in Flight /\ flight \in [Slots -> Flight]
      BY <1>0 DEF TInv
    <3>3. /\ flight'[s].pc = "start" /\ flight'[s].kind = flight[s].kind
          /\ \A t \in Slots \ {s} : flight'[t] = flight[t]
      BY <2>5, <3>2 DEF Flight
    <3>4. Entered(s) /\ Took(s)
      BY <2>1, <3>3 DEF Entered, Took, Designs
    <3> QED BY <2>3, <2>5, <3>1, <3>3, <3>4, OthersStay, WriteNotes, PlainMoves DEF Plain
  <2> QED BY <1>3, <2>4, <2>5 DEF Created
<1>4. CASE Started(s)
  <2>1. flight[s].kind # None /\ flight[s].pc \in Later
    BY <1>4, Kind DEF Started, Kinds, At, Later
  <2>2. flight[s].q \in DOMAIN queues
    BY <1>0, <2>1, Capture
  <2>3. Steady
    BY <1>4, <2>2, Steadily DEF Started, Statuses
  <2> QED BY <1>0, <1>1, <1>4, <2>3 DEF Started
<1>5. CASE StartAnswered(s)
  <2> DEFINE u == ShowsWorkflow(Shows(page, flight[s].q), flight[s].q)
             w == [u EXCEPT !.chosen = IF flight[s].kind = "run" THEN flight[s].op ELSE @]
  <2>1. Plain(u)
    BY <1>0
  <2>2. Plain(w)
    <3> HIDE DEF u
    <3> QED BY <2>1 DEF Plain, Shaped
  <2>3. Steady /\ Ends(s, w)
    BY <1>5, Steadily DEF StartAnswered, server
  <2> HIDE DEF w
  <2> QED BY <1>1, <2>2, <2>3
<1>6. CASE StartFails(s)
  <2>1. Steady /\ ((flight[s].kind = "run" /\ Awaits(s, "poll", page)) \/ Ends(s, page))
    BY <1>6, Steadily DEF StartFails, server
  <2> QED BY <1>0, <1>1, <2>1
<1>7. CASE WorkflowRead(s)
  <2>1. Steady /\ Ends(s, [ShowsWorkflow(page, flight[s].q) EXCEPT !.chosen = queues[flight[s].q].op])
    BY <1>7, Steadily DEF WorkflowRead, server
  <2>2. Plain([ShowsWorkflow(page, flight[s].q) EXCEPT !.chosen = queues[flight[s].q].op])
    BY <1>0
  <2> QED BY <1>1, <2>1, <2>2
<1>8. CASE Refreshed(s)
  <2>1. Steady /\ (Ends(s, Shows(page, flight[s].q)) \/ Ends(s, page))
    BY <1>8, Steadily DEF Refreshed, server
  <2> QED BY <1>0, <1>1, <2>1
<1>9. CASE Executed(s)
  <2> DEFINE w(answered) == [page EXCEPT !.approval = NoApproval,
                                         !.report = IF answered THEN Len(runs') ELSE @]
  <2>1. PICK answered \in BOOLEAN : Ends(s, w(answered))
    BY <1>9 DEF Executed
  <2>2. Plain(w(answered))
    BY <1>0 DEF Plain, Shaped
  <2>3. Steady
    BY <1>9, Steadily DEF Executed
  <2> HIDE DEF w
  <2> QED BY <1>1, <2>1, <2>2, <2>3
<1>10. CASE Uploaded(s)
  <2> DEFINE w == [page EXCEPT !.parsed = flight[s].p, !.ops = flight[s].p, !.chosen = None]
  <2>1. Plain(w)
    BY <1>0 DEF Plain, Shaped
  <2>2. Steady /\ Ends(s, w)
    BY <1>10, Steadily DEF Uploaded, server
  <2> HIDE DEF w
  <2> QED BY <1>1, <2>1, <2>2
<1>11. CASE Saved(s)
  <2> DEFINE w == [page EXCEPT !.project = flight[s].p]
  <2>1. Plain(w)
    BY <1>0 DEF Plain, Shaped
  <2>2. Steady /\ (Awaits(s, "auth", w) \/ Ends(s, page))
    BY <1>11, Steadily DEF Saved, server
  <2> HIDE DEF w
  <2> QED BY <1>0, <1>1, <2>1, <2>2
<1>12. CASE Fails(s)
  <2> DEFINE w == [page EXCEPT !.approval = NoApproval]
  <2>1. Plain(w)
    BY <1>0 DEF Plain, Shaped
  <2>2. Steady /\ (Awaits(s, "refresh", page) \/ Ends(s, page) \/ Ends(s, w))
    BY <1>12, Steadily DEF Fails, server
  <2> HIDE DEF w
  <2> QED BY <1>0, <1>1, <2>1, <2>2
<1> QED BY <1>2, <1>3, <1>4, <1>5, <1>6, <1>7, <1>8, <1>9, <1>10, <1>11, <1>12

\* The operation of a queue that is not READY is not among the cases shown.
LEMMA NotShown ==
  ASSUME GInv, ~history.crossed, NEW n \in DOMAIN queues, queues[n].status # "READY"
  PROVE  queues[n].op \notin page.sets
<1>1. page.sets \subseteq Completed(page.project) /\ DifferentOps
  BY DEF GInv, Gates, Chain
<1> QED BY <1>1 DEF DifferentOps, Completed, Of

LEMMA GateResumed == ASSUME GInv, TInv', NEW s \in Slots, Resumed(s) PROVE Gates'
<1> DEFINE w == [page EXCEPT !.queue = flight[s].q, !.status = "RUNNING_DESIGN",
                             !.wf = flight[s].q, !.phase = "designing"]
<1>0. /\ Shaped(page) /\ Plain(page) /\ TInv
  BY PlainPage DEF GInv
<1>1. flight[s].kind # None /\ flight[s].pc \in Later
  BY Kind DEF Resumed, Kinds, At, Later
<1>2. flight[s].q \in DOMAIN queues
  BY <1>0, <1>1, Capture
<1>3. queues[flight[s].q].status # "READY" /\ Becomes(flight[s].q, "RUNNING_DESIGN")
  BY DEF Resumed
<1>4. Steady
  <2>1. "RUNNING_DESIGN" \in Statuses
    BY DEF Statuses
  <2> QED BY <1>2, <1>3, <2>1, Steadily
<1>5. history.crossed \/ OpOf(s) \notin page.sets
  BY <1>2, <1>3, NotShown DEF OpOf
<1>6. Plain(w)
  BY <1>0 DEF Plain, Shaped
<1>7. Awaits(s, "poll", w) \/ Ends(s, page) \/ Awaits(s, "refresh", page)
  BY DEF Resumed
<1> HIDE DEF w
<1> QED BY <1>0, <1>2, <1>4, <1>5, <1>6, <1>7, AwaitedGate, EndedGate

LEMMA GatePolled == ASSUME GInv, TInv', NEW s \in Slots, Polled(s) PROVE Gates'
<1> DEFINE n == flight[s].q
           u == Shows(page, n)
           v == [u EXCEPT !.chosen = queues[n].op]
<1>0. /\ Plain(page) /\ TInv
      /\ \A w, m : Plain(w) => Plain(Shows(w, m))
      /\ \A w, x : Plain(w) => Plain([w EXCEPT !.chosen = x])
  BY PlainPage DEF GInv
<1>1. /\ flight[s].kind # None /\ flight[s].pc \in Later
      /\ flight[s].kind \in {"approve", "retry"} => Designs(s)
  BY Kind DEF Polled, Kinds, At, Later, Designs
<1>2. n \in DOMAIN queues /\ n # 0
  BY <1>0, <1>1, Capture
<1>3. Steady
  BY Steadily DEF Polled, server
<1>4. Plain(u) /\ Plain(v)
  <2>1. Plain(u)
    BY <1>0
  <2> HIDE DEF u
  <2> QED BY <1>0, <2>1
<1>5. PICK w \in {u, v, page} :
        \/ Ends(s, w)
        \/ StatusOf(n) = "READY" /\ Awaits(s, "cases", w)
        \/ Awaits(s, "workflow", w)
  BY DEF Polled
<1>6. StatusOf(n) = "READY" => queues[n].status = "READY"
  BY <1>2 DEF StatusOf
<1>7. Plain(w)
  BY <1>0, <1>4, <1>5
<1> HIDE DEF u, v
<1>8. CASE Ends(s, w)
  BY <1>3, <1>7, <1>8, EndedGate
<1>9. CASE StatusOf(n) = "READY" /\ Awaits(s, "cases", w)
  BY <1>1, <1>2, <1>3, <1>6, <1>7, <1>9, AwaitedGate
<1>10. CASE Awaits(s, "workflow", w)
  BY <1>3, <1>7, <1>10, AwaitedGate
<1> QED BY <1>5, <1>8, <1>9, <1>10

\* A set of cases that grew and has as many members did not grow.
LEMMA SameCases ==
  ASSUME GInv, NEW w, page.sets \subseteq w.sets, w.sets \subseteq Ops, Keys(page) = Keys(w)
  PROVE  w.sets = page.sets
<1>1. Cardinality(w.sets) = Cardinality(page.sets)
  BY DEF Keys
<1>2. IsFiniteSet(w.sets)
  BY FS_Subset, WorkspaceAssumption DEF WorkspaceAssumption
<1> QED BY <1>1, <1>2, FS_Subset

LEMMA GateCases == ASSUME GInv, TInv', NEW s \in Slots, CasesRead(s) PROVE Gates'
<1>1. PICK cases : cases = Completed(flight[s].p)
  OBVIOUS
<1> DEFINE read == [page EXCEPT !.sets = cases, !.selected = cases, !.chosen = None]
           done == [read EXCEPT !.busy = FALSE,
                                !.starting = @ /\ flight[s].kind \notin {"run", "retry"}]
<1>2. Shaped(page) /\ TInv /\ page \in Page
  BY PlainPage DEF GInv, TInv, Legal
<1>3. /\ Shaped(done) /\ done.project = page.project
      /\ done.sets = cases /\ done.selected = cases
      /\ done.approval = page.approval /\ done.confirmed = page.confirmed
  BY <1>2 DEF Shaped
<1>4. /\ flight[s].kind # None /\ flight[s].pc \in Later
      /\ Designs(s) /\ flight[s].pc = "cases"
  BY Kind DEF CasesRead, Kinds, At, Later, Designs
<1>5. flight[s].q \in DOMAIN queues /\ flight[s].q # 0
  BY <1>2, <1>4, Capture
<1>6. Ends(s, read) /\ Steady
  BY <1>1, Steadily DEF CasesRead, server
<1>7. Write(done) /\ flight' = [flight EXCEPT ![s] = Idle]
  BY <1>6 DEF Ends
<1> HIDE DEF done, read
<1>8. Noted(done) /\ page'.project = page.project
  BY <1>3, <1>7, WriteNotes, RenderedProject DEF Noted
<1>9. ASSUME ~history.crossed PROVE Fits(done)
  <2>1. /\ Chain /\ flight[s].p = page.project /\ queues[flight[s].q].p = page.project
    BY <1>2, <1>4, <1>5, <1>9, Capture DEF GInv, Gates, CapturedHere
  <2>2. page.sets \subseteq cases /\ (load.pc = "deliver" => load.sets \subseteq cases)
    BY <1>1, <2>1 DEF Chain
  <2>3. cases \subseteq Completed(page.project)'
    <3>1. PICK p : p = page.project
      OBVIOUS
    <3>2. Completed(p) \subseteq Completed(p)'
      BY <1>6, CompletedStays
    <3> QED BY <1>1, <1>8, <2>1, <3>1, <3>2
  <2>4. ASSUME Keys(page) = Keys(done) PROVE Sound(done)
    <3>1. cases \subseteq Ops
      BY <1>1, <1>2, CompletedRead DEF TInv
    <3>2. page.sets = cases
      BY <1>3, <2>2, <2>4, <3>1, SameCases
    <3>3. Stage(s)
      BY DEF GInv, Gates
    <3>4. queues[flight[s].q].status = "READY"
      BY <1>4, <3>3 DEF Stage
    <3>5. OpOf(s) \in cases
      BY <1>1, <1>5, <2>1, <3>4 DEF OpOf, Completed, Of
    <3>6. /\ page.confirmed = {} \/ history.hasty
          /\ page.approval = NoApproval \/ history.overlapped
      BY <1>4, <1>9, <3>2, <3>3, <3>5 DEF Stage
    <3> QED BY <1>3, <3>6 DEF Sound
  <2> QED BY <1>3, <2>2, <2>3, <2>4 DEF Fits
<1> QED BY <1>3, <1>6, <1>7, <1>8, <1>9, EndsOthers, Moves

LEMMA GateAsked == ASSUME GInv, TInv', NEW s \in Slots, GateAnswered(s) PROVE Gates'
<1>1. PICK approval : approval = [of |-> flight[s].p, cases |-> flight[s].cases]
  OBVIOUS
<1> DEFINE read == [page EXCEPT !.approval = approval]
           done == [read EXCEPT !.busy = FALSE,
                                !.starting = @ /\ flight[s].kind \notin {"run", "retry"}]
<1>2. Shaped(page) /\ TInv /\ page \in Page
  BY PlainPage DEF GInv, TInv, Legal
<1>3. /\ Shaped(done) /\ done.project = page.project
      /\ done.sets = page.sets /\ done.selected = page.selected
      /\ done.approval = approval /\ done.confirmed = page.confirmed
  BY <1>2 DEF Shaped
<1>4. flight[s].kind # None /\ flight[s].kind = "gate"
  BY Kind DEF GateAnswered, Kinds, At
<1>5. Ends(s, read) /\ Steady
  BY <1>1, Steadily DEF GateAnswered, server
<1>6. Write(done) /\ flight' = [flight EXCEPT ![s] = Idle]
  BY <1>5 DEF Ends
<1> HIDE DEF done, read
<1>7. Noted(done) /\ page'.project = page.project
  BY <1>3, <1>6, WriteNotes, RenderedProject DEF Noted
<1>8. history.overlapped \/ InFlight(flight') = {}
  <2>1. ASSUME ~history.overlapped, NEW t \in InFlight(flight') PROVE FALSE
    <3>1. t \in Slots /\ flight'[t].kind # None
      BY <2>1 DEF InFlight
    <3>2. t # s /\ flight'[t] = flight[t]
      BY <1>2, <1>6, <3>1 DEF Idle, TInv
    <3>3. t \in InFlight(flight) /\ s \in InFlight(flight)
      BY <1>4, <3>1, <3>2 DEF InFlight
    <3> QED BY <2>1, <3>2, <3>3 DEF GInv, IInv, Alone
  <2> QED BY <2>1
<1>9. ASSUME ~history.crossed PROVE Fits(done)
  <2>1. Chain
    BY <1>9 DEF GInv, Gates
  <2>2. page.sets \subseteq Completed(page.project)'
    <3>1. PICK p : p = page.project
      OBVIOUS
    <3>2. Completed(p) \subseteq Completed(p)'
      BY <1>5, CompletedStays
    <3> QED BY <1>7, <2>1, <3>1, <3>2 DEF Chain
  <2>3. Sound(done)
    <3>1. history.moved \/ approval.cases = page.selected
      BY <1>1, <1>4 DEF GInv, Gates, Held
    <3>2. ConfirmedIsSelected
      BY DEF GInv, Gates
    <3> QED BY <1>3, <3>1, <3>2 DEF Sound, ConfirmedIsSelected
  <2> QED BY <1>3, <1>8, <2>1, <2>2, <2>3 DEF Fits, Chain
<1> QED BY <1>3, <1>5, <1>6, <1>7, <1>9, EndsOthers, Moves

LEMMA GateAnswers == ASSUME GInv, TInv', NEW s \in Slots, Answer(s) PROVE Gates'
BY GateUntouched, GateResumed, GatePolled, GateCases, GateAsked DEF Answer

-----------------------------------------------------------------------------
(* The loader, the reports and the backend, for the gate.                   *)

LEMMA GateLoads ==
  ASSUME GInv, TInv', LoadReads \/ LoadDelivers \/ LoadEnds \/ LoadFails
  PROVE  Gates'
<1>0. /\ Shaped(page) /\ Plain(page) /\ TInv /\ page \in Page
      /\ \A w, n : Plain(w) => Plain(Shows(w, n)) /\ Plain(ShowsWorkflow(w, n))
  BY PlainPage DEF GInv, TInv, Legal
<1>1. NoLoad.pc # "deliver"
  BY DEF NoLoad
<1>2. ASSUME NEW w, NEW l, Loads(w, l), Shaped(w), w.project = page.project,
             w.confirmed = page.confirmed, l.pc # "deliver"
      PROVE  Noted(w) /\ Steady /\ \A t \in Slots : Entered(t) /\ Took(t)
  <2>1. UNCHANGED queues /\ UNCHANGED flight
    BY <1>2 DEF Loads, server
  <2> QED BY <1>0, <1>2, <2>1, LoadNotes, Steadily, OthersStay
<1>3. CASE LoadReads
  <2>1. /\ UNCHANGED <<page, flight, queues, history>>
        /\ load'.pc = "deliver" /\ load'.sets = Completed(page.project)
    BY <1>3 DEF LoadReads, server
  <2>2. DifferentOps' /\ ApprovedIsSelected' /\ ConfirmedIsSelected'
    BY <2>1 DEF GInv, Gates, DifferentOps, ApprovedIsSelected, ConfirmedIsSelected
  <2>3. \A t \in Slots : Stage(t)' /\ Held(t)'
    BY <2>1 DEF GInv, Gates, Stage, Held, Designs, OpOf
  <2>4. Chain => Chain'
    BY <2>1 DEF Chain, Completed, Of
  <2> QED BY <2>1, <2>2, <2>3, <2>4 DEF GInv, Gates
<1>4. CASE LoadDelivers
  <2> DEFINE w == [page EXCEPT !.ops = page.project, !.sets = load.sets,
                               !.parsed = IF load.q = 0 THEN page.project ELSE @]
             l == IF load.q = 0 THEN NoLoad ELSE [load EXCEPT !.pc = "second"]
  <2>1. Loads(w, l) /\ load.pc = "deliver"
    BY <1>4 DEF LoadDelivers
  <2>2. l.pc # "deliver" /\ load' = l
    BY <1>0, <1>1, <2>1 DEF Loads, TInv, LoadFits
  <2>3. /\ Shaped(w) /\ w.project = page.project /\ w.sets = load.sets
        /\ w.selected = page.selected /\ w.approval = page.approval
        /\ w.confirmed = page.confirmed
    BY <1>0 DEF Shaped
  <2> HIDE DEF w, l
  <2>4. Noted(w) /\ Steady /\ \A t \in Slots : Entered(t) /\ Took(t)
    BY <1>2, <2>1, <2>2, <2>3
  <2>5. ASSUME ~history.crossed PROVE Fits(w)
    <3>1. Chain /\ page'.project = page.project
      BY <2>3, <2>4, <2>5, RenderedProject DEF GInv, Gates, Noted
    <3>2. load.sets \subseteq Completed(page.project)'
      <4>1. PICK p : p = page.project
        OBVIOUS
      <4>2. Completed(p) \subseteq Completed(p)'
        BY <2>4, CompletedStays
      <4> QED BY <2>1, <3>1, <4>1, <4>2 DEF Chain
    <3>3. Sound(w)
      BY <2>3 DEF Sound, GInv, Gates, ApprovedIsSelected, ConfirmedIsSelected
    <3> QED BY <2>1, <2>2, <2>3, <3>1, <3>2, <3>3 DEF Fits, Chain
  <2> QED BY <2>3, <2>4, <2>5, Moves
<1>5. CASE LoadEnds
  <2>0. PICK document \in BOOLEAN, workflow \in BOOLEAN :
          LET n == load.q
              v == IF workflow /\ PhaseAt(load.status) # None THEN ShowsWorkflow(page, n)
                   ELSE [page EXCEPT !.wf = 0, !.phase = None]
          IN  Loads([v EXCEPT !.queue = n, !.status = load.status, !.chosen = queues[n].op,
                              !.parsed = IF document THEN page.project ELSE @], NoLoad)
    BY <1>5 DEF LoadEnds
  <2> DEFINE u == IF workflow /\ PhaseAt(load.status) # None THEN ShowsWorkflow(page, load.q)
                  ELSE [page EXCEPT !.wf = 0, !.phase = None]
             w == [u EXCEPT !.queue = load.q, !.status = load.status,
                            !.chosen = queues[load.q].op,
                            !.parsed = IF document THEN page.project ELSE @]
  <2>1. Loads(w, NoLoad)
    BY <2>0
  <2>2. Plain(u) /\ u.project = page.project
    <3>1. Plain(ShowsWorkflow(page, load.q)) /\ ShowsWorkflow(page, load.q).project = page.project
      BY <1>0 DEF ShowsWorkflow, Shaped
    <3>2. /\ Plain([page EXCEPT !.wf = 0, !.phase = None])
          /\ [page EXCEPT !.wf = 0, !.phase = None].project = page.project
      BY <1>0 DEF Plain, Shaped
    <3> QED BY <3>1, <3>2
  <2> HIDE DEF u
  <2>3. Plain(w) /\ w.project = page.project
    BY <2>2 DEF Plain, Shaped
  <2> HIDE DEF w
  <2> QED BY <1>1, <1>2, <2>1, <2>3, PlainMoves DEF Plain
<1>6. CASE LoadFails
  BY <1>0, <1>1, <1>2, <1>6, PlainMoves DEF LoadFails
<1> QED BY <1>3, <1>4, <1>5, <1>6

LEMMA GateEffects ==
  ASSUME GInv, TInv', Restored \/ \E n \in DOMAIN queues : ServerSettles(n)
  PROVE  Gates'
<1>1. Shaped(page) /\ Plain(page)
  BY PlainPage DEF GInv
<1>2. UNCHANGED <<flight, load, history>>
  BY DEF Restored, ServerSettles
<1>3. Steady
  <2>1. CASE Restored
    BY <2>1, Steadily DEF Restored, server
  <2>2. ASSUME NEW n \in DOMAIN queues, ServerSettles(n) PROVE Steady
    <3>1. PICK st \in Statuses : Becomes(n, st)
      BY <2>2 DEF ServerSettles, Statuses
    <3>2. queues[n].status # "READY"
      BY <2>2 DEF ServerSettles
    <3> QED BY <3>1, <3>2, Steadily
  <2> QED BY <2>1, <2>2
<1>4. PICK w : /\ page' = w /\ Shaped(w) /\ Plain(w) /\ w.project = page.project
               /\ Keys(page) = Keys(w)
               /\ w.selected = page.selected /\ w.confirmed = page.confirmed
  <2>1. \E n : page' \in {page, [page EXCEPT !.report = n]}
    BY DEF Restored, ServerSettles
  <2>2. PICK n : page' \in {page, [page EXCEPT !.report = n]}
    BY <2>1
  <2> DEFINE v == [page EXCEPT !.report = n]
  <2>3. /\ Shaped(v) /\ Plain(v) /\ v.project = page.project
        /\ v.selected = page.selected /\ v.confirmed = page.confirmed
    BY <1>1 DEF Plain, Shaped
  <2>4. Keys(page) = Keys(v)
    BY DEF Keys
  <2> HIDE DEF v
  <2> QED BY <1>1, <2>2, <2>3, <2>4 DEF v
<1>5. Rendered(page, w) = w
  BY <1>4 DEF Rendered, Follow
<1>6. Noted(w)
  BY <1>2, <1>4, <1>5 DEF Noted
<1>7. \A t \in Slots : Entered(t) /\ Took(t)
  BY <1>2, <1>3, OthersStay
<1> QED BY <1>3, <1>4, <1>6, <1>7, PlainMoves

-----------------------------------------------------------------------------
(* The third invariant.                                                     *)

\* An earlier use left queues of different operations.
LEMMA EarlierDiffer == ASSUME queues \in Earlier PROVE DifferentOps
<1> DEFINE Was(op, st) == [p |-> ProjectOf[op], op |-> op, status |-> st]
<1>1. \/ queues = <<>>
      \/ \E op \in Ops : \E st \in Statuses : queues = <<Was(op, st)>>
      \/ \E op \in Ops : \E other \in Ops \ {op} :
           queues = <<Was(op, "READY"), Was(other, "READY")>>
  BY DEF Earlier
<1>2. \A op, st : Was(op, st).op = op
  OBVIOUS
<1> HIDE DEF Was
<1>3. CASE queues = <<>>
  BY <1>3 DEF DifferentOps
<1>4. ASSUME NEW op \in Ops, NEW st \in Statuses, queues = <<Was(op, st)>> PROVE DifferentOps
  BY <1>4 DEF DifferentOps
<1>5. ASSUME NEW op \in Ops, NEW other \in Ops \ {op},
             queues = <<Was(op, "READY"), Was(other, "READY")>>
      PROVE  DifferentOps
  BY <1>2, <1>5 DEF DifferentOps
<1> QED BY <1>1, <1>3, <1>4, <1>5

\* The page opens with nothing selected, confirmed or approved.
THEOREM GateOpens == Init => GInv
<1> SUFFICES ASSUME Init PROVE GInv
  OBVIOUS
<1>1. TInv /\ IInv
  BY PageOpens, InitHolds
<1>2. DifferentOps
  BY EarlierDiffer DEF Init
<1>3. load.pc = "read" /\ page.sets = {} /\ page.approval = NoApproval /\ page.confirmed = {}
  BY DEF Init, NoLoad
<1>4. Chain
  BY <1>3 DEF Chain
<1>5. \A s \in Slots : flight[s].kind = None
  BY DEF Init, Idle
<1>6. None \notin {"gate", "approve", "retry"}
  BY WorkspaceAssumption DEF WorkspaceAssumption, Kinds
<1>7. \A s \in Slots : Stage(s) /\ Held(s)
  BY <1>5, <1>6 DEF Stage, Held, Designs
<1> QED BY <1>1, <1>2, <1>3, <1>4, <1>7 DEF GInv, Gates, ApprovedIsSelected, ConfirmedIsSelected

\* No step shows at the gate, while nothing else is noted, another selection
\* than the one that was approved and confirmed.
THEOREM NextGates == GInv /\ [Next]_vars => GInv'
<1> SUFFICES ASSUME GInv, [Next]_vars PROVE GInv'
  OBVIOUS
<1>1. TInv' /\ IInv'
  BY NextTypes, NextKeeps DEF GInv
<1>2. Gates'
  <2>1. CASE User
    BY <1>1, <2>1, GateAtOnce, GateHandlers DEF User
  <2>2. CASE \E s \in Slots : Answer(s)
    BY <1>1, <2>2, GateAnswers
  <2>3. CASE LoadReads \/ LoadDelivers \/ LoadEnds \/ LoadFails
    BY <1>1, <2>3, GateLoads
  <2>4. CASE Restored \/ \E n \in DOMAIN queues : ServerSettles(n)
    BY <1>1, <2>4, GateEffects
  <2>5. CASE UNCHANGED vars
    <3>1. UNCHANGED <<page, flight, load, queues, history>>
      BY <2>5 DEF vars
    <3>2. Chain => Chain'
      BY <3>1 DEF Chain, Completed, Of
    <3>3. \A s \in Slots : Stage(s)' /\ Held(s)'
      BY <3>1 DEF GInv, Gates, Stage, Held, Designs, OpOf
    <3> QED BY <3>1, <3>2, <3>3
            DEF GInv, Gates, DifferentOps, ApprovedIsSelected, ConfirmedIsSelected
  <2> QED BY <2>1, <2>2, <2>3, <2>4, <2>5 DEF Next
<1> QED BY <1>1, <1>2 DEF GInv

\* For any number of projects, operations, handlers and clicks: what was
\* approved at the gate is what the boxes show, and no case with a side effect
\* is selected that was not confirmed, but where the history says why.
THEOREM GateCorrect == Spec => []GateIsWhatIsShown
<1>1. GInv => GateIsWhatIsShown
  BY DEF GInv, Gates, GateIsWhatIsShown
<1> QED BY <1>1, GateOpens, NextGates, PTL DEF Spec
=============================================================================
