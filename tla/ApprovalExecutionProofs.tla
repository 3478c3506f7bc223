----------------------- MODULE ApprovalExecutionProofs -----------------------
(* Theorems about ApprovalExecution for every number of processes, of       *)
(* requests, of approvals and of cases.                                     *)
EXTENDS ApprovalExecution, TLAPS

-----------------------------------------------------------------------------
(* The inductive invariant, part by part.                                  *)

\* An approval that was taken up has been claimed.
UsedIsClaimed ==
  \A a \in Approvals : approval[a].status \in {"RUNNING", "FAILED", "CONSUMED"} => a \in claimed

\* How far a request has come tells what it relies on.
RequestInv(r) ==
  /\ ~Manual(r) => req[r].pc \notin {"claim", "reload", "save_running", "finish_failed", "finish_consumed"}
  /\ Manual(r) => req[r].pc # "check_requirement"
  /\ req[r].pc \in {"claim", "reload"} => Of(r).status # "none"
  /\ Manual(r) /\ req[r].pc \in Executing =>
       /\ Of(r).status = IF At(r, "save_running") THEN "APPROVED" ELSE "RUNNING"
       /\ req[r].approval \in claimed
  /\ req[r].pc \in {"idle", "load", "claim", "reload", "save_running", "check_requirement",
                    "prepare", "send", "answer"} => req[r].case <= NumCases

\* Two manual requests never execute the same approval.
Exclusive ==
  \A r, s \in Requests :
    /\ Manual(r) /\ req[r].pc \in Executing
    /\ Manual(s) /\ req[s].pc \in Executing
    /\ req[s].approval = req[r].approval
    => r = s

\* What a manual execution has sent, and so what is left to send.
Fresh(a) == \A c \in Cases : sent[a][c] = 0
OnceEach(a) == \A c \in Cases : sent[a][c] <= 1
SentInv(r) == LET a == req[r].approval  c == req[r].case IN
  Manual(r) /\ req[r].pc \in Executing =>
    /\ req[r].pc \in {"save_running", "prepare"} => Fresh(a) /\ ~req[r].again /\ c = 1
    /\ req[r].pc \in {"send", "answer"} =>
         \A d \in Cases : (d < c => sent[a][d] > 0) /\ (d > c => sent[a][d] = 0)
    /\ req[r].pc = "send" => sent[a][c] = 0 \/ (req[r].again /\ OnceEach(a))
    /\ req[r].pc = "answer" => sent[a][c] > 0
    /\ req[r].pc \in {"save_run", "finish_consumed"} => \A d \in Cases : sent[a][d] > 0
    /\ ~req[r].again => OnceEach(a)

UnusedIsFresh ==
  \A a \in Approvals : approval[a].status \in {"none", "APPROVED"} => Fresh(a)

\* A request in progress has no reply yet; before its claim it has not moved.
EarlyInv(r) ==
  req[r].pc \in {"idle", "load", "claim", "reload"} => req[r].case = 1 /\ ~req[r].again

IInv ==
  /\ TypeOK
  /\ UsedIsClaimed
  /\ \A r \in Requests : RequestInv(r) /\ SentInv(r) /\ EarlyInv(r)
  /\ Exclusive
  /\ UnusedIsFresh
  /\ RepliesAgree

-----------------------------------------------------------------------------
(* How a step moves the request it belongs to.                             *)

Keeps(r) ==
  /\ req' \in [Requests -> Request]
  /\ \A s \in Requests : s # r => req'[s] = req[s]
  /\ req'[r].mode = req[r].mode
  /\ req'[r].approval = req[r].approval
  /\ req'[r].process = req[r].process

Moves(r, pc) ==
  /\ Keeps(r)
  /\ req'[r].pc = pc
  /\ req'[r].case = req[r].case
  /\ req'[r].again = req[r].again

\* Going on to a step changes nothing else of the request.
LEMMA GotoMoves ==
  ASSUME TypeOK, NEW r \in Requests, NEW pc \in Pc, Goto(r, pc)
  PROVE  Moves(r, pc) /\ req'[r].reply = req[r].reply
<1>1. req \in [Requests -> Request] /\ req[r] \in Request
  BY DEF TypeOK
<1>2. [req[r] EXCEPT !.pc = pc] \in Request
  BY <1>1 DEF Request
<1>3. req' = [req EXCEPT ![r] = [req[r] EXCEPT !.pc = pc]]
  BY <1>1 DEF Goto
<1>4. req' \in [Requests -> Request] /\ req'[r] = [req[r] EXCEPT !.pc = pc]
      /\ \A s \in Requests : s # r => req'[s] = req[s]
  BY <1>1, <1>2, <1>3
<1> QED BY <1>1, <1>4 DEF Moves, Keeps, Request

\* Answering a request ends it.
LEMMA AnswerMoves ==
  ASSUME TypeOK, NEW r \in Requests, NEW run \in Requests \cup {NoRequest}, Answer(r, run)
  PROVE  Moves(r, "done") /\ req'[r].reply = run
<1>1. req \in [Requests -> Request] /\ req[r] \in Request
  BY DEF TypeOK
<1> DEFINE x == [req[r] EXCEPT !.pc = "done", !.reply = run]
<1>2. x \in Request
  BY <1>1 DEF Request, Pc
<1>3. req' = [req EXCEPT ![r] = x]
  BY <1>1 DEF Answer
<1>4. req' \in [Requests -> Request] /\ req'[r] = x
      /\ \A s \in Requests : s # r => req'[s] = req[s]
  BY <1>1, <1>2, <1>3
<1> QED BY <1>1, <1>4 DEF Moves, Keeps, Request

LEMMA RefuseMoves ==
  ASSUME TypeOK, NEW r \in Requests, Refuse(r)
  PROVE  Moves(r, "done") /\ req'[r].reply = NoRequest
BY AnswerMoves DEF Refuse

\* The lock stays typed when it is taken and given back.
LEMMA LockTyped ==
  ASSUME TypeOK, NEW r \in Requests, Lock(r) \/ Unlock(r)
  PROVE  lock' \in [Processes -> Requests \cup {NoRequest}]
<1>1. lock \in [Processes -> Requests \cup {NoRequest}]
  BY DEF TypeOK
<1> QED BY <1>1 DEF Lock, Unlock

-----------------------------------------------------------------------------
(* Steps of one request that leave the approvals and the target alone keep *)
(* the invariant if they keep it for that request.                         *)

LEMMA PrivateStep ==
  ASSUME IInv, TypeOK', NEW r \in Requests, Keeps(r),
         UNCHANGED <<approval, sent>>, claimed \subseteq claimed',
         RequestInv(r)', SentInv(r)', EarlyInv(r)',
         Manual(r) /\ req'[r].pc \in Executing => req[r].pc \in Executing,
         Manual(r) /\ req'[r].reply # NoRequest =>
           Of(r) = [status |-> "CONSUMED", run |-> req'[r].reply]
  PROVE  IInv'
<1>1. UsedIsClaimed'
  BY DEF IInv, UsedIsClaimed
<1>2. ASSUME NEW s \in Requests PROVE RequestInv(s)' /\ SentInv(s)' /\ EarlyInv(s)'
  <2>1. CASE s = r
    BY <2>1
  <2>2. CASE s # r
    <3>1. req'[s] = req[s]
      BY <2>2 DEF Keeps
    <3>2. RequestInv(s) /\ SentInv(s) /\ EarlyInv(s)
      BY DEF IInv
    <3>3. RequestInv(s)'
      BY <3>1, <3>2 DEF RequestInv, Manual, At, Of
    <3>4. SentInv(s)'
      BY <3>1, <3>2 DEF SentInv, Manual, Fresh, OnceEach
    <3>5. EarlyInv(s)'
      BY <3>1, <3>2 DEF EarlyInv
    <3> QED BY <3>3, <3>4, <3>5
  <2> QED BY <2>1, <2>2
<1>3. Exclusive'
  BY DEF IInv, Exclusive, Keeps, Manual
<1>4. UnusedIsFresh'
  BY DEF IInv, UnusedIsFresh, Fresh
<1>5. RepliesAgree'
  BY DEF IInv, RepliesAgree, Keeps, Manual, Of
<1> QED BY <1>1, <1>2, <1>3, <1>4, <1>5 DEF IInv

\* So do steps of the one request that executes an approval, which change
\* that approval's status and counts.
LEMMA OwnerStep ==
  ASSUME IInv, TypeOK', NEW r \in Requests, Keeps(r),
         Manual(r), req[r].pc \in Executing, claimed' = claimed,
         \A a \in Approvals : a # req[r].approval =>
           approval'[a] = approval[a] /\ sent'[a] = sent[a],
         approval'[req[r].approval].status \in {"RUNNING", "FAILED", "CONSUMED"},
         RequestInv(r)', SentInv(r)', EarlyInv(r)',
         req'[r].pc \in Executing => req[r].pc \in Executing,
         req'[r].reply # NoRequest =>
           approval'[req[r].approval] = [status |-> "CONSUMED", run |-> req'[r].reply]
  PROVE  IInv'
<1> DEFINE mine == req[r].approval
<1>0. /\ mine \in Approvals
      /\ \A s \in Requests : req[s].approval \in Approvals
      /\ Of(r).status \in {"APPROVED", "RUNNING"} /\ mine \in claimed
  BY DEF IInv, TypeOK, Request, RequestInv
<1>1. UsedIsClaimed'
  BY <1>0 DEF IInv, UsedIsClaimed
<1>2. ASSUME NEW s \in Requests, s # r, Manual(s), req[s].pc \in Executing
      PROVE  req[s].approval # mine
  BY <1>2 DEF IInv, Exclusive
<1>3. ASSUME NEW s \in Requests PROVE RequestInv(s)' /\ SentInv(s)' /\ EarlyInv(s)'
  <2>1. CASE s = r
    BY <2>1
  <2>2. CASE s # r
    <3>1. req'[s] = req[s]
      BY <2>2 DEF Keeps
    <3>2. RequestInv(s) /\ SentInv(s) /\ EarlyInv(s)
      BY DEF IInv
    <3>3. RequestInv(s)'
      <4>1. CASE req[s].approval = mine
        BY <4>1, <1>2, <2>2, <3>1, <3>2 DEF RequestInv, Manual, At, Of
      <4>2. CASE req[s].approval # mine
        <5>1. approval'[req[s].approval] = approval[req[s].approval]
          BY <1>0, <4>2
        <5> QED BY <5>1, <3>1, <3>2 DEF RequestInv, Manual, At, Of
      <4> QED BY <4>1, <4>2
    <3>4. SentInv(s)'
      <4>1. CASE Manual(s) /\ req[s].pc \in Executing
        <5>1. sent'[req[s].approval] = sent[req[s].approval]
          BY <1>0, <1>2, <2>2, <4>1
        <5> QED BY <5>1, <3>1, <3>2 DEF SentInv, Manual, Fresh, OnceEach
      <4>2. CASE ~(Manual(s) /\ req[s].pc \in Executing)
        BY <4>2, <3>1 DEF SentInv, Manual
      <4> QED BY <4>1, <4>2
    <3>5. EarlyInv(s)'
      BY <3>1, <3>2 DEF EarlyInv
    <3> QED BY <3>3, <3>4, <3>5
  <2> QED BY <2>1, <2>2
<1>4. Exclusive'
  BY DEF IInv, Exclusive, Keeps, Manual
<1>5. UnusedIsFresh'
  BY <1>0 DEF IInv, UnusedIsFresh, Fresh
<1>6. RepliesAgree'
  <2> SUFFICES ASSUME NEW s \in Requests, Manual(s)', req'[s].reply # NoRequest
               PROVE  Of(s)' = [status |-> "CONSUMED", run |-> req'[s].reply]
    BY DEF RepliesAgree
  <2>1. CASE s = r
    BY <2>1 DEF Of, Keeps
  <2>2. CASE s # r
    <3>1. req'[s] = req[s]
      BY <2>2 DEF Keeps
    <3>2. Of(s) = [status |-> "CONSUMED", run |-> req[s].reply]
      BY <3>1 DEF IInv, RepliesAgree, Manual
    <3>3. req[s].approval # mine
      BY <1>0, <3>2 DEF Of
    <3> QED BY <1>0, <3>1, <3>2, <3>3 DEF Of
  <2> QED BY <2>1, <2>2
<1> QED BY <1>1, <1>3, <1>4, <1>5, <1>6 DEF IInv

\* A step that moves a request on, or answers it, without touching approvals.
LEMMA MoveStep ==
  ASSUME IInv, TypeOK', NEW r \in Requests, NEW pc \in Pc, Moves(r, pc),
         req'[r].reply = req[r].reply,
         UNCHANGED <<approval, sent>>, claimed \subseteq claimed',
         RequestInv(r)', SentInv(r)', EarlyInv(r)',
         Manual(r) /\ pc \in Executing => req[r].pc \in Executing
  PROVE  IInv'
<1>1. Manual(r) /\ req'[r].reply # NoRequest =>
        Of(r) = [status |-> "CONSUMED", run |-> req'[r].reply]
  BY DEF IInv, RepliesAgree
<1> QED BY <1>1, PrivateStep DEF Moves

LEMMA EndStep ==
  ASSUME IInv, TypeOK', NEW r \in Requests, Moves(r, "done"),
         UNCHANGED <<approval, sent, claimed>>,
         Manual(r) /\ req'[r].reply # NoRequest =>
           Of(r) = [status |-> "CONSUMED", run |-> req'[r].reply]
  PROVE  IInv'
<1>1. RequestInv(r)' /\ SentInv(r)' /\ EarlyInv(r)'
  BY DEF Moves, RequestInv, SentInv, EarlyInv, Executing, Manual
<1> QED BY <1>1, PrivateStep DEF Moves, Executing

LEMMA RefuseStep ==
  ASSUME IInv, TypeOK', NEW r \in Requests, Refuse(r), UNCHANGED <<approval, sent, claimed>>
  PROVE  IInv'
<1>1. Moves(r, "done") /\ req'[r].reply = NoRequest
  BY RefuseMoves DEF IInv
<1> QED BY <1>1, EndStep

LEMMA PreviousStep ==
  ASSUME IInv, TypeOK', NEW r \in Requests, Previous(r), Of(r).status = "CONSUMED",
         UNCHANGED <<approval, sent, claimed>>
  PROVE  IInv'
<1>0. TypeOK /\ Of(r) \in Approval
  BY DEF IInv, TypeOK, Request, Of
<1>1. CASE Refuse(r)
  BY <1>1, RefuseStep
<1>2. CASE Answer(r, Of(r).run)
  <2>1. Moves(r, "done") /\ req'[r].reply = Of(r).run
    BY <1>0, <1>2, AnswerMoves DEF Approval
  <2> QED BY <1>0, <2>1, EndStep DEF Approval
<1> QED BY <1>1, <1>2 DEF Previous

-----------------------------------------------------------------------------
(* The steps, one by one.                                                  *)

LEMMA ApproveStep ==
  ASSUME IInv, NEW a \in Approvals, Approve(a) \/ Reanalyse(a)
  PROVE  IInv'
<1>1. CASE Reanalyse(a)
  <2>1. TypeOK'
    BY <1>1 DEF IInv, TypeOK, Reanalyse
  <2> QED BY <1>1, <2>1 DEF Reanalyse, IInv, UsedIsClaimed, RequestInv, SentInv, EarlyInv,
             Exclusive, UnusedIsFresh, RepliesAgree, Manual, At, Of, Fresh, OnceEach
<1>2. CASE Approve(a)
  <2>1. /\ approval \in [Approvals -> Approval] /\ approval[a].status = "none"
        /\ approval' = [approval EXCEPT ![a] = [approval[a] EXCEPT !.status = "APPROVED"]]
        /\ UNCHANGED <<claimed, changed, results, lock, req, sent>>
    BY <1>2 DEF IInv, TypeOK, Approve
  <2>2. [approval[a] EXCEPT !.status = "APPROVED"] \in Approval
    BY <2>1 DEF Approval, Status
  <2>3. /\ approval' \in [Approvals -> Approval]
        /\ approval'[a].status = "APPROVED"
        /\ \A b \in Approvals : b # a => approval'[b] = approval[b]
    BY <2>1, <2>2 DEF Approval
  <2>4. TypeOK'
    BY <2>1, <2>3 DEF IInv, TypeOK
  <2>5. UsedIsClaimed' /\ UnusedIsFresh'
    BY <2>1, <2>3 DEF IInv, UsedIsClaimed, UnusedIsFresh, Fresh
  <2>6. ASSUME NEW s \in Requests PROVE RequestInv(s)' /\ SentInv(s)' /\ EarlyInv(s)'
    <3>1. req[s].approval \in Approvals
      BY DEF IInv, TypeOK, Request
    <3>2. RequestInv(s) /\ SentInv(s) /\ EarlyInv(s)
      BY DEF IInv
    <3>3. RequestInv(s)'
      <4>1. CASE req[s].approval = a
        BY <4>1, <2>1, <2>3, <3>2 DEF RequestInv, Manual, At, Of
      <4>2. CASE req[s].approval # a
        BY <4>2, <2>1, <2>3, <3>1, <3>2 DEF RequestInv, Manual, At, Of
      <4> QED BY <4>1, <4>2
    <3> QED BY <2>1, <3>2, <3>3 DEF SentInv, EarlyInv, Manual, Fresh, OnceEach
  <2>7. Exclusive'
    BY <2>1 DEF IInv, Exclusive, Manual
  <2>8. RepliesAgree'
    <3> SUFFICES ASSUME NEW s \in Requests, Manual(s), req[s].reply # NoRequest
                 PROVE  Of(s)' = [status |-> "CONSUMED", run |-> req[s].reply]
      BY <2>1 DEF RepliesAgree, Manual
    <3>1. req[s].approval \in Approvals /\ Of(s) = [status |-> "CONSUMED", run |-> req[s].reply]
      BY DEF IInv, TypeOK, Request, RepliesAgree
    <3>2. req[s].approval # a
      BY <2>1, <3>1 DEF Of
    <3> QED BY <2>1, <2>3, <3>1, <3>2 DEF Of
  <2> QED BY <2>4, <2>5, <2>6, <2>7, <2>8 DEF IInv
<1> QED BY <1>1, <1>2


\* What a step of a request assumes about it.
LEMMA Facts ==
  ASSUME IInv, NEW r \in Requests
  PROVE  /\ TypeOK /\ RequestInv(r) /\ SentInv(r) /\ EarlyInv(r)
         /\ req \in [Requests -> Request] /\ req[r] \in Request
         /\ Process(r) \in Processes /\ req[r].approval \in Approvals
         /\ req[r].case \in 1..(NumCases + 1) /\ req[r].mode \in {"manual", "auto"}
         /\ req[r].again \in BOOLEAN
         /\ Of(r) \in Approval /\ Of(r).status \in Status
BY DEF IInv, TypeOK, Request, Of, Process, Approval

LEMMA ReceiveStep ==
  ASSUME IInv, TypeOK', NEW r \in Requests, Receive(r)
  PROVE  IInv'
<1>1. Moves(r, "load") /\ req'[r].reply = req[r].reply /\ UNCHANGED <<approval, claimed, sent>>
  BY Facts, GotoMoves DEF Receive, Pc
<1>2. RequestInv(r)' /\ SentInv(r)' /\ EarlyInv(r)'
  BY <1>1, Facts DEF Receive, At, Moves, RequestInv, SentInv, EarlyInv, Executing, Manual
<1> QED BY <1>1, <1>2, MoveStep DEF Pc, Executing

LEMMA LoadStep ==
  ASSUME IInv, TypeOK', NEW r \in Requests, Load(r)
  PROVE  IInv'
<1>0. UNCHANGED <<approval, claimed, sent>>
  BY DEF Load
<1>1. CASE Of(r).status = "CONSUMED" /\ Previous(r)
  BY <1>0, <1>1, PreviousStep
<1>2. CASE Refuse(r)
  BY <1>0, <1>2, RefuseStep
<1>3. CASE Of(r).status = "APPROVED" /\ Goto(r, "claim")
  <2>1. Moves(r, "claim") /\ req'[r].reply = req[r].reply
    BY <1>3, Facts, GotoMoves DEF Pc
  <2>2. RequestInv(r)' /\ SentInv(r)' /\ EarlyInv(r)'
    BY <1>0, <1>3, <2>1, Facts
       DEF Load, At, Of, Moves, Keeps, RequestInv, SentInv, EarlyInv, Executing, Manual
  <2> QED BY <1>0, <2>1, <2>2, MoveStep DEF Pc, Executing
<1> QED BY <1>1, <1>2, <1>3 DEF Load

\* Nobody who executes the approval had claimed it before.
LEMMA ClaimStep ==
  ASSUME IInv, TypeOK', NEW r \in Requests, Claim(r)
  PROVE  IInv'
<1>0. /\ UNCHANGED <<approval, sent>> /\ claimed' = claimed \cup {req[r].approval}
      /\ At(r, "claim") /\ Manual(r)
  BY Facts DEF Claim, At, RequestInv, Manual
<1>1. CASE req[r].approval \in claimed
  <2>1. Moves(r, "reload") /\ req'[r].reply = req[r].reply
    BY <1>1, Facts, GotoMoves DEF Pc, Claim
  <2>2. RequestInv(r)' /\ SentInv(r)' /\ EarlyInv(r)'
    BY <1>0, <2>1, Facts
       DEF At, Of, Moves, Keeps, RequestInv, SentInv, EarlyInv, Executing, Manual
  <2> QED BY <1>0, <2>1, <2>2, MoveStep DEF Pc, Executing
<1>2. CASE req[r].approval \notin claimed
  <2>1. Moves(r, "save_running") /\ req'[r].reply = req[r].reply
    BY <1>2, Facts, GotoMoves DEF Pc, Claim
  <2>2. Of(r).status = "APPROVED"
    BY <1>0, <1>2, Facts DEF IInv, UsedIsClaimed, RequestInv, At, Of, Status
  <2>3. RequestInv(r)'
    BY <1>0, <2>1, <2>2, Facts DEF At, Of, Moves, Keeps, RequestInv, Executing, Manual
  <2>4. Fresh(req[r].approval)
    BY <2>2, Facts DEF IInv, UnusedIsFresh, Of
  <2>5. SentInv(r)' /\ EarlyInv(r)'
    BY <1>0, <2>1, <2>4, Facts
       DEF At, Moves, Keeps, SentInv, EarlyInv, Executing, Manual, Fresh, OnceEach
  <2>6. ASSUME NEW s \in Requests, s # r PROVE RequestInv(s)' /\ SentInv(s)' /\ EarlyInv(s)'
    <3>1. req'[s] = req[s] /\ RequestInv(s) /\ SentInv(s) /\ EarlyInv(s)
      BY <2>1, <2>6 DEF Moves, Keeps, IInv
    <3> QED BY <1>0, <3>1 DEF RequestInv, SentInv, EarlyInv, Manual, At, Of, Fresh, OnceEach
  <2>7. \A s \in Requests : Manual(s) /\ req[s].pc \in Executing =>
          req[s].approval # req[r].approval
    BY <1>2 DEF IInv, RequestInv
  <2>8. Exclusive'
    BY <2>1, <2>7 DEF IInv, Exclusive, Moves, Keeps, Manual
  <2>9. UsedIsClaimed' /\ UnusedIsFresh' /\ RepliesAgree'
    BY <1>0, <2>1 DEF IInv, UsedIsClaimed, UnusedIsFresh, RepliesAgree, Moves, Keeps, Manual, Of, Fresh
  <2> QED BY <2>3, <2>5, <2>6, <2>8, <2>9 DEF IInv
<1> QED BY <1>1, <1>2

LEMMA ReloadStep ==
  ASSUME IInv, TypeOK', NEW r \in Requests, Reload(r)
  PROVE  IInv'
BY RefuseStep, PreviousStep DEF Reload


\* A regression relies on nothing but its place among the cases.
LEMMA AutoMove ==
  ASSUME IInv, TypeOK', NEW r \in Requests, ~Manual(r),
         NEW pc \in {"check_requirement", "prepare", "send"}, Goto(r, pc),
         req[r].case <= NumCases, UNCHANGED <<approval, sent, claimed>>
  PROVE  IInv'
<1>1. Moves(r, pc) /\ req'[r].reply = req[r].reply
  BY Facts, GotoMoves DEF Pc
<1>2. RequestInv(r)' /\ SentInv(r)' /\ EarlyInv(r)'
  BY <1>1, Facts DEF Moves, Keeps, RequestInv, SentInv, EarlyInv, Manual
<1> QED BY <1>1, <1>2, MoveStep DEF Pc

LEMMA AutoStep ==
  ASSUME IInv, TypeOK', NEW r \in Requests, LoadAuto(r) \/ CheckRequirement(r)
  PROVE  IInv'
<1>1. /\ UNCHANGED <<approval, claimed, sent>> /\ ~Manual(r)
      /\ req[r].case <= NumCases
  BY Facts DEF LoadAuto, CheckRequirement, RequestInv, At
<1>2. CASE Refuse(r)
  BY <1>1, <1>2, RefuseStep
<1>3. CASE Goto(r, "check_requirement") \/ Goto(r, "prepare")
  BY <1>1, <1>3, AutoMove
<1> QED BY <1>2, <1>3 DEF LoadAuto, CheckRequirement

\* A manual run that raises has its approval marked FAILED next.
LEMMA RaiseStep ==
  ASSUME IInv, TypeOK', NEW r \in Requests, Raise(r),
         req[r].pc \in {"prepare", "answer"}, UNCHANGED <<approval, sent, claimed>>
  PROVE  IInv'
<1>1. CASE ~Manual(r)
  BY <1>1, RefuseStep DEF Raise
<1>2. CASE Manual(r)
  <2>1. Moves(r, "finish_failed") /\ req'[r].reply = req[r].reply
    BY <1>2, Facts, GotoMoves DEF Raise, Pc
  <2>2. Of(r).status = "RUNNING" /\ req[r].approval \in claimed
    BY <1>2, Facts DEF RequestInv, Executing, At
  <2>3. RequestInv(r)'
    BY <1>2, <2>1, <2>2, Facts DEF Moves, Keeps, RequestInv, Manual, At, Of
  <2>4. SentInv(r)' /\ EarlyInv(r)'
    BY <1>2, <2>1, Facts DEF Moves, Keeps, SentInv, EarlyInv, Manual, Executing, Fresh, OnceEach
  <2> QED BY <1>2, <2>1, <2>3, <2>4, MoveStep DEF Pc, Executing
<1> QED BY <1>1, <1>2

LEMMA PrepareStep ==
  ASSUME IInv, TypeOK', NEW r \in Requests, Prepare(r)
  PROVE  IInv'
<1>1. At(r, "prepare") /\ UNCHANGED <<approval, sent, claimed>> /\ req[r].case <= NumCases
  BY Facts DEF Prepare, RequestInv, At
<1>2. CASE Raise(r)
  BY <1>1, <1>2, RaiseStep DEF At
<1>3. CASE Goto(r, "send") /\ ~Manual(r)
  BY <1>1, <1>3, AutoMove
<1>4. CASE Goto(r, "send") /\ Manual(r)
  <2>1. Moves(r, "send") /\ req'[r].reply = req[r].reply
    BY <1>4, Facts, GotoMoves DEF Pc
  <2>2. RequestInv(r)' /\ EarlyInv(r)'
    BY <1>1, <1>4, <2>1, Facts
       DEF Moves, Keeps, RequestInv, EarlyInv, Manual, Executing, At, Of
  <2>3. Fresh(req[r].approval) /\ ~req[r].again /\ req[r].case = 1 /\ NumCases \in Nat \ {0}
    BY <1>1, <1>4, Facts, ApprovalAssumption DEF SentInv, Executing, At, ApprovalAssumption
  <2>4. SentInv(r)'
    BY <1>1, <1>4, <2>1, <2>3
       DEF Moves, Keeps, SentInv, Manual, Executing, At, Fresh, OnceEach, Cases
  <2> QED BY <1>1, <2>1, <2>2, <2>4, MoveStep DEF Pc, Executing, At
<1> QED BY <1>2, <1>3, <1>4 DEF Prepare

LEMMA SaveRunStep ==
  ASSUME IInv, TypeOK', NEW r \in Requests, SaveRun(r)
  PROVE  IInv'
<1>1. At(r, "save_run") /\ UNCHANGED <<approval, sent, claimed>>
  BY DEF SaveRun
<1>2. CASE ~Manual(r)
  <2>1. Moves(r, "done")
    BY <1>2, Facts, AnswerMoves DEF SaveRun
  <2> QED BY <1>1, <1>2, <2>1, EndStep
<1>3. CASE Manual(r)
  <2>1. Moves(r, "finish_consumed") /\ req'[r].reply = req[r].reply
    BY <1>3, Facts, GotoMoves DEF SaveRun, Pc
  <2>2. Of(r).status = "RUNNING" /\ req[r].approval \in claimed
    BY <1>1, <1>3, Facts DEF RequestInv, Executing, At
  <2>3. RequestInv(r)'
    BY <1>1, <1>3, <2>1, <2>2, Facts DEF Moves, Keeps, RequestInv, Manual, At, Of
  <2>4. SentInv(r)' /\ EarlyInv(r)'
    BY <1>1, <1>3, <2>1, Facts
       DEF Moves, Keeps, SentInv, EarlyInv, Manual, Executing, Fresh, OnceEach, At
  <2> QED BY <1>1, <1>3, <2>1, <2>3, <2>4, MoveStep DEF Pc, Executing, At
<1> QED BY <1>2, <1>3

LEMMA NotSavedStep ==
  ASSUME IInv, TypeOK', NEW r \in Requests, NotSaved(r)
  PROVE  IInv'
BY RefuseStep DEF NotSaved

LEMMA SaveRunningStep ==
  ASSUME IInv, TypeOK', NEW r \in Requests, SaveRunning(r)
  PROVE  IInv'
<1>1. Moves(r, "prepare") /\ req'[r].reply = req[r].reply
  BY Facts, GotoMoves DEF SaveRunning, Pc
<1>2. /\ Manual(r) /\ At(r, "save_running") /\ UNCHANGED <<claimed, sent>>
      /\ Of(r).status = "APPROVED" /\ req[r].approval \in claimed
  BY Facts DEF SaveRunning, RequestInv, Executing, At
<1>3. /\ approval'[req[r].approval].status = "RUNNING"
      /\ \A a \in Approvals : a # req[r].approval => approval'[a] = approval[a]
  BY Facts DEF SaveRunning, TypeOK
<1>4. RequestInv(r)'
  BY <1>1, <1>2, <1>3, Facts DEF Moves, Keeps, RequestInv, Manual, At, Of
<1>5. SentInv(r)' /\ EarlyInv(r)'
  BY <1>1, <1>2, Facts DEF Moves, Keeps, SentInv, EarlyInv, Manual, Executing, Fresh, OnceEach, At
<1>6. req[r].reply = NoRequest
  BY <1>2, Facts DEF IInv, RepliesAgree
<1> QED BY <1>1, <1>2, <1>3, <1>4, <1>5, <1>6, OwnerStep DEF Moves, Executing, At

LEMMA FinishStep ==
  ASSUME IInv, TypeOK', NEW r \in Requests, Finish(r)
  PROVE  IInv'
<1>1. /\ Manual(r) /\ UNCHANGED <<claimed, sent>> /\ req[r].pc \in Executing
  BY Facts DEF Finish, RequestInv, Executing, At
<1>2. Moves(r, "done")
  BY Facts, AnswerMoves, RefuseMoves DEF Finish
<1>3. /\ \A a \in Approvals : a # req[r].approval => approval'[a] = approval[a]
      /\ approval'[req[r].approval].status \in {"FAILED", "CONSUMED"}
      /\ req'[r].reply # NoRequest =>
           approval'[req[r].approval] = [status |-> "CONSUMED", run |-> req'[r].reply]
  <2>1. CASE At(r, "finish_consumed") /\ Answer(r, r)
    BY <2>1, Facts, AnswerMoves DEF Finish, TypeOK, At
  <2>2. CASE At(r, "finish_failed") /\ Refuse(r)
    BY <2>2, Facts, RefuseMoves DEF Finish, TypeOK, At
  <2> QED BY <2>1, <2>2 DEF Finish
<1>4. RequestInv(r)' /\ SentInv(r)' /\ EarlyInv(r)'
  BY <1>2 DEF Moves, RequestInv, SentInv, EarlyInv, Executing, Manual
<1> QED BY <1>1, <1>2, <1>3, <1>4, OwnerStep DEF Moves, Executing

LEMMA SendStep ==
  ASSUME IInv, TypeOK', NEW r \in Requests, Send(r)
  PROVE  IInv'
<1> DEFINE a == req[r].approval  c == req[r].case
<1>1. Moves(r, "answer") /\ req'[r].reply = req[r].reply
  BY Facts, GotoMoves DEF Send, Pc
<1>2. /\ At(r, "send") /\ UNCHANGED <<approval, claimed>>
      /\ c \in Cases /\ a \in Approvals
  BY Facts, ApprovalAssumption DEF Send, RequestInv, At, Cases, ApprovalAssumption
<1>3. CASE ~Manual(r)
  <2>1. RequestInv(r)' /\ SentInv(r)' /\ EarlyInv(r)'
    BY <1>1, <1>2, <1>3, Facts DEF Moves, Keeps, RequestInv, SentInv, EarlyInv, Manual, At
  <2> QED BY <1>1, <1>2, <1>3, <2>1, MoveStep DEF Send, Pc
<1>4. CASE Manual(r)
  <2>1. /\ sent \in [Approvals -> [Cases -> Nat]]
        /\ sent' = [sent EXCEPT ![a][c] = @ + 1]
    BY <1>4, Facts DEF TypeOK, Send
  <2>2. /\ \A b \in Approvals : b # a => sent'[b] = sent[b]
        /\ sent'[a][c] = sent[a][c] + 1
        /\ \A d \in Cases : d # c => sent'[a][d] = sent[a][d]
        /\ \A d \in Cases : sent[a][d] \in Nat
    BY <1>2, <2>1
  <2>3. Of(r).status = "RUNNING"
    BY <1>2, <1>4, Facts DEF RequestInv, Executing, At
  <2>4. RequestInv(r)' /\ EarlyInv(r)'
    BY <1>1, <1>2, <1>4, <2>3, Facts
       DEF Moves, Keeps, RequestInv, EarlyInv, Manual, Executing, At, Of
  <2>5. SentInv(r)'
    <3>1. /\ \A d \in Cases : (d < c => sent[a][d] > 0) /\ (d > c => sent[a][d] = 0)
          /\ sent[a][c] = 0 \/ (req[r].again /\ OnceEach(a))
          /\ ~req[r].again => OnceEach(a)
      BY <1>2, <1>4, Facts DEF SentInv, Executing, At
    <3>2. \A d \in Cases : (d < c => sent'[a][d] > 0) /\ (d > c => sent'[a][d] = 0)
      BY <1>2, <2>2, <3>1 DEF Cases
    <3>3. sent'[a][c] > 0
      BY <1>2, <2>2
    <3>4. ~req[r].again => OnceEach(a)'
      BY <1>1, <1>2, <2>2, <3>1 DEF OnceEach, Moves, Keeps
    <3> QED BY <1>1, <3>2, <3>3, <3>4 DEF SentInv, Moves, Keeps, OnceEach
  <2>6. req[r].reply = NoRequest
    BY <2>3, <1>4, Facts DEF IInv, RepliesAgree
  <2> QED BY <1>1, <1>2, <1>4, <2>2, <2>3, <2>4, <2>5, <2>6, OwnerStep
          DEF Moves, Executing, At, Of, Send
<1> QED BY <1>3, <1>4

\* The next case, or the end of the run, or the one repetition.
LEMMA AnsweredStep ==
  ASSUME IInv, TypeOK', NEW r \in Requests, Answered(r)
  PROVE  IInv'
<1> DEFINE a == req[r].approval  c == req[r].case
<1>1. /\ At(r, "answer") /\ UNCHANGED <<approval, sent, claimed>>
      /\ c \in Cases /\ NumCases \in Nat /\ a \in Approvals
  BY Facts, ApprovalAssumption DEF Answered, RequestInv, At, Cases, ApprovalAssumption
<1>2. CASE Raise(r)
  BY <1>1, <1>2, RaiseStep DEF At
<1>3. CASE ~Raise(r)
  <2>1. /\ Keeps(r) /\ req'[r].reply = req[r].reply
        /\ \/ /\ req'[r].pc = "send" /\ c < NumCases
              /\ req'[r].case = c + 1 /\ req'[r].again = req[r].again
           \/ /\ req'[r].pc = "save_run" /\ c = NumCases
              /\ req'[r].case = c + 1 /\ req'[r].again = req[r].again
           \/ /\ req'[r].pc = "send" /\ req'[r].case = c
              /\ ~req[r].again /\ req'[r].again = TRUE
    <3>1. req \in [Requests -> Request] /\ req' \in [Requests -> Request]
      BY Facts DEF TypeOK
    <3>2. CASE NextCase(r)
      <4>1. req' = [req EXCEPT ![r] = [req[r] EXCEPT
                      !.pc = IF c = NumCases THEN "save_run" ELSE "send", !.case = c + 1]]
        BY <3>1, <3>2 DEF NextCase
      <4>2. req'[r] = [req[r] EXCEPT !.pc = IF c = NumCases THEN "save_run" ELSE "send",
                                     !.case = c + 1]
            /\ \A s \in Requests : s # r => req'[s] = req[s]
        BY <3>1, <4>1
      <4>3. c = NumCases \/ c < NumCases
        BY <1>1 DEF Cases
      <4> QED BY <3>1, <4>2, <4>3, Facts DEF Keeps, Request
    <3>3. CASE ~req[r].again /\ req' = [req EXCEPT ![r].again = TRUE, ![r].pc = "send"]
      <4>1. req' = [req EXCEPT ![r] = [req[r] EXCEPT !.again = TRUE, !.pc = "send"]]
        BY <3>1, <3>3
      <4>2. req'[r] = [req[r] EXCEPT !.again = TRUE, !.pc = "send"]
            /\ \A s \in Requests : s # r => req'[s] = req[s]
        BY <3>1, <4>1
      <4> QED BY <3>1, <3>3, <4>2, Facts, ZenonT(40) DEF Keeps, Request
    <3> QED BY <1>3, <3>2, <3>3 DEF Answered
  <2>2. RequestInv(r)' /\ EarlyInv(r)'
    BY <1>1, <2>1, Facts
       DEF Keeps, RequestInv, EarlyInv, Manual, Executing, At, Of, Cases
  <2>3. SentInv(r)'
    <3>1. Manual(r) => /\ \A d \in Cases : (d < c => sent[a][d] > 0) /\ (d > c => sent[a][d] = 0)
                       /\ sent[a][c] > 0
                       /\ ~req[r].again => OnceEach(a)
      BY <1>1, Facts DEF SentInv, Executing, At
    <3>2. CASE req'[r].pc = "send" /\ req'[r].case = c + 1 /\ c < NumCases
               /\ req'[r].again = req[r].again
      <4>1. Manual(r) => /\ \A d \in Cases : (d < c + 1 => sent[a][d] > 0) /\ (d > c + 1 => sent[a][d] = 0)
                         /\ sent[a][c + 1] = 0
        BY <1>1, <3>1, <3>2 DEF Cases
      <4> QED BY <1>1, <2>1, <3>1, <3>2, <4>1 DEF SentInv, Keeps, Manual, Executing, OnceEach
    <3>3. CASE req'[r].pc = "save_run" /\ c = NumCases /\ req'[r].again = req[r].again
      <4>1. Manual(r) => \A d \in Cases : sent[a][d] > 0
        BY <1>1, <3>1, <3>3 DEF Cases
      <4> QED BY <1>1, <2>1, <3>1, <3>3, <4>1 DEF SentInv, Keeps, Manual, Executing, OnceEach
    <3>4. CASE req'[r].pc = "send" /\ req'[r].case = c /\ ~req[r].again /\ req'[r].again = TRUE
      BY <1>1, <2>1, <3>1, <3>4 DEF SentInv, Keeps, Manual, Executing, OnceEach
    <3> QED BY <2>1, <3>2, <3>3, <3>4
  <2>4. Manual(r) /\ req'[r].reply # NoRequest =>
          Of(r) = [status |-> "CONSUMED", run |-> req'[r].reply]
    BY <2>1 DEF IInv, RepliesAgree
  <2> QED BY <1>1, <2>1, <2>2, <2>3, <2>4, PrivateStep DEF Executing, At
<1> QED BY <1>2, <1>3

\* A crash ends requests and forgets runs; files stay.
LEMMA CrashStep ==
  ASSUME IInv, TypeOK', NEW p \in Processes, Crash(p)
  PROVE  IInv'
<1>1. UNCHANGED <<approval, claimed, sent>>
  BY DEF Crash
<1>2. ASSUME NEW r \in Requests
      PROVE  /\ \/ req'[r] = req[r]
                \/ req'[r].pc = "done"
             /\ req'[r].mode = req[r].mode /\ req'[r].approval = req[r].approval
             /\ req'[r].reply = req[r].reply
  BY Facts DEF Crash, Request
<1>3. ASSUME NEW r \in Requests PROVE RequestInv(r)' /\ SentInv(r)' /\ EarlyInv(r)'
  <2>1. CASE req'[r] = req[r]
    BY <1>1, <2>1, Facts DEF RequestInv, SentInv, EarlyInv, Manual, At, Of, Fresh, OnceEach
  <2>2. CASE req'[r].pc = "done"
    BY <2>2 DEF RequestInv, SentInv, EarlyInv, Executing
  <2> QED BY <1>2, <2>1, <2>2
<1>4. Exclusive'
  BY <1>2 DEF IInv, Exclusive, Manual, Executing
<1>5. UsedIsClaimed' /\ UnusedIsFresh' /\ RepliesAgree'
  BY <1>1, <1>2 DEF IInv, UsedIsClaimed, UnusedIsFresh, RepliesAgree, Fresh, Manual, Of
<1> QED BY <1>3, <1>4, <1>5 DEF IInv

-----------------------------------------------------------------------------
(* Types.  That a step stays within them needs the invariant: the case a   *)
(* request sends is one of the cases.                                      *)

LEMMA RequestTypes ==
  ASSUME IInv, NEW r \in Requests, Progress(r) \/ Receive(r) \/ NotSaved(r)
  PROVE  req' \in [Requests -> Request]
<1>1. ASSUME NEW pc \in Pc, Goto(r, pc) PROVE req' \in [Requests -> Request]
  BY <1>1, Facts, GotoMoves DEF Moves, Keeps
<1>2. ASSUME NEW run \in Requests \cup {NoRequest}, Answer(r, run) PROVE req' \in [Requests -> Request]
  BY <1>2, Facts, AnswerMoves DEF Moves, Keeps
<1>3. Refuse(r) => req' \in [Requests -> Request]
  BY <1>2 DEF Refuse
<1>4. Previous(r) => req' \in [Requests -> Request]
  BY <1>2, <1>3, Facts DEF Previous, Approval
<1>5. Raise(r) => req' \in [Requests -> Request]
  BY <1>1, <1>3 DEF Raise, Pc
<1>6. CASE Answered(r)
  <2>1. req[r].case \in 1..NumCases /\ NumCases \in Nat
    BY <1>6, Facts, ApprovalAssumption DEF Answered, RequestInv, At, ApprovalAssumption
  <2>2. CASE NextCase(r)
    <3> DEFINE x == [req[r] EXCEPT !.pc = IF req[r].case = NumCases THEN "save_run" ELSE "send",
                                   !.case = req[r].case + 1]
    <3>1. x \in Request
      <4>1. req[r].case + 1 \in 1..(NumCases + 1)
        BY <2>1
      <4> QED BY <4>1, Facts DEF Request, Pc
    <3>2. req' = [req EXCEPT ![r] = x]
      BY <2>2, Facts DEF NextCase
    <3> QED BY <3>1, <3>2, Facts
  <2>3. CASE req' = [req EXCEPT ![r].again = TRUE, ![r].pc = "send"]
    <3> DEFINE x == [req[r] EXCEPT !.again = TRUE, !.pc = "send"]
    <3>1. x \in Request
      BY Facts DEF Request, Pc
    <3>2. req' = [req EXCEPT ![r] = x]
      BY <2>3, Facts
    <3> QED BY <3>1, <3>2, Facts
  <2> QED BY <1>5, <1>6, <2>2, <2>3 DEF Answered
<1>7. CASE Receive(r) \/ Load(r) \/ LoadAuto(r) \/ CheckRequirement(r)
  BY <1>1, <1>3, <1>4, <1>7 DEF Receive, Load, LoadAuto, CheckRequirement, Pc
<1>8. CASE Claim(r) \/ Reload(r) \/ SaveRunning(r) \/ NotSaved(r)
  BY <1>1, <1>3, <1>4, <1>8 DEF Claim, Reload, SaveRunning, NotSaved, Pc
<1>9. CASE Prepare(r) \/ Send(r) \/ SaveRun(r) \/ Finish(r)
  BY <1>1, <1>2, <1>3, <1>5, <1>9 DEF Prepare, Send, SaveRun, Finish, Pc
<1> QED BY <1>6, <1>7, <1>8, <1>9 DEF Progress

LEMMA RequestTyped ==
  ASSUME IInv, NEW r \in Requests, Progress(r) \/ Receive(r) \/ NotSaved(r)
  PROVE  TypeOK'
<1>1. req' \in [Requests -> Request]
  BY RequestTypes
<1>2. lock' \in [Processes -> Requests \cup {NoRequest}]
  BY Facts, LockTyped
     DEF TypeOK, Progress, Receive, NotSaved, Load, Claim, Reload, SaveRunning, LoadAuto,
         CheckRequirement, Prepare, Send, Answered, SaveRun, Finish
<1>3. claimed' \subseteq Approvals /\ changed' \in [Approvals -> BOOLEAN]
  BY Facts
     DEF TypeOK, Progress, Receive, NotSaved, Load, Claim, Reload, SaveRunning, LoadAuto,
         CheckRequirement, Prepare, Send, Answered, SaveRun, Finish
<1>4. results' \in [Processes -> SUBSET Requests]
  <2>1. CASE SaveRun(r)
    BY <2>1, Facts DEF TypeOK, SaveRun
  <2>2. CASE ~SaveRun(r)
    BY <2>2, Facts
       DEF TypeOK, Progress, Receive, NotSaved, Load, Claim, Reload, SaveRunning, LoadAuto,
           CheckRequirement, Prepare, Send, Answered, Finish
  <2> QED BY <2>1, <2>2
<1>5. approval' \in [Approvals -> Approval]
  <2>1. CASE SaveRunning(r)
    <3>1. [status |-> "RUNNING", run |-> NoRequest] \in Approval
      BY DEF Approval, Status
    <3> QED BY <2>1, <3>1, Facts DEF TypeOK, SaveRunning
  <2>2. CASE Finish(r)
    <3>1. /\ [status |-> "CONSUMED", run |-> r] \in Approval
          /\ [status |-> "FAILED", run |-> NoRequest] \in Approval
      BY DEF Approval, Status
    <3> QED BY <2>2, <3>1, Facts DEF TypeOK, Finish
  <2>3. CASE ~SaveRunning(r) /\ ~Finish(r)
    BY <2>3, Facts
       DEF TypeOK, Progress, Receive, NotSaved, Load, Claim, Reload, LoadAuto,
           CheckRequirement, Prepare, Send, Answered, SaveRun
  <2> QED BY <2>1, <2>2, <2>3
<1>6. sent' \in [Approvals -> [Cases -> Nat]]
  <2>1. CASE Send(r)
    <3>1. req[r].case \in Cases
      BY <2>1, Facts, ApprovalAssumption DEF Send, RequestInv, At, Cases, ApprovalAssumption
    <3> QED BY <2>1, <3>1, Facts DEF TypeOK, Send
  <2>2. CASE ~Send(r)
    BY <2>2, Facts
       DEF TypeOK, Progress, Receive, NotSaved, Load, Claim, Reload, SaveRunning, LoadAuto,
           CheckRequirement, Prepare, Answered, SaveRun, Finish
  <2> QED BY <2>1, <2>2
<1> QED BY <1>1, <1>2, <1>3, <1>4, <1>5, <1>6 DEF TypeOK

LEMMA CrashTyped ==
  ASSUME IInv, NEW p \in Processes, Crash(p)
  PROVE  TypeOK'
<1>1. \A r \in Requests : [req[r] EXCEPT !.pc = "done"] \in Request
  BY Facts DEF Request, Pc
<1>2. req' \in [Requests -> Request]
  BY <1>1, Facts DEF Crash
<1> QED BY <1>2 DEF IInv, TypeOK, Crash

-----------------------------------------------------------------------------
LEMMA Step ==
  ASSUME IInv, [Next]_vars
  PROVE  IInv'
<1>1. CASE UNCHANGED vars
  BY <1>1 DEF vars, IInv, TypeOK, UsedIsClaimed, RequestInv, SentInv, EarlyInv, Exclusive,
     UnusedIsFresh, RepliesAgree, Manual, At, Of, Fresh, OnceEach
<1>2. ASSUME NEW a \in Approvals, Approve(a) \/ Reanalyse(a) PROVE IInv'
  BY <1>2, ApproveStep
<1>3. ASSUME NEW r \in Requests, Receive(r) \/ Progress(r) \/ NotSaved(r) PROVE IInv'
  <2>1. TypeOK'
    BY <1>3, RequestTyped
  <2> QED BY <1>3, <2>1, ReceiveStep, LoadStep, ClaimStep, ReloadStep, SaveRunningStep,
          AutoStep, PrepareStep, SendStep, AnsweredStep, SaveRunStep, FinishStep, NotSavedStep
          DEF Progress
<1>4. ASSUME NEW p \in Processes, Crash(p) PROVE IInv'
  BY <1>4, CrashTyped, CrashStep
<1> QED BY <1>1, <1>2, <1>3, <1>4 DEF Next

LEMMA Start ==
  ASSUME Init
  PROVE  IInv
<1>1. NumCases \in Nat \ {0} /\ NoRequest \notin Requests
  BY ApprovalAssumption DEF ApprovalAssumption
<1>2. req \in [Requests -> Request]
  BY DEF Init
<1>3. \A r \in Requests : /\ req[r].pc = "idle" /\ req[r].case = 1 /\ ~req[r].again
                          /\ req[r].reply = NoRequest
  BY DEF Init
<1>4. [status |-> "none", run |-> NoRequest] \in Approval
  BY DEF Approval, Status
<1>5. TypeOK
  BY <1>2, <1>4 DEF Init, TypeOK
<1>6. UsedIsClaimed /\ UnusedIsFresh
  BY DEF Init, UsedIsClaimed, UnusedIsFresh, Fresh
<1>7. ASSUME NEW r \in Requests PROVE RequestInv(r) /\ SentInv(r) /\ EarlyInv(r)
  BY <1>1, <1>3 DEF RequestInv, SentInv, EarlyInv, Executing
<1>8. Exclusive /\ RepliesAgree
  BY <1>3 DEF Exclusive, RepliesAgree, Executing
<1> QED BY <1>5, <1>6, <1>7, <1>8 DEF IInv

\* The inductive invariant holds in every reachable state.
THEOREM Invariant == Spec => []IInv
<1>1. Init => IInv
  BY Start
<1>2. IInv /\ [Next]_vars => IInv'
  BY Step
<1> QED BY <1>1, <1>2, PTL DEF Spec

\* Every variable of the executor stays within its type, in particular no
\* request runs past the last case of its approval (_execute's for loop).
THEOREM TypeCorrect == Spec => []TypeOK
<1>1. IInv => TypeOK
  BY DEF IInv
<1> QED BY <1>1, Invariant, PTL

\* Whatever the number of processes and requests, crashes and failing saves,
\* at most one manual request is past the .claim file of an approval, and
\* the approval is RUNNING (or about to be) for as long as it is.
THEOREM OneExecutorCorrect == Spec => []OneExecutor
<1>1. IInv => OneExecutor
  BY DEF IInv, RequestInv, Exclusive, OneExecutor
<1> QED BY <1>1, Invariant, PTL

\* Retried and concurrent manual requests that get an answer get the same run.
THEOREM RepliesCorrect == Spec => []RepliesAgree
<1>1. IInv => RepliesAgree
  BY DEF IInv
<1> QED BY <1>1, Invariant, PTL

-----------------------------------------------------------------------------
(* What the steps do to an approval and to its target.                     *)

\* Everything a step can change in an approval file or send for it.
LEMMA ApprovalSteps ==
  ASSUME IInv, Next
  PROVE  \/ UNCHANGED <<approval, sent>>
         \/ \E a \in Approvals : Approve(a)
         \/ \E r \in Requests : Manual(r) /\ (SaveRunning(r) \/ Send(r) \/ Finish(r))
<1>1. ASSUME NEW r \in Requests, Receive(r) \/ Progress(r) \/ NotSaved(r)
      PROVE  \/ UNCHANGED <<approval, sent>>
             \/ Manual(r) /\ (SaveRunning(r) \/ Send(r) \/ Finish(r))
  <2>1. SaveRunning(r) \/ Finish(r) => Manual(r)
    BY Facts DEF SaveRunning, Finish, RequestInv, At
  <2>2. Send(r) => Manual(r) \/ UNCHANGED <<approval, sent>>
    BY DEF Send
  <2> QED BY <1>1, <2>1, <2>2
          DEF Progress, Receive, NotSaved, Load, Claim, Reload, LoadAuto,
              CheckRequirement, Prepare, Answered, SaveRun
<1> QED BY <1>1 DEF Next, Reanalyse, Crash

\* An approval in execution is held by one request, and no other changes it.
LEMMA OwnChange ==
  ASSUME IInv, NEW r \in Requests, Manual(r), SaveRunning(r) \/ Send(r) \/ Finish(r)
  PROVE  /\ Of(r).status \in {"APPROVED", "RUNNING"}
         /\ \A a \in Approvals : a # req[r].approval =>
              approval'[a] = approval[a] /\ sent'[a] = sent[a]
<1>1. Of(r).status \in {"APPROVED", "RUNNING"}
  BY Facts DEF SaveRunning, Send, Finish, RequestInv, Executing, At
<1> QED BY <1>1, Facts DEF SaveRunning, Send, Finish, TypeOK

\* An approval that was used, successfully or not, never changes again and
\* nothing more is sent for it: no retry, crash or second process revives it.
THEOREM SettledCorrect == Spec => SettledIsFinal
<1>1. IInv /\ [Next]_vars =>
        [\A a \in Approvals : approval[a].status \in {"CONSUMED", "FAILED"} =>
           approval'[a] = approval[a] /\ sent'[a] = sent[a]]_vars
  <2> SUFFICES ASSUME IInv, Next, NEW a \in Approvals, approval[a].status \in {"CONSUMED", "FAILED"}
               PROVE  approval'[a] = approval[a] /\ sent'[a] = sent[a]
    OBVIOUS
  <2>1. ASSUME NEW b \in Approvals, Approve(b)
        PROVE  approval'[a] = approval[a] /\ sent'[a] = sent[a]
    BY <2>1 DEF Approve, IInv, TypeOK
  <2>2. ASSUME NEW r \in Requests, Manual(r), SaveRunning(r) \/ Send(r) \/ Finish(r)
        PROVE  approval'[a] = approval[a] /\ sent'[a] = sent[a]
    BY <2>2, OwnChange DEF Of
  <2> QED BY <2>1, <2>2, ApprovalSteps
<1> QED BY <1>1, Invariant, PTL DEF Spec, SettledIsFinal

-----------------------------------------------------------------------------
(* The refinement.                                                         *)

LEMMA AbstractStep ==
  ASSUME IInv, Next
  PROVE  Abstract!Next \/ UNCHANGED <<[a \in Approvals |-> approval[a].status], sent>>
<1> DEFINE phase == [a \in Approvals |-> approval[a].status]
<1>0. approval \in [Approvals -> Approval] /\ sent \in [Approvals -> [Cases -> Nat]]
  BY DEF IInv, TypeOK
<1>1. ASSUME NEW a \in Approvals, NEW st \in Status,
             NEW x \in Approval, x.status = st, approval' = [approval EXCEPT ![a] = x]
      PROVE  phase' = [phase EXCEPT ![a] = st]
  BY <1>0, <1>1
<1>2. ASSUME NEW a \in Approvals, Approve(a) PROVE Abstract!Pass(a, "none", "APPROVED")
  <2>1. [approval[a] EXCEPT !.status = "APPROVED"] \in Approval
    BY <1>0 DEF Approval, Status
  <2>2. approval' = [approval EXCEPT ![a] = [approval[a] EXCEPT !.status = "APPROVED"]]
    BY <1>0, <1>2 DEF Approve
  <2>3. phase' = [phase EXCEPT ![a] = "APPROVED"]
    BY <1>1, <2>1, <2>2 DEF Status, Approval
  <2> QED BY <1>2, <2>3 DEF Approve, Abstract!Pass
<1>3. ASSUME NEW r \in Requests, SaveRunning(r)
      PROVE  Abstract!Pass(req[r].approval, "APPROVED", "RUNNING")
  <2>1. Manual(r) /\ Of(r).status = "APPROVED" /\ req[r].approval \in Approvals
    BY <1>3, Facts DEF SaveRunning, RequestInv, Executing, At
  <2>2. [status |-> "RUNNING", run |-> NoRequest] \in Approval
    BY DEF Approval, Status
  <2>3. phase' = [phase EXCEPT ![req[r].approval] = "RUNNING"]
    BY <1>1, <1>3, <2>1, <2>2 DEF SaveRunning, Status
  <2> QED BY <1>3, <2>1, <2>3 DEF SaveRunning, Abstract!Pass, Of
<1>4. ASSUME NEW r \in Requests, Finish(r), NEW a \in Approvals, a = req[r].approval
      PROVE  Abstract!Consume(a) \/ Abstract!Pass(a, "RUNNING", "FAILED")
  <2>1. Manual(r) /\ Of(r).status = "RUNNING"
    BY <1>4, Facts DEF Finish, RequestInv, Executing, At
  <2>2. /\ [status |-> "CONSUMED", run |-> r] \in Approval
        /\ [status |-> "FAILED", run |-> NoRequest] \in Approval
    BY DEF Approval, Status
  <2>3. CASE At(r, "finish_consumed")
    <3>1. \A d \in Cases : sent[a][d] > 0
      BY <1>4, <2>1, <2>3, Facts DEF SentInv, Executing, At
    <3>2. phase' = [phase EXCEPT ![a] = "CONSUMED"]
      BY <1>1, <1>4, <2>1, <2>2, <2>3 DEF Finish, Status, At
    <3> QED BY <1>4, <2>1, <3>1, <3>2
            DEF Finish, Abstract!Consume, Abstract!Pass, Of, Cases, Abstract!Cases
  <2>4. CASE At(r, "finish_failed")
    <3>1. phase' = [phase EXCEPT ![a] = "FAILED"]
      BY <1>1, <1>4, <2>1, <2>2, <2>4 DEF Finish, Status, At
    <3> QED BY <1>4, <2>1, <3>1 DEF Finish, Abstract!Pass, Of
  <2> QED BY <1>4, <2>3, <2>4 DEF Finish
<1>5. ASSUME NEW r \in Requests, Manual(r), Send(r)
      PROVE  Abstract!Send(req[r].approval, req[r].case) /\ req[r].case \in Abstract!Cases
  <2> DEFINE a == req[r].approval  c == req[r].case
  <2>1. /\ At(r, "send") /\ Of(r).status = "RUNNING" /\ a \in Approvals /\ c \in Cases
    BY <1>5, Facts, ApprovalAssumption
       DEF Send, RequestInv, Executing, At, Cases, ApprovalAssumption
  <2>2. /\ \A d \in Cases : (d < c => sent[a][d] > 0) /\ (d > c => sent[a][d] = 0)
        /\ sent[a][c] = 0 \/ OnceEach(a)
    BY <1>5, <2>1, Facts DEF SentInv, Executing, At
  <2>3. \A d \in Cases : sent[a][d] <= 1 => sent[a][d] < 2
    BY <1>0, <2>1
  <2>4. sent' = [sent EXCEPT ![a][c] = @ + 1] /\ UNCHANGED approval
    BY <1>5 DEF Send
  <2> QED BY <2>1, <2>2, <2>3, <2>4 DEF Abstract!Send, Abstract!Cases, Cases, OnceEach, Of
<1>6. ASSUME NEW r \in Requests, Manual(r), SaveRunning(r) \/ Send(r) \/ Finish(r)
      PROVE  Abstract!Next
  <2>1. req[r].approval \in Approvals
    BY Facts
  <2>2. SaveRunning(r) => Abstract!Next
    BY <1>3, <2>1 DEF Abstract!Next
  <2>3. Finish(r) => Abstract!Next
    <3>1. \A a \in Approvals : Finish(r) /\ a = req[r].approval =>
            Abstract!Consume(a) \/ Abstract!Pass(a, "RUNNING", "FAILED")
      BY <1>4
    <3> QED BY <2>1, <3>1 DEF Abstract!Next
  <2>4. Send(r) => Abstract!Next
    BY <1>5, <1>6, <2>1 DEF Abstract!Next
  <2> QED BY <1>6, <2>2, <2>3, <2>4
<1>7. ASSUME NEW a \in Approvals, Approve(a) PROVE Abstract!Next
  BY <1>2, <1>7 DEF Abstract!Next
<1>8. CASE UNCHANGED <<approval, sent>>
  BY <1>8
<1>9. CASE \E a \in Approvals : Approve(a)
  BY <1>7, <1>9
<1>10. CASE \E r \in Requests : Manual(r) /\ (SaveRunning(r) \/ Send(r) \/ Finish(r))
  BY <1>6, <1>10
<1> QED BY <1>8, <1>9, <1>10, ApprovalSteps

\* The claims, locks, requests and processes of workflow/execution.py
\* implement an approval that is good for one execution: each case is sent
\* once, in order, one of them at most twice, and nothing after the end.
THEOREM Implements == Spec => ImplementsOneShot
<1>1. Init => Abstract!Init
  <2> SUFFICES ASSUME Init PROVE Abstract!Init
    OBVIOUS
  <2>1. [a \in Approvals |-> approval[a].status] = [a \in Approvals |-> "none"]
    BY DEF Init
  <2> QED BY <2>1 DEF Init, Abstract!Init, Abstract!Cases, Cases
<1>2. IInv /\ [Next]_vars =>
        [Abstract!Next]_<<[a \in Approvals |-> approval[a].status], sent>>
  BY AbstractStep DEF vars
<1> QED BY <1>1, <1>2, Invariant, PTL DEF Spec, ImplementsOneShot, Abstract!Spec
=============================================================================
