-------------------------- MODULE ApprovalExecution --------------------------
(***************************************************************************)
(* The execution of approved cases (workflow/execution.py): the manual run *)
(* an approval can be used for once, and the automatic regressions that    *)
(* may follow while its Requirement is unchanged.  BatchExecutionService   *)
(* (one workflow) and BatchQueueExecutionService (a queue, or a project)   *)
(* are the same protocol over two kinds of approval file.                  *)
(*                                                                         *)
(* Approvals, their .claim files and Requirements are files, which several *)
(* backend processes may share; runs and reports live in the memory of the *)
(* process that made them.  A handler runs on its process's event loop and *)
(* gives way to others only where it awaits: resolving a credential and    *)
(* sending a case.  _APPROVAL_STATE_LOCK is per process, and no code under *)
(* it awaits, so it stands for the loop too; other processes interleave    *)
(* with it at every access to a file.                                      *)
(*                                                                         *)
(* A run is named after the request that made it.  What a case does and    *)
(* whether it passes is left out: all that matters is how often it is sent.*)
(***************************************************************************)
EXTENDS Naturals

CONSTANTS
  Processes,   \* backend processes on one data directory
  Approvals,   \* approvals people will give
  Requests,    \* HTTP requests to execute an approval, each a run_id too
  NumCases,    \* cases an approval lists
  NoRequest,   \* nobody
  MayCrash,    \* may a process be killed and started again?
  MayFault     \* may a file fail to be written?

ASSUME ApprovalAssumption ==
  /\ NumCases \in Nat \ {0}
  /\ NoRequest \notin Requests
  /\ MayCrash \in BOOLEAN
  /\ MayFault \in BOOLEAN

VARIABLES
  approval,  \* the approval files: status and manual_run_id
  claimed,   \* approvals that have a .claim file
  changed,   \* does the fingerprint of its Requirement differ from approval's?
  results,   \* by process, the runs (and reports) in its memory
  lock,      \* by process, the request that is inside _APPROVAL_STATE_LOCK
  req,       \* the requests
  sent       \* how often a manual run has sent each case of an approval

vars == <<approval, claimed, changed, results, lock, req, sent>>

Cases == 1..NumCases

Status == {"none", "APPROVED", "RUNNING", "FAILED", "CONSUMED"}
Approval == [status : Status, run : Requests \cup {NoRequest}]

\* pc names the next thing a request does.  reply is the run it was answered
\* with, or NoRequest for an error.
Pc == {"idle", "load", "claim", "reload", "save_running", "check_requirement",
       "prepare", "send", "answer", "save_run", "finish_failed",
       "finish_consumed", "done"}
Request == [pc : Pc, process : Processes, approval : Approvals,
            mode : {"manual", "auto"}, case : 1..(NumCases + 1),
            again : BOOLEAN, reply : Requests \cup {NoRequest}]

-----------------------------------------------------------------------------
At(r, pc) == req[r].pc = pc
Process(r) == req[r].process
Of(r) == approval[req[r].approval]
Manual(r) == req[r].mode = "manual"

Goto(r, pc) == req' = [req EXCEPT ![r].pc = pc]
Answer(r, run) == req' = [req EXCEPT ![r].pc = "done", ![r].reply = run]
Refuse(r) == Answer(r, NoRequest)

\* The lock is taken and given back within a handler's synchronous stretch.
Free(p) == lock[p] = NoRequest
Lock(r) == lock' = [lock EXCEPT ![Process(r)] = r]
Unlock(r) == lock' = [lock EXCEPT ![Process(r)] = NoRequest]

\* _load_previous_result: the answer an approval has already been used for.
Previous(r) ==
  IF Of(r).run \in results[Process(r)] THEN Answer(r, Of(r).run) ELSE Refuse(r)

Init ==
  /\ approval = [a \in Approvals |-> [status |-> "none", run |-> NoRequest]]
  /\ claimed = {}
  /\ changed = [a \in Approvals |-> FALSE]
  /\ results = [p \in Processes |-> {}]
  /\ lock = [p \in Processes |-> NoRequest]
  /\ req \in [Requests -> {r \in Request : /\ r.pc = "idle" /\ r.case = 1
                                           /\ ~r.again /\ r.reply = NoRequest}]
  /\ sent = [a \in Approvals |-> [c \in Cases |-> 0]]

-----------------------------------------------------------------------------
(* A person approves; somebody asks for an execution; a new analysis of    *)
(* the operation replaces the Requirement, or restores its wording.        *)

Approve(a) ==
  /\ approval[a].status = "none"
  /\ approval' = [approval EXCEPT ![a].status = "APPROVED"]
  /\ UNCHANGED <<claimed, changed, results, lock, req, sent>>

Receive(r) ==
  /\ At(r, "idle") /\ Free(Process(r))
  /\ Goto(r, "load")
  /\ UNCHANGED <<approval, claimed, changed, results, lock, sent>>

Reanalyse(a) ==
  /\ approval[a].status # "none"
  /\ changed' = [changed EXCEPT ![a] = ~@]
  /\ UNCHANGED <<approval, claimed, results, lock, req, sent>>

-----------------------------------------------------------------------------
(* _claim_manual_approval and _claim_batch_approval.                       *)

Load(r) ==
  /\ At(r, "load") /\ Manual(r) /\ Free(Process(r))
  /\ \/ Of(r).status = "CONSUMED" /\ Previous(r) /\ UNCHANGED lock
     \/ Of(r).status = "APPROVED" /\ Goto(r, "claim") /\ Lock(r)
     \/ Of(r).status \in {"none", "RUNNING", "FAILED"} /\ Refuse(r) /\ UNCHANGED lock
  /\ UNCHANGED <<approval, claimed, changed, results, sent>>

\* Mutant of Claim: the .claim file is written, but not exclusively.
ClaimShared(r) ==
  /\ At(r, "claim")
  /\ claimed' = claimed \cup {req[r].approval}
  /\ Goto(r, "save_running")
  /\ UNCHANGED <<approval, changed, results, lock, sent>>

\* O_CREAT | O_EXCL: one claim per approval, across processes and restarts
Claim(r) ==
  /\ At(r, "claim")
  /\ claimed' = claimed \cup {req[r].approval}
  /\ Goto(r, IF req[r].approval \in claimed THEN "reload" ELSE "save_running")
  /\ UNCHANGED <<approval, changed, results, lock, sent>>

Reload(r) ==
  /\ At(r, "reload")
  /\ IF Of(r).status = "CONSUMED" THEN Previous(r) ELSE Refuse(r)
  /\ Unlock(r)
  /\ UNCHANGED <<approval, claimed, changed, results, sent>>

SaveRunning(r) ==
  /\ At(r, "save_running")
  /\ approval' = [approval EXCEPT ![req[r].approval] = [status |-> "RUNNING", run |-> NoRequest]]
  /\ Goto(r, "prepare") /\ Unlock(r)
  /\ UNCHANGED <<claimed, changed, results, sent>>

\* An automatic regression claims nothing.  auto_regression_allowed may be
\* false, and then it is refused.
LoadAuto(r) ==
  /\ At(r, "load") /\ ~Manual(r) /\ Free(Process(r))
  /\ \/ Of(r).status # "none" /\ Goto(r, "check_requirement")
     \/ Refuse(r)
  /\ UNCHANGED <<approval, claimed, changed, results, lock, sent>>

CheckRequirement(r) ==
  /\ At(r, "check_requirement") /\ Free(Process(r))
  /\ IF changed[req[r].approval] THEN Refuse(r) ELSE Goto(r, "prepare")
  /\ UNCHANGED <<approval, claimed, changed, results, lock, sent>>

-----------------------------------------------------------------------------
(* _execute: load the frozen cases, resolve a credential, send the cases   *)
(* one by one; anything that raises ends a manual run as FAILED.           *)

\* Mutant of Raise: execute_manual has no except clause.
RaiseUncaught(r) == Refuse(r)

Raise(r) == IF Manual(r) THEN Goto(r, "finish_failed") ELSE Refuse(r)

Prepare(r) ==
  /\ At(r, "prepare") /\ Free(Process(r))
  /\ Goto(r, "send") \/ Raise(r)
  /\ UNCHANGED <<approval, claimed, changed, results, lock, sent>>

Send(r) ==
  /\ At(r, "send") /\ Free(Process(r))
  /\ sent' = IF Manual(r) THEN [sent EXCEPT ![req[r].approval][req[r].case] = @ + 1] ELSE sent
  /\ Goto(r, "answer")
  /\ UNCHANGED <<approval, claimed, changed, results, lock>>

\* Mutant of NextCase: one case too many.
NextCaseUnbounded(r) ==
  req' = [req EXCEPT ![r].pc = "send", ![r].case = @ + 1]

NextCase(r) ==
  req' = [req EXCEPT ![r].pc = IF req[r].case = NumCases THEN "save_run" ELSE "send",
                     ![r].case = @ + 1]

\* Mutant of Answered: auth_refresh_attempted is never set.
AnsweredRepeating(r) ==
  /\ At(r, "answer") /\ Free(Process(r))
  /\ NextCase(r) \/ Goto(r, "send") \/ Raise(r)
  /\ UNCHANGED <<approval, claimed, changed, results, lock, sent>>

\* The answer, or a timeout: the case is over.  Once in a run, a case that
\* is rejected with 401 makes the run drop the cached credential and resolve
\* another one; if that is a new one, the case is sent again.
Answered(r) ==
  /\ At(r, "answer") /\ Free(Process(r))
  /\ \/ NextCase(r)
     \/ /\ ~req[r].again
        /\ req' = [req EXCEPT ![r].again = TRUE, ![r].pc = "send"]
     \/ Raise(r)
  /\ UNCHANGED <<approval, claimed, changed, results, lock, sent>>

\* Mutant of SaveRun: execute_batch finishes the approval of a regression too.
SaveRunFinishing(r) ==
  /\ At(r, "save_run") /\ Free(Process(r))
  /\ results' = [results EXCEPT ![Process(r)] = @ \cup {r}]
  /\ Goto(r, "finish_consumed")
  /\ UNCHANGED <<approval, claimed, changed, lock, sent>>

\* RunStore and ReportStore, and then the approval of a manual run
SaveRun(r) ==
  /\ At(r, "save_run") /\ Free(Process(r))
  /\ results' = [results EXCEPT ![Process(r)] = @ \cup {r}]
  /\ IF Manual(r) THEN Goto(r, "finish_consumed") ELSE Answer(r, r)
  /\ UNCHANGED <<approval, claimed, changed, lock, sent>>

Finish(r) ==
  /\ Free(Process(r))
  /\ \/ /\ At(r, "finish_consumed")
        /\ approval' = [approval EXCEPT ![req[r].approval] = [status |-> "CONSUMED", run |-> r]]
        /\ Answer(r, r)
     \/ /\ At(r, "finish_failed")
        /\ approval' = [approval EXCEPT ![req[r].approval] = [status |-> "FAILED", run |-> NoRequest]]
        /\ Refuse(r)
  /\ UNCHANGED <<claimed, changed, results, lock, sent>>

-----------------------------------------------------------------------------
(* Faults.                                                                 *)

\* The approval cannot be saved: the claim, if it was that, stays behind.
NotSaved(r) ==
  /\ MayFault
  /\ req[r].pc \in {"save_running", "finish_failed", "finish_consumed"}
  /\ IF At(r, "save_running") THEN Unlock(r) ELSE Free(Process(r)) /\ UNCHANGED lock
  /\ Refuse(r)
  /\ UNCHANGED <<approval, claimed, changed, results, sent>>

\* Requests in progress get no answer, and the process forgets its runs.
Crash(p) ==
  /\ MayCrash
  /\ results' = [results EXCEPT ![p] = {}]
  /\ lock' = [lock EXCEPT ![p] = NoRequest]
  /\ req' = [r \in Requests |->
       IF Process(r) = p /\ ~At(r, "idle") /\ ~At(r, "done")
       THEN [req[r] EXCEPT !.pc = "done"] ELSE req[r]]
  /\ UNCHANGED <<approval, claimed, changed, sent>>

-----------------------------------------------------------------------------
Progress(r) ==
  \/ Load(r) \/ Claim(r) \/ Reload(r) \/ SaveRunning(r)
  \/ LoadAuto(r) \/ CheckRequirement(r)
  \/ Prepare(r) \/ Send(r) \/ Answered(r) \/ SaveRun(r) \/ Finish(r)

Next ==
  \/ \E a \in Approvals : Approve(a) \/ Reanalyse(a)
  \/ \E r \in Requests : Receive(r) \/ Progress(r) \/ NotSaved(r)
  \/ \E p \in Processes : Crash(p)

Spec == Init /\ [][Next]_vars

\* A request that was received is worked on: the event loop is fair, and
\* every exchange with the target ends within its timeout.
Fairness == \A r \in Requests : WF_vars(Progress(r))

FairSpec == Spec /\ Fairness

-----------------------------------------------------------------------------
(* Properties.                                                             *)

TypeOK ==
  /\ approval \in [Approvals -> Approval]
  /\ claimed \subseteq Approvals
  /\ changed \in [Approvals -> BOOLEAN]
  /\ results \in [Processes -> SUBSET Requests]
  /\ lock \in [Processes -> Requests \cup {NoRequest}]
  /\ req \in [Requests -> Request]
  /\ sent \in [Approvals -> [Cases -> Nat]]

Executing == {"save_running", "prepare", "send", "answer", "save_run",
              "finish_failed", "finish_consumed"}

\* At any time at most one manual request is past the claim of an approval,
\* whatever process it came to, and none is once the approval is settled.
OneExecutor ==
  \A r, s \in Requests :
    Manual(r) /\ req[r].pc \in Executing =>
      /\ Of(r).status = IF At(r, "save_running") THEN "APPROVED" ELSE "RUNNING"
      /\ Manual(s) /\ req[s].pc \in Executing /\ req[s].approval = req[r].approval => r = s

\* Every answer to a manual execution of an approval names the same run, the
\* one the approval was consumed by, and never a regression's.
RepliesAgree ==
  \A r \in Requests : Manual(r) /\ req[r].reply # NoRequest =>
    Of(r) = [status |-> "CONSUMED", run |-> req[r].reply]

\* An approval that was used, with or without success, never changes again.
SettledIsFinal ==
  [][\A a \in Approvals : approval[a].status \in {"CONSUMED", "FAILED"} =>
       approval'[a] = approval[a] /\ sent'[a] = sent[a]]_vars

Abstract == INSTANCE OneShot WITH
  phase <- [a \in Approvals |-> approval[a].status],
  count <- sent

\* Locks, claims, requests and processes implement the one-shot approval.
ImplementsOneShot == Abstract!Spec

\* An execution that began is over some day, and it leaves its approval used
\* or failed unless its process was killed or the disk refused the save.
ExecutionsEnd ==
  /\ \A r \in Requests : req[r].pc \in Executing ~> At(r, "done")
  /\ [][\A r \in Requests :
          Manual(r) /\ req[r].pc \in Executing /\ req'[r].pc = "done" =>
            \/ approval'[req[r].approval].status \in {"CONSUMED", "FAILED"}
            \/ NotSaved(r) \/ Crash(Process(r))]_vars

\* "Approved cases may be auto-regressed only while the semantic Requirement
\* fingerprint remains unchanged" (docs/architecture/migration-plan.md:21).
RegressionsMatchRequirement ==
  [][\A r \in Requests : ~Manual(r) /\ At(r, "send") /\ req'[r].pc = "answer" =>
       ~changed[req[r].approval]]_vars
=============================================================================
