---------------------------- MODULE RunLifecycle ----------------------------
(***************************************************************************)
(* What the research_runs and research_reports tables promise to a client: *)
(* a run moves queued -> running -> one terminal status, a report appears  *)
(* only as the run completes, and nothing terminal ever changes.  The      *)
(* conditional UPDATEs of ResearchRunRepository are the steps; who takes   *)
(* them, and how often they are tried, is ResearchJobs' concern.           *)
(***************************************************************************)
CONSTANTS
    Run,      \* research_runs.id
    Scope     \* what a report was retrieved from

NoReport == "none"

VARIABLES
    status,   \* research_runs.status, "absent" before the row exists
    report    \* the scope of the run's research_reports row, or NoReport

vars == <<status, report>>

ActiveStatus   == {"queued", "running"}
TerminalStatus == {"completed", "failed", "cancelled"}
Status         == {"absent"} \cup ActiveStatus \cup TerminalStatus

TypeOK == /\ status \in [Run -> Status]
          /\ report \in [Run -> Scope \cup {NoReport}]

Init == /\ status = [r \in Run |-> "absent"]
        /\ report = [r \in Run |-> NoReport]

Set(r, s) == status' = [status EXCEPT ![r] = s]

Create(r) == status[r] = "absent" /\ Set(r, "queued") /\ UNCHANGED report

MarkRunning(r) == status[r] = "queued" /\ Set(r, "running") /\ UNCHANGED report

\* The status and the report commit in one transaction; a run that ended with
\* a direct answer has no report.
MarkCompleted(r) ==
    /\ status[r] = "running"
    /\ Set(r, "completed")
    /\ \E s \in Scope \cup {NoReport} : report' = [report EXCEPT ![r] = s]

\* Mutant: the UPDATE of mark_failed lost its status condition.
MarkFailedFromAny(r) ==
    /\ status[r] \in ActiveStatus \cup TerminalStatus
    /\ Set(r, "failed") /\ UNCHANGED report

MarkFailed(r) == status[r] \in ActiveStatus /\ Set(r, "failed") /\ UNCHANGED report

MarkCancelled(r) ==
    status[r] \in ActiveStatus /\ Set(r, "cancelled") /\ UNCHANGED report

Next == \E r \in Run : \/ Create(r)
                       \/ MarkRunning(r)
                       \/ MarkCompleted(r)
                       \/ MarkFailed(r)
                       \/ MarkCancelled(r)

Spec == Init /\ [][Next]_vars
=============================================================================
