-------------------------------- MODULE Reports --------------------------------
(***************************************************************************)
(* analytics-service: ReportService and its Celery tasks.  A request       *)
(* commits a PENDING report and then enqueues its generation; a task locks *)
(* the row, builds the file and commits it; periodic tasks enqueue again    *)
(* what stayed PENDING and delete what is too old.                         *)
(***************************************************************************)
EXTENDS Celery

CONSTANTS
  ReportIds,
  StaleAfter,    \* a PENDING report older than this is enqueued again
  Retention,     \* a report older than this is deleted
  LastRequest,   \* bound of the model: nobody requests a report later
  NoReport       \* a periodic task names no report

ASSUME ReportsAssumption ==
  /\ StaleAfter \in Nat /\ Retention \in Nat /\ LastRequest \in Nat
  /\ NoReport \notin ReportIds

VARIABLE report   \* committed row of monthly_report, or what is there instead

Absent == {"none", "purged"}
Requeue == <<"requeue_pending_reports", NoReport>>
Purge == <<"purge_expired_reports", NoReport>>
Generate(r) == <<"generate_monthly_report", r>>
ReportMessages == {Requeue, Purge} \cup {Generate(r) : r \in ReportIds}

(* completed stands for the file: the instant its generation committed. *)
ReportRecord ==
  [status : Absent \cup {"PENDING", "READY", "FAILED"}, created : Nat, completed : Nat]

ReportJob ==
  [message : ReportMessages \ {Purge}, ids : SUBSET ReportIds]

InitReports ==
  /\ InitCelery
  /\ report = [r \in ReportIds |-> [status |-> "none", created |-> 0, completed |-> 0]]

-----------------------------------------------------------------------------
(* request: the PENDING row is committed first; the process may die, or    *)
(* the broker not answer, before the message is enqueued.                  *)
RequestReport(r) ==
  /\ report[r].status = "none"
  /\ now <= LastRequest
  /\ report' = [report EXCEPT ![r].status = "PENDING", ![r].created = now]
  /\ \E enqueued \in BOOLEAN : queue' = IF enqueued THEN queue \cup {Generate(r)} ELSE queue
  /\ UNCHANGED <<job, now, faults>>

Runs(w, message) == Busy(w) /\ job[w].message = message

Locked(r) == \E w \in Workers : Runs(w, Generate(r))

GenerateAnyStatus(w, r) ==
  /\ Receives(w, Generate(r))
  /\ IF report[r].status \notin Absent /\ ~Locked(r)
     THEN Starts(w, [message |-> Generate(r), ids |-> {r}])
     ELSE UNCHANGED job
  /\ UNCHANGED report

(* generate: SELECT ... FOR UPDATE SKIP LOCKED.  A report that another task *)
(* has locked or that is gone, and one that is not PENDING, is left alone. *)
GenerateReport(w, r) ==
  /\ Receives(w, Generate(r))
  /\ IF report[r].status = "PENDING" /\ ~Locked(r)
     THEN Starts(w, [message |-> Generate(r), ids |-> {r}])
     ELSE UNCHANGED job
  /\ UNCHANGED report

(* A report that cannot be built or rendered is FAILED; a transient error  *)
(* is AbortReport, and leaves it PENDING.                                  *)
CommitReport(w, r) ==
  /\ Runs(w, Generate(r))
  /\ \E status \in {"READY", "FAILED"} :
       report' = [report EXCEPT ![r].status = status, ![r].completed = now]
  /\ Ends(w)
  /\ UNCHANGED <<queue, now, faults>>

StaleReports == {r \in ReportIds : report[r].status = "PENDING" /\ report[r].created + StaleAfter < now}

SelectNothing(w) == Receives(w, Requeue) /\ UNCHANGED <<job, report>>

(* requeue_stale reads the ids, ends its transaction, and then enqueues. *)
SelectStale(w) ==
  /\ Receives(w, Requeue)
  /\ IF StaleReports = {} THEN UNCHANGED job
     ELSE Starts(w, [message |-> Requeue, ids |-> StaleReports])
  /\ UNCHANGED report

(* The broker may refuse a message: it is left for the next run. *)
EnqueueStale(w) ==
  /\ Runs(w, Requeue)
  /\ \/ /\ queue' = queue \cup {Generate(r) : r \in job[w].ids}
        /\ UNCHANGED faults
     \/ /\ Faulty
        /\ \E some \in SUBSET job[w].ids :
             some # job[w].ids /\ queue' = queue \cup {Generate(r) : r \in some}
  /\ Ends(w)
  /\ UNCHANGED <<now, report>>

(* The DELETE of purge_expired waits for the rows a generation has locked. *)
PurgeExpired(w) ==
  LET old == {r \in ReportIds : report[r].status \notin Absent /\ report[r].created + Retention < now} IN
  /\ Receives(w, Purge)
  /\ \A r \in old : ~Locked(r)
  /\ report' = [r \in ReportIds |-> IF r \in old THEN [report[r] EXCEPT !.status = "purged"] ELSE report[r]]
  /\ UNCHANGED job

(* get and download: the file, or why there is none. *)
Download(r) ==
  CASE report[r].status \in Absent -> <<"report_not_found">>
    [] report[r].status \in {"PENDING", "FAILED"} -> <<"report_not_ready">>
    [] OTHER -> <<"file", report[r].completed>>

AbortReport(w) ==
  /\ TaskFails(w) \/ WorkerDies(w)
  /\ UNCHANGED report

BeatReport(message) == BeatSends(message) /\ UNCHANGED report

TakeReport(w, message) ==
  \/ \E r \in ReportIds : message = Generate(r) /\ GenerateReport(w, r)
  \/ message = Requeue /\ SelectStale(w)
  \/ message = Purge /\ PurgeExpired(w)

ContinueReport(w) == EnqueueStale(w) \/ \E r \in ReportIds : CommitReport(w, r)

ReportTick == TimePasses /\ UNCHANGED report

NextReports ==
  \/ \E r \in ReportIds : RequestReport(r)
  \/ \E w \in Workers :
       \/ \E message \in ReportMessages : TakeReport(w, message)
       \/ ContinueReport(w)
       \/ AbortReport(w)
  \/ BeatReport(Requeue)
  \/ BeatReport(Purge)
  \/ ReportTick

reportVars == <<report, queue, job, now, faults>>

SpecReports == InitReports /\ [][NextReports]_reportVars

(* As for the notices, and the clock runs: a report only gets old enough   *)
(* to be enqueued again if time passes.                                    *)
ReportsFairness ==
  /\ WF_reportVars(BeatReport(Requeue))
  /\ \A message \in ReportMessages : SF_reportVars(\E w \in Workers : TakeReport(w, message))
  /\ \A w \in Workers : WF_reportVars(ContinueReport(w))
  /\ WF_reportVars(ReportTick)

-----------------------------------------------------------------------------
(* The types of the variables; a task only builds a report that is PENDING. *)
ReportsTypeOK ==
  /\ report \in [ReportIds -> ReportRecord]
  /\ queue \subseteq ReportMessages
  /\ job \in [Workers -> ReportJob \cup {Idle}]
  /\ \A r \in ReportIds : Locked(r) => report[r].status = "PENDING"

(* A file that was once delivered is the file until its retention is over: *)
(* no duplicate delivery, retry, requeue or purge replaces it, brings it   *)
(* back or deletes it early, and two tasks never build the same report.    *)
ReportsAreFinal ==
  [][/\ \A r \in ReportIds :
          /\ report[r].status \in {"READY", "FAILED", "purged"} =>
               report'[r].status = "purged" \/ report'[r] = report[r]
          /\ (Download(r) = <<"file", report[r].completed>> /\ report'[r].status # "purged") =>
               Download(r)' = Download(r)
          /\ (report'[r].status = "purged" /\ report[r].status # "purged") =>
               report[r].created + Retention < now
     /\ \A v, w \in Workers : \A r \in ReportIds :
          Runs(v, Generate(r)) /\ Runs(w, Generate(r)) => v = w]_reportVars

(* services.py:377: a report does not stay PENDING, although its process   *)
(* died before it enqueued the task, the broker or a worker failed, or the *)
(* retries ran out.                                                        *)
PendingReportsEnd ==
  \A r \in ReportIds : report[r].status = "PENDING" ~> report[r].status # "PENDING"
=============================================================================
