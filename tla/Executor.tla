-------------------------------- MODULE Executor --------------------------------
(***************************************************************************)
(* delivery/executor.py over the WebhookDelivery table: execute_delivery   *)
(* as the sequence of database and network steps it really is.             *)
(*                                                                         *)
(* A process (a worker, a request thread, a Celery task) that runs         *)
(* execute_delivery goes through                                           *)
(*                                                                         *)
(*   "ready" --Fetch--> "fetched" --MarkDelivering--> "marked" --Post-->   *)
(*   "answered" --PersistSuccess / PersistFailure--> "ready"               *)
(*                                                                         *)
(* and holds in memory the row it read at Fetch; between two of its steps  *)
(* any other process may change or delete that row.  An exception that     *)
(* execute_delivery does not catch leaves the process in "raised", for its *)
(* caller to deal with.                                                    *)
(*                                                                         *)
(* The module has no Next of its own: the modules of the callers (Outbox)  *)
(* say when a process may start and what it does with an exception.        *)
(***************************************************************************)
EXTENDS RetryPolicy

CONSTANTS
    Deliveries,  \* primary keys of WebhookDelivery that the model may use
    Processes,   \* whatever runs execute_delivery
    Codes,       \* HTTP status codes a consumer may answer with
    NoDelivery   \* not a primary key: a process that executes nothing

ASSUME CodesAssumption == Codes \subseteq StatusCode
ASSUME NoDeliveryAssumption == NoDelivery \notin Deliveries

VARIABLES
    row,    \* the WebhookDelivery table
    pc,     \* where each process is in execute_delivery
    cur,    \* the delivery each process executes
    mem,    \* delivery.attempts of the object each process holds in memory
    ans,    \* status_code of each process's DeliveryResult
    posts,  \* history: POSTs made for a delivery since its attempts were last zero
    acked   \* history: the consumer has answered a POST of this delivery with 2xx

execVars == <<pc, cur, mem, ans>>
historyVars == <<posts, acked>>

Status == {"pending", "delivering", "delivered", "failed", "dead_letter"}

\* A row as the queue sees it.  eta is scheduled_at minus the current time, so
\* that a row is due when eta <= 0.  "new" is a key not allocated yet and
\* "deleted" a row that is gone: keys are not used twice.
Row == [status : Status \cup {"new", "deleted"}, attempts : Nat, eta : Int]

Exists(d) == row[d].status \in Status

NewRow(status) == [status |-> status, attempts |-> 0, eta |-> 0]

ExecutorInit ==
    /\ row = [d \in Deliveries |-> NewRow("new")]
    /\ pc = [p \in Processes |-> "ready"]
    /\ cur = [p \in Processes |-> NoDelivery]
    /\ mem = [p \in Processes |-> 0]
    /\ ans = [p \in Processes |-> NoCode]
    /\ posts = [d \in Deliveries |-> 0]
    /\ acked = [d \in Deliveries |-> FALSE]

ExecutorTypeOK ==
    /\ row \in [Deliveries -> Row]
    /\ pc \in [Processes -> {"ready", "fetched", "marked", "answered", "raised"}]
    /\ cur \in [Processes -> Deliveries \cup {NoDelivery}]
    /\ mem \in [Processes -> Nat]
    /\ ans \in [Processes -> Codes \cup {NoCode}]
    /\ posts \in [Deliveries -> Nat]
    /\ acked \in [Deliveries -> BOOLEAN]
    /\ \A p \in Processes : pc[p] \in {"fetched", "marked", "answered"} => cur[p] # NoDelivery

--------------------------------------------------------------------------------

\* The object and the result go out of scope when execute_delivery ends.
Forget(p) ==
    /\ cur' = [cur EXCEPT ![p] = NoDelivery]
    /\ mem' = [mem EXCEPT ![p] = 0]
    /\ ans' = [ans EXCEPT ![p] = NoCode]

Return(p) == Forget(p) /\ pc' = [pc EXCEPT ![p] = "ready"]

Raise(p) == Forget(p) /\ pc' = [pc EXCEPT ![p] = "raised"]

\* WebhookDelivery.objects.select_related(...).get(pk=d)
Fetch(p, d) ==
    /\ pc[p] = "ready" /\ Exists(d)
    /\ pc' = [pc EXCEPT ![p] = "fetched"]
    /\ cur' = [cur EXCEPT ![p] = d]
    /\ mem' = [mem EXCEPT ![p] = row[d].attempts]
    /\ UNCHANGED <<row, ans, historyVars>>

\* get() of a row that is gone: DoesNotExist.
FetchMissing(p, d) ==
    /\ pc[p] = "ready" /\ ~Exists(d)
    /\ Raise(p)
    /\ UNCHANGED <<row, historyVars>>

\* Mutant: save(update_fields=["status"]) leaves the counter out, so that it is only
\* incremented in memory.
MarkDeliveringUnsaved(p) ==
    /\ pc[p] = "fetched" /\ Exists(cur[p])
    /\ pc' = [pc EXCEPT ![p] = "marked"]
    /\ mem' = [mem EXCEPT ![p] = @ + 1]
    /\ row' = [row EXCEPT ![cur[p]].status = "delivering"]
    /\ UNCHANGED <<cur, ans, historyVars>>

\* delivery.attempts += 1 happens in memory; save() writes the two columns.
MarkDelivering(p) ==
    /\ pc[p] = "fetched" /\ Exists(cur[p])
    /\ pc' = [pc EXCEPT ![p] = "marked"]
    /\ mem' = [mem EXCEPT ![p] = @ + 1]
    /\ row' = [row EXCEPT ![cur[p]] =
           [status |-> "delivering", attempts |-> mem[p] + 1, eta |-> @.eta]]
    /\ UNCHANGED <<cur, ans, historyVars>>

\* save(update_fields=...) of a row that is gone updates nothing: DatabaseError.
SaveMissing(p) ==
    /\ pc[p] \in {"fetched", "answered"} /\ ~Exists(cur[p])
    /\ Raise(p)
    /\ UNCHANGED <<row, historyVars>>

\* requests.post: an HTTP response, or NoCode for Timeout and ConnectionError, in
\* which case the consumer may or may not have processed the request.
Post(p) ==
    /\ pc[p] = "marked"
    /\ \E code \in Codes \cup {NoCode} :
          /\ ans' = [ans EXCEPT ![p] = code]
          /\ acked' = [acked EXCEPT ![cur[p]] = @ \/ Success(code)]
    /\ posts' = [posts EXCEPT ![cur[p]] = @ + 1]
    /\ pc' = [pc EXCEPT ![p] = "answered"]
    /\ UNCHANGED <<row, cur, mem>>

\* Any other exception (TooManyRedirects, InvalidURL, ChunkedEncodingError...),
\* raised before or after the request went out, is not caught.
PostRaises(p) ==
    /\ pc[p] = "marked"
    /\ \E sent \in 0..1 : posts' = [posts EXCEPT ![cur[p]] = @ + sent]
    /\ Raise(p)
    /\ UNCHANGED <<row, acked>>

\* Mutant: any HTTP response counts as a delivery.
PersistSuccessAnyResponse(p) ==
    /\ pc[p] = "answered" /\ ans[p] # NoCode /\ Exists(cur[p])
    /\ row' = [row EXCEPT ![cur[p]].status = "delivered"]
    /\ Return(p)
    /\ UNCHANGED historyVars

\* _persist_success
PersistSuccess(p) ==
    /\ pc[p] = "answered" /\ Success(ans[p]) /\ Exists(cur[p])
    /\ row' = [row EXCEPT ![cur[p]].status = "delivered"]
    /\ Return(p)
    /\ UNCHANGED historyVars

\* Mutant: a rescheduled row gets its new time and keeps the status "delivering".
PersistFailureKeepsStatus(p, allowRetry) ==
    /\ pc[p] = "answered" /\ ~Success(ans[p]) /\ Exists(cur[p])
    /\ LET verdict == FailureStatus(mem[p], ans[p], ans[p] = NoCode, allowRetry)
       IN  IF verdict = "pending"
           THEN \E delay \in RetryDelays(mem[p]) : row' = [row EXCEPT ![cur[p]].eta = delay]
           ELSE row' = [row EXCEPT ![cur[p]].status = verdict]
    /\ Return(p)
    /\ UNCHANGED historyVars

\* _persist_failure: decides by the attempts in memory, writes status and, when
\* the row goes back to the queue, scheduled_at.
PersistFailure(p, allowRetry) ==
    /\ pc[p] = "answered" /\ ~Success(ans[p]) /\ Exists(cur[p])
    /\ LET verdict == FailureStatus(mem[p], ans[p], ans[p] = NoCode, allowRetry)
       IN  IF verdict = "pending"
           THEN \E delay \in RetryDelays(mem[p]) :
                    row' = [row EXCEPT ![cur[p]] =
                        [status |-> verdict, attempts |-> @.attempts, eta |-> delay]]
           ELSE row' = [row EXCEPT ![cur[p]].status = verdict]
    /\ Return(p)
    /\ UNCHANGED historyVars
================================================================================
