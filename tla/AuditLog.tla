------------------------------ MODULE AuditLog ------------------------------
(***************************************************************************)
(* The system log: src/src/common/interceptors/system-log.interceptor.ts   *)
(* queues a job per answered request, src/src/system-log writes its row;   *)
(* beside it the interceptor asks for the location of the client address,  *)
(* which src/src/queue/processors/ip-geo.processor.ts keeps in Redis and   *)
(* writes to every row of that address.  Bull keeps both queues in Redis,  *)
(* and gives a job whose worker died to another, once.                     *)
(*                                                                         *)
(* Requests are those of signed-in users from one address: addresses share *)
(* nothing, and the others leave no trace.  Workers may take jobs in any   *)
(* order: the log queue and the geo queue each have their own, and there   *)
(* may be several instances of the application.  A job in a worker that has *)
(* written nothing yet is as good as queued.                               *)
(***************************************************************************)
EXTENDS Naturals

CONSTANTS
    Requests,
    Attempts            \* IP_GEO_QUEUE_CONFIG.attempts

ASSUME AuditConstants == Attempts \in Nat \ {0}

VARIABLES
    cached,             \* Redis has the location of the address
    request,            \* the interceptor, and the location it read
    lookup,             \* handleIpGeoLocation of each request, which is not awaited
    logJob,             \* the job that writes the row of each request
    geoJob,             \* the job each request has queued for the location
    bare,               \* whether a row of each request lacks its location
    unread              \* history: requests whose row may well go without its location

auditVars == <<cached, request, lookup, logJob, geoJob, bare, unread>>

NoJob == [step |-> "none", made |-> 0, stalled |-> FALSE]
NewJob == [NoJob EXCEPT !.step = "queued"]

(* A job that has ended keeps nothing of its attempts. *)
JobAt(job, step) ==
    IF step \in {"done", "failed"} THEN [NoJob EXCEPT !.step = step] ELSE [job EXCEPT !.step = step]

AuditInit ==
    /\ cached = FALSE
    /\ request = [r \in Requests |-> [step |-> "new", located |-> FALSE]]
    /\ lookup = [r \in Requests |-> "off"]
    /\ logJob = [r \in Requests |-> NoJob]
    /\ geoJob = [r \in Requests |-> NoJob]
    /\ bare = [r \in Requests |-> FALSE]
    /\ unread = {}

----------------------------------------------------------------------------
(* The interceptor *)

RequestTo(r, from, to) ==
    /\ request[r].step = from
    /\ request' = [request EXCEPT ![r].step = to]
    /\ UNCHANGED <<cached, geoJob, bare>>

(* intercept up to the call of the handler. *)
Arrive(r) ==
    /\ RequestTo(r, "new", "running")
    /\ lookup' = [lookup EXCEPT ![r] = "get"]
    /\ UNCHANGED <<logJob, unread>>

LookupTo(r, from, to) ==
    /\ lookup[r] = from
    /\ lookup' = [lookup EXCEPT ![r] = to]
    /\ UNCHANGED <<cached, request, logJob, bare, unread>>

LookUp(r) ==
    /\ LookupTo(r, "get", IF cached THEN "done" ELSE "add")
    /\ UNCHANGED geoJob

QueueLookup(r) ==
    /\ LookupTo(r, "add", "done")
    /\ geoJob' = [geoJob EXCEPT ![r] = NewJob]

(* Redis fails, which is logged only. *)
FailLookup(r) ==
    /\ LookupTo(r, "get", "failed") \/ LookupTo(r, "add", "failed")
    /\ UNCHANGED geoJob

(* A log query or a multipart request is not logged. *)
Answer(r) ==
    /\ \E step \in {"read", "done"} : RequestTo(r, "running", step)
    /\ UNCHANGED <<lookup, logJob, unread>>

(* An error is queued at once, without the location. *)
AnswerError(r) ==
    /\ RequestTo(r, "running", "add")
    /\ unread' = unread \cup {r}
    /\ UNCHANGED <<lookup, logJob>>

ReadLocation(r) ==
    /\ request[r].step = "read"
    /\ request' = [request EXCEPT ![r].step = "add", ![r].located = cached]
    /\ UNCHANGED <<cached, lookup, logJob, geoJob, bare, unread>>

QueueLog(r) ==
    /\ RequestTo(r, "add", "done")
    /\ logJob' = [logJob EXCEPT ![r] = NewJob]
    /\ UNCHANGED <<lookup, unread>>

(* Redis fails: the row is lost. *)
LoseLog(r) ==
    /\ \E step \in {"read", "add"} : RequestTo(r, step, "done")
    /\ UNCHANGED <<lookup, logJob, unread>>

----------------------------------------------------------------------------
(* The workers *)

LogJobTo(r, from, to) ==
    /\ logJob[r].step = from
    /\ logJob' = [logJob EXCEPT ![r] = JobAt(@, to)]
    /\ UNCHANGED <<cached, request, lookup, geoJob, unread>>

Insert(r) == bare' = [bare EXCEPT ![r] = @ \/ ~request[r].located]

CreateRow(r) == LogJobTo(r, "queued", "created") /\ Insert(r)

FinishLog(r) == LogJobTo(r, "created", "done") /\ UNCHANGED bare

(* handleCreate throws, though the row may be there: the job has failed,   *)
(* the default being one attempt.                                          *)
FailLog(r) == LogJobTo(r, "queued", "failed") /\ (Insert(r) \/ UNCHANGED bare)

GeoJobTo(r, from, to) ==
    /\ geoJob[r].step = from
    /\ geoJob' = [geoJob EXCEPT ![r] = JobAt(@, to)]
    /\ UNCHANGED <<request, lookup, logJob>>

StoreLocation(r) ==
    /\ GeoJobTo(r, "queued", "update")
    /\ cached' = TRUE
    /\ UNCHANGED <<bare, unread>>

(* Requests that have read no location and may yet insert a row. *)
OnTheirWay == {r \in Requests :
    ~request[r].located /\ (request[r].step = "add" \/ logJob[r].step \in {"queued", "created"})}

(* Mutant: only the row of the request that queued the job is updated. *)
UpdateOwnRow(r) ==
    /\ \E step \in {"update", "done"} : GeoJobTo(r, "update", step)
    /\ bare' = [bare EXCEPT ![r] = FALSE]
    /\ unread' = unread \cup OnTheirWay
    /\ UNCHANGED cached

(* The answer may be lost. *)
UpdateRows(r) ==
    /\ \E step \in {"update", "done"} : GeoJobTo(r, "update", step)
    /\ bare' = [q \in Requests |-> FALSE]
    /\ unread' = unread \cup OnTheirWay
    /\ UNCHANGED cached

(* Mutant: a job is given up one attempt too late. *)
FailedLate(job) == JobAt([job EXCEPT !.made = @ + 1], IF job.made < Attempts THEN "queued" ELSE "failed")

(* Bull tries a job again as long as attempts are left. *)
Failed(job) == JobAt([job EXCEPT !.made = @ + 1], IF job.made + 1 < Attempts THEN "queued" ELSE "failed")

(* Mutant: the error is logged and not thrown again. *)
SwallowGeoError(r) ==
    /\ \E step \in {"queued", "update"} : GeoJobTo(r, step, "done")
    /\ UNCHANGED <<cached, bare, unread>>

(* handleFetchGeo throws: the job waits for its next attempt, if any. *)
FailGeo(r) ==
    /\ geoJob[r].step \in {"queued", "update"}
    /\ geoJob' = [geoJob EXCEPT ![r] = Failed(@)]
    /\ UNCHANGED <<cached, request, lookup, logJob, bare, unread>>

----------------------------------------------------------------------------

(* DELETE /api/system-log/clear: the rows before a date, any of them here. *)
ClearLogs ==
    /\ \E old \in SUBSET Requests : bare' = [r \in Requests |-> bare[r] /\ r \notin old]
    /\ UNCHANGED <<cached, request, lookup, logJob, geoJob, unread>>

(* IP_GEO_REDIS_TTL *)
ExpireLocation ==
    /\ cached /\ cached' = FALSE
    /\ unread' = unread \cup {r \in Requests : request[r].step \in {"running", "read"}}
    /\ UNCHANGED <<request, lookup, logJob, geoJob, bare>>

Reclaimed(job, running) ==
    IF job.step \notin running THEN job
    ELSE IF job.stalled THEN JobAt(job, "failed")
    ELSE [job EXCEPT !.step = "queued", !.stalled = TRUE]

(* A process dies, here with all that runs. *)
AuditCrash ==
    /\ request' = [r \in Requests |-> IF request[r].step = "new" THEN request[r] ELSE [request[r] EXCEPT !.step = "done"]]
    /\ lookup' = [r \in Requests |-> IF lookup[r] \in {"get", "add"} THEN "failed" ELSE lookup[r]]
    /\ logJob' = [r \in Requests |-> Reclaimed(logJob[r], {"created"})]
    /\ geoJob' = [r \in Requests |-> Reclaimed(geoJob[r], {"update"})]
    /\ UNCHANGED <<cached, bare, unread>>

Intercept(r) ==
    \/ Arrive(r) \/ LookUp(r) \/ QueueLookup(r) \/ FailLookup(r)
    \/ Answer(r) \/ AnswerError(r) \/ ReadLocation(r) \/ QueueLog(r) \/ LoseLog(r)

Work(r) ==
    \/ CreateRow(r) \/ FinishLog(r) \/ FailLog(r)
    \/ StoreLocation(r) \/ UpdateRows(r) \/ FailGeo(r)

AuditNext ==
    \/ \E r \in Requests : Intercept(r) \/ Work(r)
    \/ ClearLogs \/ ExpireLocation \/ AuditCrash

AuditSpec == AuditInit /\ [][AuditNext]_auditVars

----------------------------------------------------------------------------
(* Properties *)

JobType(steps) == [step : {"none", "queued", "failed", "done"} \cup steps, made : 0..(Attempts - 1), stalled : BOOLEAN]

(* The type invariant; a lookup begins with its request, and a job exists  *)
(* only for a request that has ended or whose lookup has.                  *)
AuditTypeOK ==
    /\ cached \in BOOLEAN
    /\ request \in [Requests -> [step : {"new", "running", "read", "add", "done"}, located : BOOLEAN]]
    /\ lookup \in [Requests -> {"off", "get", "add", "done", "failed"}]
    /\ logJob \in [Requests -> JobType({"created"})]
    /\ geoJob \in [Requests -> JobType({"update"})]
    /\ \A r \in Requests :
        /\ request[r].step = "new" => lookup[r] = "off"
        /\ logJob[r].step # "none" => request[r].step = "done"
        /\ geoJob[r].step # "none" => lookup[r] = "done"
    /\ bare \in [Requests -> BOOLEAN]
    /\ unread \subseteq Requests

GeoPending == \E r \in Requests : lookup[r] \in {"get", "add"} \/ geoJob[r].step \in {"queued", "update"}
GeoFailed == \E r \in Requests : lookup[r] = "failed" \/ geoJob[r].step = "failed"

(* No row stays without the location of its address, though jobs and       *)
(* requests run side by side and a look at Redis decides whether another   *)
(* is needed: it was read before the row was queued, or an UPDATE is still *)
(* to come.  Unless a lookup or geo job has failed, or the row was on its  *)
(* way during the UPDATE, the entry expired during the request, or the     *)
(* request ended with an error (intercept, handleFetchGeo).                *)
LocationsFilled == \A r \in Requests : bare[r] => GeoPending \/ GeoFailed \/ r \in unread
=============================================================================
