------------------------------ MODULE JobKeys ------------------------------
(***************************************************************************)
(* Job submission, seen from the idempotency keys: JobService.enqueue      *)
(* derives the job id from the payload, and createJob keeps the first      *)
(* document of an id.  Two submissions are one job when their keys are     *)
(* equal, so a key has to tell apart what the callers mean to be two.      *)
(*                                                                         *)
(* A payload is a function from the names of its fields to their values,   *)
(* and an id keeps the values it is made of: the values hold no colon.     *)
(***************************************************************************)
EXTENDS Naturals

CONSTANTS Values,      \* ids, dates, stages and report types
          Tenants,
          Undefined,   \* the value of a field the payload does not have
          MaxRandom    \* bound: ids made by uuidv4

VARIABLES
  docs,      \* the job documents
  accepted,  \* the requests answered with 201 Created
  random     \* ids made by uuidv4 so far

keyVars == <<docs, accepted, random>>

-----------------------------------------------------------------------------
(* The fields idempotencyKeyFn reads, by job type. *)
KeyFields ==
  [RESERVATION_EXPIRY |-> {"sagaId"},
   PAYOUT_BATCH       |-> {"weekStartDate"},
   ORDER_ABANDONMENT  |-> {"cartId", "stage"},
   LOW_STOCK_ALERT    |-> {"inventoryId"},
   SCHEDULED_REPORT   |-> {"reportType", "periodStart"}]

(* The fields the payload types declare that say what a job is about: those
   its handler addresses its call with. *)
SubjectFields ==
  [RESERVATION_EXPIRY |-> {"sagaId"},
   PAYOUT_BATCH       |-> {"weekStartDate"},
   ORDER_ABANDONMENT  |-> {"orderId", "stage"},
   LOW_STOCK_ALERT    |-> {"inventoryId"},
   SCHEDULED_REPORT   |-> {"reportType", "periodStart"}]

JobTypes == DOMAIN KeyFields

(* What the validator lets through of what a caller of these types sends:
   some callers put a type of their own into the payload, which the merge in
   enqueue prefers to jobType. *)
Requests ==
  UNION {[jobType : {t}, tenantId : Tenants, ownType : JobTypes \cup {Undefined},
          payload : [SubjectFields[t] -> Values]] : t \in JobTypes}

Field(r, f) == IF f \in DOMAIN r.payload THEN r.payload[f] ELSE Undefined

(* The guard of every idempotencyKeyFn: payload.type is the type it is for. *)
OfItsType(r) == r.ownType \in {Undefined, r.jobType}

(* A key, or the id uuidv4 makes where the guard fails. *)
Key(r)   == [jobType |-> r.jobType,
             key |-> [f \in KeyFields[r.jobType] |-> Field(r, f)]]
Uuid(n)  == [uuid |-> n]
JobId(r) == IF OfItsType(r) THEN Key(r) ELSE Uuid(random)

KeyInit == docs = {} /\ accepted = {} /\ random = 0

(* enqueue: createJob stores a document unless one has the id. *)
Enqueue(r) ==
  /\ accepted' = accepted \cup {r}
  /\ IF OfItsType(r) THEN UNCHANGED random
     ELSE random < MaxRandom /\ random' = random + 1
  /\ docs' = IF \E d \in docs : d.jobId = JobId(r) THEN docs
             ELSE docs \cup {[jobId |-> JobId(r), request |-> r]}

KeyNext == \E r \in Requests : Enqueue(r)
KeySpec == KeyInit /\ [][KeyNext]_keyVars

-----------------------------------------------------------------------------
(* An accepted request has a document of its job type about the same. *)
Kept(r) ==
  \E d \in docs :
    /\ d.request.jobType = r.jobType
    /\ \A f \in SubjectFields[r.jobType] : Field(d.request, f) = Field(r, f)

(* Every order whose abandonment was scheduled has a job that names it
   (docs/purposes/ecommerce.md:5). *)
OrdersAreKept ==
  \A r \in accepted : r.jobType = "ORDER_ABANDONMENT" => Kept(r)

(* Every job type whose key is made of what its jobs are about keeps what it
   accepts, whatever was accepted before and under whatever tenant. *)
SubjectsAreKept ==
  \A r \in accepted :
    KeyFields[r.jobType] = SubjectFields[r.jobType] => Kept(r)

(* One job id, one document: the upsert and the unique index. *)
JobIdsUnique ==
  \A d \in docs : \A e \in docs : d.jobId = e.jobId => d = e
=============================================================================
