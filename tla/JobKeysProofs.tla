--------------------------- MODULE JobKeysProofs ---------------------------
(***************************************************************************)
(* Proofs about JobKeys, for any values, tenants and any number of random  *)
(* ids.                                                                    *)
(***************************************************************************)
EXTENDS JobKeys, TLAPS

(* A document's id is its request's key or one of the uuids made so far, and
   no two documents share one. *)
KeysFit ==
  /\ random \in Nat
  /\ accepted \subseteq Requests
  /\ \A d \in docs :
       /\ d.request \in Requests
       /\ \/ d.jobId = Key(d.request)
          \/ \E n \in Nat : n < random /\ d.jobId = Uuid(n)
  /\ \A d, e \in docs : d.jobId = e.jobId => d = e
  /\ \A r \in accepted : KeyFields[r.jobType] = SubjectFields[r.jobType] => Kept(r)

(* A key is no uuid. *)
LEMMA KeyIsNotUuid == \A r, n : Key(r) # Uuid(n)
<1> SUFFICES ASSUME NEW r, NEW n, Key(r) = Uuid(n) PROVE FALSE
  OBVIOUS
<1>1. "uuid" \in DOMAIN Uuid(n) /\ "uuid" \notin DOMAIN Key(r)
  BY DEF Uuid, Key
<1> QED  BY <1>1

(* Equal keys: the same job type, and the same values of the fields read. *)
LEMMA EqualKeys ==
  ASSUME NEW r, NEW s, Key(r) = Key(s)
  PROVE  /\ r.jobType = s.jobType
         /\ \A f \in KeyFields[r.jobType] : Field(r, f) = Field(s, f)
<1>1. Key(r).jobType = Key(s).jobType /\ Key(r).key = Key(s).key
  OBVIOUS
<1>2. r.jobType = s.jobType
  BY <1>1 DEF Key
<1>3. [f \in KeyFields[r.jobType] |-> Field(r, f)]
        = [f \in KeyFields[r.jobType] |-> Field(s, f)]
  BY <1>1, <1>2 DEF Key
<1>4. ASSUME NEW f \in KeyFields[r.jobType] PROVE Field(r, f) = Field(s, f)
  <2>1. [g \in KeyFields[r.jobType] |-> Field(r, g)][f] = Field(r, f)
    OBVIOUS
  <2>2. [g \in KeyFields[r.jobType] |-> Field(s, g)][f] = Field(s, f)
    OBVIOUS
  <2> QED  BY <1>3, <2>1, <2>2
<1> QED  BY <1>2, <1>4

LEMMA KeysStep == KeysFit /\ [KeyNext]_keyVars => KeysFit'
<1> SUFFICES ASSUME KeysFit, [KeyNext]_keyVars PROVE KeysFit'
  OBVIOUS
<1>1. ASSUME NEW r \in Requests, Enqueue(r) PROVE KeysFit'
  <2>1. /\ random' \in Nat /\ random' >= random
        /\ accepted' = accepted \cup {r} /\ docs \subseteq docs'
    BY <1>1 DEF Enqueue, KeysFit
  <2>2. ASSUME NEW s, Kept(s) PROVE Kept(s)'
    BY <2>1, <2>2 DEF Kept
  <2>3. CASE \E d \in docs : d.jobId = JobId(r)
    <3>1. docs' = docs
      BY <1>1, <2>3 DEF Enqueue
    <3>2. PICK d \in docs : d.jobId = JobId(r)
      BY <2>3
    <3>3. JobId(r) = Key(r)
      <4>1. CASE OfItsType(r)
        BY <4>1 DEF JobId
      <4>2. CASE ~OfItsType(r)
        <5>1. d.jobId = Uuid(random)
          BY <3>2, <4>2 DEF JobId
        <5>2. PICK n \in Nat : n < random /\ d.jobId = Uuid(n)
          BY <5>1, KeyIsNotUuid DEF KeysFit
        <5>3. n = random
          BY <5>1, <5>2 DEF Uuid
        <5> QED  BY <5>2, <5>3 DEF KeysFit
      <4> QED  BY <4>1, <4>2
    <3>4. ASSUME KeyFields[r.jobType] = SubjectFields[r.jobType] PROVE Kept(r)
      <4>1. Key(d.request) = Key(r)
        BY <3>2, <3>3, KeyIsNotUuid DEF KeysFit
      <4> QED  BY <3>4, <4>1, EqualKeys DEF Kept
    <3>5. \A e \in docs' :
            \/ e.jobId = Key(e.request)
            \/ \E n \in Nat : n < random' /\ e.jobId = Uuid(n)
      BY <2>1, <3>1 DEF KeysFit
    <3> QED  BY <2>1, <2>2, <3>1, <3>4, <3>5 DEF KeysFit
  <2>4. CASE ~\E d \in docs : d.jobId = JobId(r)
    <3> DEFINE new == [jobId |-> JobId(r), request |-> r]
    <3>1. docs' = docs \cup {new}
      BY <1>1, <2>4 DEF Enqueue
    <3>2. \/ new.jobId = Key(new.request)
          \/ \E n \in Nat : n < random' /\ new.jobId = Uuid(n)
      BY <1>1, <2>1 DEF Enqueue, JobId, KeysFit
    <3>3. Kept(r)'
      <4>1. new \in docs' /\ new.request = r
        BY <3>1
      <4>2. /\ new.request.jobType = r.jobType
            /\ \A f \in SubjectFields[r.jobType] : Field(new.request, f) = Field(r, f)
        BY <4>1
      <4> HIDE DEF new
      <4>3. \E d \in docs' :
              /\ d.request.jobType = r.jobType
              /\ \A f \in SubjectFields[r.jobType] : Field(d.request, f) = Field(r, f)
        BY <4>1, <4>2
      <4> QED  BY <4>3 DEF Kept
    <3>4. \A d \in docs : d.jobId # new.jobId
      BY <2>4
    <3>5. \A e \in docs' :
            \/ e.jobId = Key(e.request)
            \/ \E n \in Nat : n < random' /\ e.jobId = Uuid(n)
      BY <2>1, <3>1, <3>2 DEF KeysFit
    <3>6. \A e \in docs' : e.request \in Requests
      BY <3>1 DEF KeysFit
    <3>7. \A d, e \in docs' : d.jobId = e.jobId => d = e
      BY <3>1, <3>4 DEF KeysFit
    <3> QED  BY <2>1, <2>2, <3>3, <3>5, <3>6, <3>7 DEF KeysFit
  <2> QED  BY <2>3, <2>4
<1>2. CASE UNCHANGED keyVars
  BY <1>2 DEF keyVars, KeysFit, Kept
<1> QED  BY <1>1, <1>2 DEF KeyNext

LEMMA KeysHold == KeySpec => []KeysFit
<1>1. KeyInit => KeysFit
  BY DEF KeyInit, KeysFit
<1> QED  BY <1>1, KeysStep, PTL DEF KeySpec

(* createJob keeps one document of a job id, whatever is submitted again. *)
THEOREM KeysOneDocument == KeySpec => []JobIdsUnique
<1>1. KeysFit => JobIdsUnique
  BY DEF KeysFit, JobIdsUnique
<1> QED  BY <1>1, KeysHold, PTL

(* No submission is answered 201 and taken for a job about something else, as
   long as the key reads the fields the job is about. *)
THEOREM KeysKeepSubjects == KeySpec => []SubjectsAreKept
<1>1. KeysFit => SubjectsAreKept
  BY DEF KeysFit, SubjectsAreKept
<1> QED  BY <1>1, KeysHold, PTL
=============================================================================
