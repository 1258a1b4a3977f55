------------------------- MODULE RabbitChannelProofs -------------------------
(***************************************************************************)
(* Proofs about RabbitChannel, for any number of callers, connections,     *)
(* asserts, attempts and losses.                                           *)
(***************************************************************************)
EXTENDS RabbitChannel, TLAPS

-----------------------------------------------------------------------------
Waits == [at : {"idle", "connect", "create", "assert", "backoff"},
          on : Conns \cup {None}, left : 0 .. Asserts,
          attempt : 0 .. MaxRetries - 1, hits : 0 .. MaxRetries]

LEMMA RabbitBounds ==
  /\ MaxRetries \in Nat /\ MaxRetries >= 1 /\ Asserts \in Nat /\ Asserts >= 1
  /\ MaxLosses \in Nat /\ None \notin Conns
  /\ 0 \in 0 .. MaxRetries - 1 /\ 0 \in 0 .. MaxRetries
  /\ 0 \in 0 .. Asserts /\ Asserts \in 0 .. Asserts
BY RabbitConstants, RabbitNames

(* A hit leaves a caller where it is, and is counted until no attempt is left
   to fail. *)
LEMMA HitFacts ==
  ASSUME NEW r \in Waits
  PROVE  /\ Hit(r) \in Waits
         /\ Hit(r).at = r.at /\ Hit(r).on = r.on /\ Hit(r).left = r.left
         /\ Hit(r).attempt = r.attempt /\ Hit(r).hits >= r.hits
         /\ r.at # "idle" /\ r.attempt <= r.hits => r.attempt + 1 <= Hit(r).hits
<1>1. CASE r.at = "idle" \/ r.hits = MaxRetries
  BY <1>1, RabbitBounds DEF Hit, Waits
<1>2. CASE ~(r.at = "idle" \/ r.hits = MaxRetries)
  <2>1. Hit(r) = [r EXCEPT !.hits = @ + 1]
    BY <1>2 DEF Hit
  <2>2. r.hits + 1 \in 0 .. MaxRetries
    BY <1>2, RabbitBounds DEF Waits
  <2> QED  BY <2>1, <2>2, RabbitBounds DEF Waits
<1> QED  BY <1>1, <1>2

LEMMA IdleFacts == Idle \in Waits /\ Connecting(0, 0) \in Waits
BY RabbitBounds DEF Connecting, Idle, Waits

(* An attempt that failed leaves its caller idle or backing off, one attempt
   further. *)
LEMMA FailedFacts ==
  ASSUME NEW r \in Waits
  PROVE  /\ Failed(r) \in Waits
         /\ Failed(r).at \in {"idle", "backoff"} /\ Failed(r).on = None
         /\ \/ Failed(r).attempt = 0 /\ Failed(r).hits = 0
            \/ Failed(r).attempt = r.attempt + 1 /\ Failed(r).hits = r.hits
         /\ r.attempt + 1 <= r.hits => Failed(r).attempt <= Failed(r).hits
<1>1. CASE r.attempt + 1 = MaxRetries
  BY <1>1, RabbitBounds DEF Failed, Idle, Waits
<1>2. CASE r.attempt + 1 # MaxRetries
  <2>1. r.attempt + 1 \in 0 .. MaxRetries - 1
    BY <1>2, RabbitBounds DEF Waits
  <2>2. Failed(r) = [at |-> "backoff", on |-> None, left |-> 0,
                     attempt |-> r.attempt + 1, hits |-> r.hits]
    BY <1>2 DEF Failed, Connecting, Idle
  <2> QED  BY <2>1, <2>2, RabbitBounds DEF Waits
<1> QED  BY <1>1, <1>2

(* What Rejected makes of a caller. *)
LEMMA RejectedFacts ==
  ASSUME RabbitTypeOK, NEW k \in Conns, caller' = Rejected(k), NEW c \in Callers
  PROVE  /\ caller'[c] \in Waits
         /\ On(c, k) => /\ caller'[c] = Failed(Hit(caller[c]))
                        /\ caller'[c].at \in {"idle", "backoff"}
                        /\ caller'[c].on = None
         /\ ~On(c, k) => /\ caller'[c] = Hit(caller[c])
                         /\ caller'[c].at = caller[c].at /\ caller'[c].on = caller[c].on
<1>1. caller[c] \in Waits
  BY DEF RabbitTypeOK, Waits
<1>2. Hit(caller[c]) \in Waits
  BY <1>1, HitFacts
<1> QED  BY <1>1, <1>2, HitFacts, FailedFacts DEF Rejected

LEMMA FreshIsUnused == Unused # {} => Fresh \in Conns /\ ~InUse(Fresh)
BY DEF Unused, Fresh

(* The caller a step is about, and the others. *)
LEMMA CallerStepFrame ==
  ASSUME RabbitTypeOK, NEW c \in Callers, Begin(c) \/ CallerStep(c)
  PROVE  /\ \A d \in Callers \ {c} : caller'[d] = caller[d]
         /\ caller' \in [Callers -> Waits]
         /\ UNCHANGED <<closing, disconnected, losses>>
<1>0. caller \in [Callers -> Waits] /\ caller[c] \in Waits
  BY DEF RabbitTypeOK, Waits
<1>1. CASE Begin(c)
  BY <1>0, <1>1, IdleFacts DEF Begin
<1>2. CASE Connected(c)
  <2>1. [caller[c] EXCEPT !.at = "create", !.on = Fresh] \in Waits
    BY <1>0, <1>2, FreshIsUnused DEF Connected, Waits
  <2> QED  BY <1>0, <1>2, <2>1 DEF Connected
<1>3. CASE ConnectFails(c)
  <2>1. Failed(Hit(caller[c])) \in Waits
    BY <1>0, HitFacts, FailedFacts
  <2> QED  BY <1>0, <1>3, <2>1 DEF ConnectFails
<1>4. CASE Created(c)
  <2>1. [caller[c] EXCEPT !.at = "assert", !.left = Asserts] \in Waits
    BY <1>0, RabbitBounds DEF Waits
  <2> QED  BY <1>0, <1>4, <2>1 DEF Created
<1>5. CASE NextAssert(c)
  <2>0. caller[c].left - 1 \in 0 .. Asserts /\ channel \in Conns \cup {None}
    BY <1>0, <1>5, RabbitBounds DEF NextAssert, RabbitTypeOK, Waits
  <2>1. [caller[c] EXCEPT !.on = channel, !.left = @ - 1] \in Waits
    BY <1>0, <2>0 DEF Waits
  <2>2. Failed(caller[c]) \in Waits
    BY <1>0, FailedFacts
  <2> QED  BY <1>0, <1>5, <2>1, <2>2 DEF NextAssert
<1>6. CASE Publish(c)
  BY <1>0, <1>6, IdleFacts DEF Publish
<1>7. CASE BackedOff(c)
  <2>1. [caller[c] EXCEPT !.at = "connect"] \in Waits
    BY <1>0 DEF Waits
  <2> QED  BY <1>0, <1>7, <2>1 DEF BackedOff
<1> QED  BY <1>1, <1>2, <1>3, <1>4, <1>5, <1>6, <1>7 DEF CallerStep

LEMMA RabbitTypeStep == RabbitTypeOK /\ [RabbitNext]_rabbitVars => RabbitTypeOK'
<1> SUFFICES ASSUME RabbitTypeOK, [RabbitNext]_rabbitVars PROVE RabbitTypeOK'
  OBVIOUS
<1>0. caller \in [Callers -> Waits]
  BY DEF RabbitTypeOK, Waits
<1>1. ASSUME NEW c \in Callers, Begin(c) \/ CallerStep(c) PROVE RabbitTypeOK'
  <2>1. /\ caller' \in [Callers -> Waits]
        /\ UNCHANGED <<closing, disconnected, losses>>
    BY <1>1, CallerStepFrame
  <2>2. channel' \in Conns \cup {None}
    BY <1>1 DEF Begin, CallerStep, Connected, ConnectFails, Created, NextAssert, Publish,
       BackedOff, RabbitTypeOK
  <2>3. open' \subseteq Conns
    BY <1>1, FreshIsUnused DEF Begin, CallerStep, Connected, ConnectFails, Created,
       NextAssert, Publish, BackedOff, RabbitTypeOK
  <2>4. raced' \in BOOLEAN /\ nullPublish' \in BOOLEAN
    BY <1>1 DEF Begin, CallerStep, Connected, ConnectFails, Created, NextAssert, Publish,
       BackedOff, RabbitTypeOK
  <2> QED  BY <2>1, <2>2, <2>3, <2>4 DEF RabbitTypeOK, Waits
<1>2. ASSUME NEW k \in Conns, Lose(k) PROVE RabbitTypeOK'
  <2>1. caller' \in [Callers -> Waits]
    <3>1. caller' = Rejected(k)
      BY <1>2 DEF Lose
    <3>2. \A c \in Callers : caller'[c] \in Waits
      BY <3>1, RejectedFacts
    <3> QED  BY <3>1, <3>2 DEF Rejected
  <2> QED  BY <1>2, <2>1, RabbitBounds DEF Lose, RabbitTypeOK, Waits
<1>3. CASE Disconnect
  <2>1. \A c \in Callers : Hit(caller[c]) \in Waits
    BY <1>0, HitFacts
  <2>2. caller' \in [Callers -> Waits]
    BY <1>3, <2>1 DEF Disconnect
  <2> QED  BY <1>3, <2>2 DEF Disconnect, RabbitTypeOK, Waits
<1>4. CASE Disconnected
  <2>1. caller' = Rejected(closing) /\ closing \in Conns
    BY <1>4 DEF Disconnected, RabbitTypeOK
  <2>2. \A c \in Callers : caller'[c] \in Waits
    BY <2>1, RejectedFacts
  <2>3. caller' \in [Callers -> Waits]
    BY <2>1, <2>2 DEF Rejected
  <2> QED  BY <1>4, <2>3 DEF Disconnected, RabbitTypeOK, Waits
<1>5. CASE UNCHANGED rabbitVars
  BY <1>5 DEF rabbitVars, RabbitTypeOK
<1> QED  BY <1>1, <1>2, <1>3, <1>4, <1>5 DEF RabbitNext

(* The variables keep their types. *)
THEOREM RabbitTypesCorrect == RabbitSpec => []RabbitTypeOK
<1>1. RabbitInit => RabbitTypeOK
  <2> SUFFICES ASSUME RabbitInit PROVE RabbitTypeOK
    OBVIOUS
  <2>1. channel \in Conns
    BY RabbitNames DEF RabbitInit
  <2>2. caller \in [Callers -> Waits]
    BY IdleFacts DEF RabbitInit
  <2>3. 0 \in 0 .. MaxLosses
    BY RabbitBounds
  <2> QED  BY <2>1, <2>2, <2>3 DEF RabbitInit, RabbitTypeOK, Waits
<1> QED  BY <1>1, RabbitTypeStep, PTL DEF RabbitSpec

-----------------------------------------------------------------------------
(* What a caller awaits names an open connection; the one it creates a channel
   on is its own, and nobody else's channel yet. *)
ConnectionsFit ==
  /\ channel # None => channel \in open
  /\ \A c \in Callers :
       /\ At(c, "create") \/ At(c, "assert") => caller[c].on \in open
       /\ ~At(c, "create") /\ ~At(c, "assert") => caller[c].on = None
       /\ At(c, "create") => caller[c].on \notin {channel, closing}
  /\ \A c, d \in Callers :
       At(c, "create") /\ c # d => caller[d].on # caller[c].on

LEMMA ConnectionsStep ==
  RabbitTypeOK /\ ConnectionsFit /\ [RabbitNext]_rabbitVars => ConnectionsFit'
<1> SUFFICES ASSUME RabbitTypeOK, ConnectionsFit, [RabbitNext]_rabbitVars
             PROVE  ConnectionsFit'
  OBVIOUS
<1>0. caller \in [Callers -> Waits] /\ open \subseteq Conns /\ None \notin Conns
  BY RabbitNames DEF RabbitTypeOK, Waits
<1>1. ASSUME NEW c \in Callers, Begin(c) \/ CallerStep(c) PROVE ConnectionsFit'
  <2>0. /\ \A d \in Callers \ {c} : caller'[d] = caller[d]
        /\ UNCHANGED closing
    BY <1>1, CallerStepFrame
  <2>1. ASSUME caller'[c].at \notin {"create", "assert"}, caller'[c].on = None,
               UNCHANGED <<channel, open>>
        PROVE  ConnectionsFit'
    BY <1>0, <2>0, <2>1 DEF ConnectionsFit, At
  <2>2. CASE Begin(c)
    BY <1>0, <2>1, <2>2 DEF Begin, Connecting
  <2>3. CASE ConnectFails(c)
    <3>1. caller'[c] = Failed(Hit(caller[c]))
      BY <1>0, <2>3 DEF ConnectFails
    <3> QED  BY <1>0, <2>1, <2>3, <3>1, HitFacts, FailedFacts DEF ConnectFails
  <2>4. CASE Connected(c)
    <3>1. Fresh \in Conns /\ ~InUse(Fresh)
      BY <2>4, FreshIsUnused DEF Connected
    <3>2. caller'[c].at = "create" /\ caller'[c].on = Fresh
      BY <1>0, <2>4 DEF Connected, Waits
    <3> QED  BY <1>0, <2>0, <2>4, <3>1, <3>2 DEF Connected, ConnectionsFit, InUse, On, At
  <2>5. CASE Created(c)
    <3>1. caller'[c].at = "assert" /\ caller'[c].on = caller[c].on
      BY <1>0, <2>5 DEF Created, Waits
    <3> QED  BY <1>0, <2>0, <2>5, <3>1 DEF Created, ConnectionsFit, At
  <2>6. CASE NextAssert(c)
    <3>1. CASE channel = None \/ channel = closing
      <4>1. caller'[c] = Failed(caller[c])
        BY <1>0, <2>6, <3>1 DEF NextAssert
      <4>2. caller[c] \in Waits /\ UNCHANGED <<channel, open>>
        BY <1>0, <2>6 DEF NextAssert
      <4>3. caller'[c].at \notin {"create", "assert"} /\ caller'[c].on = None
        BY <4>1, <4>2, FailedFacts
      <4> QED  BY <2>1, <4>2, <4>3
    <3>2. CASE ~(channel = None \/ channel = closing)
      <4>1. caller'[c].at = "assert" /\ caller'[c].on = channel
        BY <1>0, <2>6, <3>2 DEF NextAssert, At, Waits
      <4> QED  BY <1>0, <2>0, <2>6, <3>2, <4>1 DEF NextAssert, ConnectionsFit, At
    <3> QED  BY <3>1, <3>2
  <2>7. CASE Publish(c)
    BY <1>0, <2>1, <2>7 DEF Publish, Idle
  <2>8. CASE BackedOff(c)
    <3>1. caller'[c].at = "connect" /\ caller'[c].on = caller[c].on
      BY <1>0, <2>8 DEF BackedOff, Waits
    <3> QED  BY <2>1, <2>8, <3>1 DEF BackedOff, ConnectionsFit, At
  <2> QED  BY <1>1, <2>2, <2>3, <2>4, <2>5, <2>6, <2>7, <2>8 DEF CallerStep
<1>2. ASSUME NEW k \in Conns, caller' = Rejected(k),
             open' \in {open, open \ {k}}, channel' \in {channel, None},
             channel = k => channel' = None, closing' \in {closing, None}
      PROVE  ConnectionsFit'
  <2>1. \A c \in Callers :
          \/ caller'[c].on = None /\ caller'[c].at \notin {"create", "assert"}
          \/ /\ caller[c].on # k
             /\ caller'[c].at = caller[c].at /\ caller'[c].on = caller[c].on
    BY <1>2, RejectedFacts DEF On
  <2> QED  BY <1>0, <1>2, <2>1 DEF ConnectionsFit, At
<1>3. ASSUME NEW k \in Conns, Lose(k) PROVE ConnectionsFit'
  <2>1. channel = k => channel' = None
    BY <1>3 DEF Lose, Creators, ConnectionsFit, On
  <2> QED  BY <1>2, <1>3, <2>1 DEF Lose
<1>4. CASE Disconnect
  <2>1. \A c \in Callers :
          caller'[c].at = caller[c].at /\ caller'[c].on = caller[c].on
    BY <1>0, <1>4, HitFacts DEF Disconnect
  <2> QED  BY <1>4, <2>1 DEF Disconnect, ConnectionsFit, At
<1>5. CASE Disconnected
  BY <1>2, <1>5 DEF Disconnected, RabbitTypeOK
<1>6. CASE UNCHANGED rabbitVars
  BY <1>6 DEF rabbitVars, ConnectionsFit, At
<1> QED  BY <1>1, <1>3, <1>4, <1>5, <1>6 DEF RabbitNext

LEMMA ConnectionsHold == RabbitSpec => []ConnectionsFit
<1>1. RabbitInit => ConnectionsFit
  BY RabbitNames DEF RabbitInit, ConnectionsFit, At, Idle
<1> QED  BY <1>1, ConnectionsStep, RabbitTypesCorrect, PTL DEF RabbitSpec

(* Neither a publish nor an assert is handed to a channel whose connection is
   known to be closed. *)
THEOREM RabbitChannelIsOpen == RabbitSpec => []ChannelIsOpen
<1>1. ConnectionsFit => ChannelIsOpen
  BY DEF ConnectionsFit, ChannelIsOpen
<1> QED  BY <1>1, ConnectionsHold, PTL

-----------------------------------------------------------------------------
(* Without a race and a disconnect there is one caller that connects, if any,
   and what is open is its connection or the channel's. *)
OneConnects ==
  /\ closing # None => disconnected
  /\ ~raced /\ ~disconnected =>
       /\ ~nullPublish
       /\ \A c, d \in Callers : Busy(c) /\ Busy(d) => c = d
       /\ \A c \in Callers :
            /\ Busy(c) /\ ~At(c, "assert") => channel = None
            /\ At(c, "assert") => caller[c].on = channel
       /\ \A k \in open : k # channel => Creators(k) # {}

LEMMA OneConnectsStep ==
  /\ RabbitTypeOK /\ ConnectionsFit /\ OneConnects /\ [RabbitNext]_rabbitVars
  => OneConnects'
<1> SUFFICES ASSUME RabbitTypeOK, ConnectionsFit, OneConnects, [RabbitNext]_rabbitVars
             PROVE  OneConnects'
  OBVIOUS
<1>0. caller \in [Callers -> Waits] /\ open \subseteq Conns /\ None \notin Conns
  BY RabbitNames DEF RabbitTypeOK, Waits
<1>1. ASSUME NEW c \in Callers, Begin(c) \/ CallerStep(c) PROVE OneConnects'
  <2>0. /\ \A d \in Callers \ {c} : caller'[d] = caller[d]
        /\ UNCHANGED <<closing, disconnected>>
        /\ raced => raced'
    <3>1. raced => raced'
      BY <1>1 DEF Begin, CallerStep, Connected, ConnectFails, Created, NextAssert,
         Publish, BackedOff
    <3> QED  BY <1>1, <3>1, CallerStepFrame
  <2>1. SUFFICES ASSUME ~raced', ~disconnected
                 PROVE  /\ ~nullPublish'
                        /\ \A d \in Callers \ {c} : ~Busy(d)
                        /\ Busy(c)' /\ ~At(c, "assert")' => channel' = None
                        /\ At(c, "assert")' => caller'[c].on = channel'
                        /\ \A k \in open' :
                             k # channel' => At(c, "create")' /\ caller'[c].on = k
    <3>1. ASSUME /\ ~nullPublish'
                 /\ \A d \in Callers \ {c} : ~Busy(d)
                 /\ Busy(c)' /\ ~At(c, "assert")' => channel' = None
                 /\ At(c, "assert")' => caller'[c].on = channel'
                 /\ \A k \in open' :
                      k # channel' => At(c, "create")' /\ caller'[c].on = k
          PROVE  /\ ~nullPublish'
                 /\ \A d, e \in Callers : Busy(d)' /\ Busy(e)' => d = e
                 /\ \A d \in Callers :
                      /\ Busy(d)' /\ ~At(d, "assert")' => channel' = None
                      /\ At(d, "assert")' => caller'[d].on = channel'
                 /\ \A k \in open' : k # channel' => Creators(k)' # {}
      <4>1. \A d \in Callers \ {c} : ~Busy(d)' /\ ~At(d, "assert")'
        BY <2>0, <3>1 DEF Busy, At
      <4>2. \A k \in open' : k # channel' => c \in Creators(k)'
        BY <3>1 DEF Creators, On
      <4> QED  BY <3>1, <4>1, <4>2
    <3> QED  BY <2>0, <2>1, <3>1 DEF OneConnects
  <2>2. ~raced /\ closing = None /\ ~nullPublish
    BY <2>0, <2>1 DEF OneConnects
  <2>3. \A k \in open : k # channel => \E d \in Callers : At(d, "create") /\ caller[d].on = k
    BY <2>1, <2>2 DEF OneConnects, Creators, On
  <2>4. CASE Begin(c)
    <3>1. \A d \in Callers : ~Busy(d)
      BY <2>1, <2>4 DEF Begin
    <3>2. \A k \in open : k = channel
      BY <2>3, <3>1 DEF Busy, At
    <3>3. caller'[c].at = "connect"
      BY <1>0, <2>4 DEF Begin, Connecting
    <3> QED  BY <2>2, <2>4, <3>1, <3>2, <3>3 DEF Begin, At
  <2>5. CASE CallerStep(c)
    <3>0. /\ Busy(c) /\ \A d \in Callers \ {c} : ~Busy(d)
          /\ ~At(c, "assert") => channel = None
          /\ At(c, "assert") => caller[c].on = channel /\ channel # None
          /\ \A k \in open : k # channel => At(c, "create") /\ caller[c].on = k
      <4>1. Busy(c)
        BY <2>5 DEF CallerStep, Connected, ConnectFails, Created, NextAssert, Publish,
           BackedOff, Busy, At
      <4>2. \A d \in Callers \ {c} : ~Busy(d)
        BY <2>1, <2>2, <4>1 DEF OneConnects
      <4>3. \A k \in open : k # channel => At(c, "create") /\ caller[c].on = k
        BY <2>3, <4>2 DEF Busy, At
      <4> QED  BY <1>0, <2>1, <2>2, <4>1, <4>2, <4>3 DEF OneConnects, ConnectionsFit
    <3>1. CASE Connected(c)
      <4>1. caller'[c].at = "create" /\ caller'[c].on = Fresh
        BY <1>0, <3>1 DEF Connected, Waits
      <4> QED  BY <2>2, <3>0, <3>1, <4>1 DEF Connected, At
    <3>2. CASE ConnectFails(c)
      <4>1. caller'[c] = Failed(Hit(caller[c])) /\ caller[c] \in Waits
        BY <1>0, <3>2 DEF ConnectFails
      <4>2. caller'[c].at \in {"idle", "backoff"}
        BY <4>1, HitFacts, FailedFacts
      <4> QED  BY <2>2, <3>0, <3>2, <4>2 DEF ConnectFails, At
    <3>3. CASE Created(c)
      <4>1. caller'[c].at = "assert" /\ caller'[c].on = caller[c].on
        BY <1>0, <3>3 DEF Created, Waits
      <4> QED  BY <1>0, <2>2, <3>0, <3>3, <4>1 DEF Created, At
    <3>4. CASE NextAssert(c)
      <4>1. caller'[c].at = "assert" /\ caller'[c].on = channel
        BY <1>0, <2>2, <3>0, <3>4 DEF NextAssert, At, Waits
      <4> QED  BY <2>2, <3>0, <3>4, <4>1 DEF NextAssert, At
    <3>5. CASE Publish(c)
      <4>1. caller'[c].at = "idle"
        BY <1>0, <3>5 DEF Publish, Idle
      <4>2. channel # None /\ UNCHANGED <<channel, open>>
        BY <3>0, <3>5 DEF Publish
      <4>3. ~nullPublish'
        BY <2>2, <3>5, <4>2 DEF Publish
      <4>4. \A k \in open : k = channel
        BY <3>0, <3>5 DEF Publish, At
      <4> QED  BY <3>0, <4>1, <4>2, <4>3, <4>4 DEF At, Busy
    <3>6. CASE BackedOff(c)
      <4>1. caller'[c].at = "connect"
        BY <1>0, <3>6 DEF BackedOff, Waits
      <4> QED  BY <2>2, <3>0, <3>6, <4>1 DEF BackedOff, At
    <3> QED  BY <2>5, <3>1, <3>2, <3>3, <3>4, <3>5, <3>6 DEF CallerStep
  <2> QED  BY <1>1, <2>4, <2>5
<1>2. ASSUME NEW k \in Conns, Lose(k) PROVE OneConnects'
  <2>0. /\ caller' = Rejected(k) /\ open' = open \ {k}
        /\ channel' = IF Creators(k) = {} THEN None ELSE channel
        /\ closing' \in {closing, None}
        /\ UNCHANGED <<disconnected, raced, nullPublish>>
    BY <1>2 DEF Lose
  <2>1. SUFFICES ASSUME ~raced, ~disconnected
                 PROVE  /\ \A c, d \in Callers : Busy(c)' /\ Busy(d)' => c = d
                        /\ \A c \in Callers :
                             /\ Busy(c)' /\ ~At(c, "assert")' => channel' = None
                             /\ At(c, "assert")' => caller'[c].on = channel'
                        /\ \A j \in open' : j # channel' => Creators(j)' # {}
    BY <2>0 DEF OneConnects
  <2>2. \A c \in Callers :
          \/ On(c, k) /\ caller'[c].at \in {"idle", "backoff"}
          \/ ~On(c, k) /\ caller'[c].at = caller[c].at /\ caller'[c].on = caller[c].on
    BY <2>0, RejectedFacts
  <2>3. \A c \in Callers : (Busy(c)' => Busy(c)) /\ (At(c, "assert")' => At(c, "assert"))
    BY <1>0, <2>2 DEF Busy, At, On, ConnectionsFit
  <2>4. /\ \A c, d \in Callers : Busy(c) /\ Busy(d) => c = d
        /\ \A c \in Callers :
             /\ Busy(c) /\ ~At(c, "assert") => channel = None
             /\ At(c, "assert") => caller[c].on = channel
        /\ \A j \in open : j # channel => Creators(j) # {}
    BY <2>1 DEF OneConnects
  <2>5. Creators(k) # {} => channel = None
    BY <2>4 DEF Creators, Busy, At
  <2>6. channel' = None /\ (Creators(k) = {} => channel = k)
    BY <1>2, <2>0, <2>4, <2>5 DEF Lose
  <2>7. \A c \in Callers : ~At(c, "assert")'
    BY <1>0, <2>2, <2>3, <2>4, <2>5, <2>6 DEF On, At, ConnectionsFit
  <2>8. \A j \in open' : j # channel' => Creators(j)' # {}
    <3> SUFFICES ASSUME NEW j \in open, j # k PROVE Creators(j)' # {}
      BY <2>0
    <3>1. j # channel
      <4>1. CASE Creators(k) = {}
        BY <2>6, <4>1
      <4>2. CASE Creators(k) # {}
        BY <1>0, <2>5, <4>2
      <4> QED  BY <4>1, <4>2
    <3>2. PICK c \in Callers : At(c, "create") /\ caller[c].on = j
      BY <2>4, <3>1 DEF Creators, On
    <3>3. At(c, "create")' /\ caller'[c].on = j
      BY <2>2, <3>2 DEF On, At
    <3> QED  BY <3>3 DEF Creators, On
  <2> QED  BY <2>3, <2>4, <2>6, <2>7, <2>8
<1>3. CASE Disconnect \/ Disconnected
  BY <1>3 DEF Disconnect, Disconnected, OneConnects
<1>4. CASE UNCHANGED rabbitVars
  BY <1>4 DEF rabbitVars, OneConnects, Busy, At, Creators, On
<1> QED  BY <1>1, <1>2, <1>3, <1>4 DEF RabbitNext

LEMMA OneConnectsHolds == RabbitSpec => []OneConnects
<1>1. RabbitInit => OneConnects
  BY RabbitNames DEF RabbitInit, OneConnects, Busy, At, Idle
<1> QED  BY <1>1, OneConnectsStep, RabbitTypesCorrect, ConnectionsHold, PTL
         DEF RabbitSpec

(* Connections pile up only when two callers connect at once or the shutdown
   has disconnected. *)
THEOREM RabbitOneConnection == RabbitSpec => []OneConnection
<1>1. OneConnects => OneConnection
  <2> SUFFICES ASSUME OneConnects, ~raced, ~disconnected, NEW k \in open, k # channel
               PROVE  channel = None /\ Creators(k) # {}
    BY DEF OneConnection
  <2>1. PICK c \in Callers : c \in Creators(k)
    BY DEF OneConnects, Creators
  <2> QED  BY <2>1 DEF OneConnects, Creators, Busy, At
<1> QED  BY <1>1, OneConnectsHolds, PTL

(* A caller that connected without a race and a disconnect has a channel to
   publish to. *)
THEOREM RabbitPublishMeetsChannel == RabbitSpec => []PublishMeetsChannel
<1>1. OneConnects => PublishMeetsChannel
  BY DEF OneConnects, PublishMeetsChannel
<1> QED  BY <1>1, OneConnectsHolds, PTL

-----------------------------------------------------------------------------
LEMMA AttemptsStep ==
  /\ RabbitTypeOK /\ ConnectionsFit /\ AttemptsAreEarned /\ [RabbitNext]_rabbitVars
  => AttemptsAreEarned'
<1> SUFFICES ASSUME RabbitTypeOK, ConnectionsFit, AttemptsAreEarned,
                    [RabbitNext]_rabbitVars,
                    NEW d \in Callers
             PROVE  caller'[d].attempt + (IF Doomed(d)' THEN 1 ELSE 0) <= caller'[d].hits
  BY DEF AttemptsAreEarned
<1>0. caller \in [Callers -> Waits] /\ caller[d] \in Waits
  BY DEF RabbitTypeOK, Waits
<1>1. /\ caller[d].attempt \in Nat /\ caller[d].hits \in Nat
      /\ caller[d].attempt <= caller[d].hits
      /\ Doomed(d) => caller[d].attempt + 1 <= caller[d].hits
  BY <1>0, RabbitBounds DEF AttemptsAreEarned, Waits
<1>2. caller' \in [Callers -> Waits]
  BY RabbitTypeStep DEF RabbitTypeOK, Waits
<1>3. caller'[d].attempt \in Nat /\ caller'[d].hits \in Nat
  BY <1>2, RabbitBounds DEF Waits
<1>4. ASSUME caller'[d].attempt <= caller'[d].hits, caller'[d].at # "assert"
      PROVE  caller'[d].attempt + (IF Doomed(d)' THEN 1 ELSE 0) <= caller'[d].hits
  BY <1>3, <1>4 DEF Doomed, At
(* It waits, or has failed, after a hit that was not counted yet. *)
<1>5. ASSUME caller[d].at # "idle", caller'[d] = Hit(caller[d])
      PROVE  caller'[d].attempt + (IF Doomed(d)' THEN 1 ELSE 0) <= caller'[d].hits
  <2>1. caller'[d].attempt + 1 <= caller'[d].hits
    BY <1>0, <1>1, <1>5, HitFacts
  <2>2. CASE Doomed(d)'
    BY <1>3, <2>1, <2>2
  <2>3. CASE ~Doomed(d)'
    BY <1>3, <2>1, <2>3
  <2> QED  BY <2>2, <2>3
<1>6. ASSUME caller[d].at = "idle", caller'[d] = Hit(caller[d])
      PROVE  caller'[d].attempt + (IF Doomed(d)' THEN 1 ELSE 0) <= caller'[d].hits
  <2>1. caller'[d].attempt = caller[d].attempt /\ caller'[d].hits >= caller[d].hits
        /\ caller'[d].at = "idle"
    BY <1>0, <1>6, HitFacts
  <2>2. caller'[d].attempt <= caller'[d].hits
    BY <1>1, <1>3, <2>1
  <2> QED  BY <1>4, <2>1, <2>2
<1>7. ASSUME caller[d].at # "idle", caller'[d] = Failed(Hit(caller[d]))
      PROVE  caller'[d].attempt + (IF Doomed(d)' THEN 1 ELSE 0) <= caller'[d].hits
  <2>1. Hit(caller[d]) \in Waits /\ Hit(caller[d]).attempt + 1 <= Hit(caller[d]).hits
    BY <1>0, <1>1, <1>7, HitFacts
  <2>2. Failed(Hit(caller[d])).attempt <= Failed(Hit(caller[d])).hits
        /\ Failed(Hit(caller[d])).at \in {"idle", "backoff"}
    BY <2>1, FailedFacts
  <2> QED  BY <1>4, <1>7, <2>2
(* A caller stays doomed, and with the variables that make it so unchanged
   none becomes doomed. *)
<1>8. ASSUME caller'[d] = caller[d], UNCHANGED closing,
             channel' = channel \/ ~At(d, "assert")
                                \/ (channel' # None /\ channel' # closing)
      PROVE  caller'[d].attempt + (IF Doomed(d)' THEN 1 ELSE 0) <= caller'[d].hits
  <2>1. Doomed(d)' => Doomed(d)
    BY <1>8 DEF Doomed, At
  <2> QED  BY <1>1, <1>8, <2>1
<1>9. ASSUME NEW c \in Callers, Begin(c) \/ CallerStep(c)
      PROVE  caller'[d].attempt + (IF Doomed(d)' THEN 1 ELSE 0) <= caller'[d].hits
  <2>0. /\ \A e \in Callers \ {c} : caller'[e] = caller[e]
        /\ UNCHANGED closing
    BY <1>9, CallerStepFrame
  <2>1. \/ channel' = channel
        \/ /\ Created(c) /\ channel' # None /\ channel' # closing
    <3>1. CASE Created(c)
      <4>1. caller[c].on \in open /\ caller[c].on # closing
        BY <3>1 DEF Created, ConnectionsFit
      <4> QED  BY <3>1, <4>1, RabbitNames DEF Created, RabbitTypeOK
    <3>2. CASE ~Created(c)
      BY <1>9, <3>2 DEF Begin, CallerStep, Connected, ConnectFails, NextAssert, Publish,
         BackedOff
    <3> QED  BY <3>1, <3>2
  <2>2. CASE c # d
    BY <1>8, <2>0, <2>1, <2>2
  <2>3. CASE c = d
    <3>1. CASE Begin(d)
      <4>1. caller'[d] = Connecting(0, 0)
        BY <1>0, <3>1 DEF Begin
      <4> QED  BY <1>4, <4>1 DEF Connecting
    <3>2. CASE Connected(d)
      <4>1. /\ caller'[d].at = "create" /\ caller'[d].attempt = caller[d].attempt
            /\ caller'[d].hits = caller[d].hits
        BY <1>0, <3>2 DEF Connected, Waits
      <4> QED  BY <1>1, <1>4, <4>1
    <3>3. CASE ConnectFails(d)
      BY <1>0, <1>7, <3>3 DEF ConnectFails, At
    <3>4. CASE Created(d)
      <4>1. /\ caller'[d].on = caller[d].on /\ caller'[d].attempt = caller[d].attempt
            /\ caller'[d].hits = caller[d].hits
        BY <1>0, <3>4 DEF Created, Waits
      <4>2. channel' = caller[d].on /\ caller[d].on # closing /\ caller[d].on # None
        BY <3>4, RabbitNames DEF Created, ConnectionsFit, RabbitTypeOK
      <4>3. ~Doomed(d)'
        BY <2>0, <4>1, <4>2 DEF Doomed
      <4> QED  BY <1>1, <4>1, <4>3
    <3>5. CASE NextAssert(d)
      <4>1. CASE channel = None \/ channel = closing
        <5>1. caller'[d] = Failed(caller[d])
          BY <1>0, <3>5, <4>1 DEF NextAssert
        <5>2. caller[d].attempt + 1 <= caller[d].hits
          BY <1>1, <3>5, <4>1 DEF NextAssert, Doomed
        <5>3. caller'[d].attempt <= caller'[d].hits
              /\ caller'[d].at \in {"idle", "backoff"}
          BY <1>0, <5>1, <5>2, FailedFacts
        <5> QED  BY <1>4, <5>3
      <4>2. CASE ~(channel = None \/ channel = closing)
        <5>1. /\ caller'[d].on = channel /\ caller'[d].attempt = caller[d].attempt
              /\ caller'[d].hits = caller[d].hits
          BY <1>0, <3>5, <4>2 DEF NextAssert, Waits
        <5>2. ~Doomed(d)'
          BY <2>0, <3>5, <4>2, <5>1 DEF NextAssert, Doomed
        <5> QED  BY <1>1, <5>1, <5>2
      <4> QED  BY <4>1, <4>2
    <3>6. CASE Publish(d)
      <4>1. caller'[d] = Idle
        BY <1>0, <3>6 DEF Publish
      <4> QED  BY <1>4, <4>1 DEF Idle
    <3>7. CASE BackedOff(d)
      <4>1. /\ caller'[d].at = "connect" /\ caller'[d].attempt = caller[d].attempt
            /\ caller'[d].hits = caller[d].hits
        BY <1>0, <3>7 DEF BackedOff, Waits
      <4> QED  BY <1>1, <1>4, <4>1
    <3> QED  BY <1>9, <2>3, <3>1, <3>2, <3>3, <3>4, <3>5, <3>6, <3>7 DEF CallerStep
  <2> QED  BY <2>2, <2>3
<1>10. ASSUME NEW k \in Conns, caller' = Rejected(k)
       PROVE  caller'[d].attempt + (IF Doomed(d)' THEN 1 ELSE 0) <= caller'[d].hits
  <2>1. CASE On(d, k)
    <3>1. caller[d].at # "idle"
      BY <1>10, <2>1, RabbitNames DEF On, At, ConnectionsFit
    <3> QED  BY <1>7, <1>10, <2>1, <3>1, RejectedFacts
  <2>2. CASE ~On(d, k)
    BY <1>5, <1>6, <1>10, <2>2, RejectedFacts
  <2> QED  BY <2>1, <2>2
<1>11. ASSUME NEW k \in Conns, Lose(k)
       PROVE  caller'[d].attempt + (IF Doomed(d)' THEN 1 ELSE 0) <= caller'[d].hits
  BY <1>10, <1>11 DEF Lose
<1>12. CASE Disconnect
  BY <1>5, <1>6, <1>12 DEF Disconnect
<1>13. CASE Disconnected
  <2>1. closing \in Conns
    BY <1>13 DEF Disconnected, RabbitTypeOK
  <2> QED  BY <1>10, <1>13, <2>1 DEF Disconnected
<1>14. CASE UNCHANGED rabbitVars
  BY <1>8, <1>14 DEF rabbitVars
<1> QED  BY <1>9, <1>11, <1>12, <1>13, <1>14 DEF RabbitNext

(* Each failed attempt of a caller takes a refusal, a loss or a disconnect of
   its own. *)
THEOREM RabbitAttemptsAreEarned == RabbitSpec => []AttemptsAreEarned
<1>1. RabbitInit => AttemptsAreEarned
  <2> SUFFICES ASSUME RabbitInit, NEW c \in Callers
               PROVE  caller[c].attempt + (IF Doomed(c) THEN 1 ELSE 0) <= caller[c].hits
    BY DEF AttemptsAreEarned
  <2>1. caller[c] = Idle
    BY DEF RabbitInit
  <2>2. ~Doomed(c) /\ caller[c].attempt = 0 /\ caller[c].hits = 0
    BY <2>1 DEF Doomed, At, Idle
  <2> QED  BY <2>2
<1> QED  BY <1>1, AttemptsStep, RabbitTypesCorrect, ConnectionsHold, PTL
         DEF RabbitSpec
=============================================================================
