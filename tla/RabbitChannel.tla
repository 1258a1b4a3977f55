--------------------------- MODULE RabbitChannel ---------------------------
(***************************************************************************)
(* The module variable channel of one process and the callers that share   *)
(* it.  publishToExchange uses the channel when there is one and calls     *)
(* connectRabbitMQ when there is none; two callers that find none both     *)
(* connect, and the later of them overwrites the channel of the earlier.   *)
(* disconnectRabbitMQ closes the channel during the shutdown.              *)
(*                                                                         *)
(* A connection carries one channel, so one name stands for both.  A       *)
(* publish on a channel that is there changes nothing here: what becomes   *)
(* of the message is in OutboxDelivery.                                    *)
(***************************************************************************)
EXTENDS Naturals

CONSTANTS Callers,    \* bound: callers of publishToExchange at once
          Conns,      \* bound: connections at once
          None,
          Asserts,    \* exchanges, queues and bindings connectRabbitMQ asserts
          MaxRetries, \* MAX_RETRIES
          MaxLosses   \* bound: connections that break

ASSUME RabbitNames == None \notin Conns /\ Conns # {}
ASSUME RabbitConstants ==
  /\ Asserts \in Nat \ {0} /\ MaxRetries \in Nat \ {0} /\ MaxLosses \in Nat

VARIABLES
  channel,      \* the module variable
  open,         \* the connections that are open
  caller,       \* caller -> what it awaits
  closing,      \* the channel disconnectRabbitMQ is closing
  disconnected, \* disconnectRabbitMQ was called with a channel
  losses,       \* connections lost so far
  raced,        \* history: a caller began to connect during another's attempts
  nullPublish   \* history: a publish met no channel

rabbitVars ==
  <<channel, open, caller, closing, disconnected, losses, raced, nullPublish>>

-----------------------------------------------------------------------------
(* A caller awaits amqp.connect, createChannel or an assert on the channel
   `on', of which `left' remain, or its back-off; `hits' counts the refusals,
   losses and disconnects since it began. *)
Idle == [at |-> "idle", on |-> None, left |-> 0, attempt |-> 0, hits |-> 0]
Connecting(attempt, hits) ==
  [at |-> "connect", on |-> None, left |-> 0, attempt |-> attempt, hits |-> hits]

At(c, what) == caller[c].at = what
Busy(c)     == ~At(c, "idle")
On(c, k)    == caller[c].on = k
Creators(k) == {c \in Callers : At(c, "create") /\ On(c, k)}
InUse(k)    == \/ k \in open \/ k = channel \/ k = closing
               \/ \E c \in Callers : On(c, k)

(* The hits saturate where no attempt is left to fail. *)
Hit(r) ==
  IF r.at = "idle" \/ r.hits = MaxRetries THEN r ELSE [r EXCEPT !.hits = @ + 1]

(* The catch of an attempt: back off, or throw after the last one. *)
FailedForEver(r) ==     \* seeded fault: the attempts are not counted
  [Connecting(r.attempt, r.hits) EXCEPT !.at = "backoff"]

FailedOffByOne(r) ==     \* seeded fault: one attempt too many
  IF r.attempt = MaxRetries THEN Idle
  ELSE [Connecting(r.attempt + 1, r.hits) EXCEPT !.at = "backoff"]

Failed(r) ==
  IF r.attempt + 1 = MaxRetries THEN Idle
  ELSE [Connecting(r.attempt + 1, r.hits) EXCEPT !.at = "backoff"]

(* The connection bootstrap made. *)
RabbitInit ==
  /\ channel = (CHOOSE k \in Conns : TRUE) /\ open = {channel}
  /\ caller = [c \in Callers |-> Idle]
  /\ closing = None /\ disconnected = FALSE
  /\ losses = 0 /\ raced = FALSE /\ nullPublish = FALSE

-----------------------------------------------------------------------------
(* publishToExchange without a channel. *)
BeginAlways(c) ==     \* seeded fault: no look at the channel
  /\ At(c, "idle")
  /\ caller' = [caller EXCEPT ![c] = Connecting(0, 0)]
  /\ raced' = (raced \/ \E d \in Callers : Busy(d))
  /\ UNCHANGED <<channel, open, closing, disconnected, losses, nullPublish>>

Begin(c) ==
  /\ At(c, "idle") /\ channel = None
  /\ caller' = [caller EXCEPT ![c] = Connecting(0, 0)]
  /\ raced' = (raced \/ \E d \in Callers : Busy(d))
  /\ UNCHANGED <<channel, open, closing, disconnected, losses, nullPublish>>

(* amqp.connect; which unused name the connection gets does not matter. *)
Unused == {k \in Conns : ~InUse(k)}
Fresh  == CHOOSE k \in Conns : k \in Unused

Connected(c) ==
  /\ At(c, "connect") /\ Unused # {}
  /\ open' = open \cup {Fresh}
  /\ caller' = [caller EXCEPT ![c].at = "create", ![c].on = Fresh]
  /\ UNCHANGED <<channel, closing, disconnected, losses, raced, nullPublish>>

ConnectFailsReturns(c) ==     \* seeded fault: the last error is not thrown
  /\ At(c, "connect")
  /\ caller' = [caller EXCEPT ![c] = Failed(Hit(@))]
  /\ nullPublish' = (nullPublish \/ caller[c].attempt + 1 = MaxRetries)
  /\ UNCHANGED <<channel, open, closing, disconnected, losses, raced>>

ConnectFails(c) ==
  /\ At(c, "connect")
  /\ caller' = [caller EXCEPT ![c] = Failed(Hit(@))]
  /\ UNCHANGED <<channel, open, closing, disconnected, losses, raced,
                 nullPublish>>

(* createChannel: the channel is assigned, the listeners are registered, and
   the first exchange is asserted. *)
Created(c) ==
  /\ At(c, "create")
  /\ channel' = caller[c].on
  /\ caller' = [caller EXCEPT ![c].at = "assert", ![c].left = Asserts]
  /\ UNCHANGED <<open, closing, disconnected, losses, raced, nullPublish>>

(* The next assert is called on whatever channel the variable then holds;
   without one, or on one that is closing, it throws. *)
NextAssert(c) ==
  /\ At(c, "assert") /\ caller[c].left > 1
  /\ caller[c].on # closing
  /\ caller' = [caller EXCEPT ![c] =
                  IF channel = None \/ channel = closing THEN Failed(caller[c])
                  ELSE [caller[c] EXCEPT !.on = channel, !.left = @ - 1]]
  /\ UNCHANGED <<channel, open, closing, disconnected, losses, raced,
                 nullPublish>>

(* The last one: connectRabbitMQ returns, and the caller publishes. *)
Publish(c) ==
  /\ At(c, "assert") /\ caller[c].left = 1
  /\ caller[c].on # closing
  /\ caller' = [caller EXCEPT ![c] = Idle]
  /\ nullPublish' = (nullPublish \/ channel = None)
  /\ UNCHANGED <<channel, open, closing, disconnected, losses, raced>>

BackedOffCounts(c) ==     \* seeded fault: a failure counts twice
  /\ At(c, "backoff")
  /\ caller' = [caller EXCEPT ![c].at = "connect", ![c].attempt = @ + 1]
  /\ UNCHANGED <<channel, open, closing, disconnected, losses, raced,
                 nullPublish>>

BackedOff(c) ==
  /\ At(c, "backoff")
  /\ caller' = [caller EXCEPT ![c].at = "connect"]
  /\ UNCHANGED <<channel, open, closing, disconnected, losses, raced,
                 nullPublish>>

-----------------------------------------------------------------------------
(* What awaits a reply on channel k is rejected, the rest goes on. *)
Rejected(k) ==
  [c \in Callers |-> IF On(c, k) THEN Failed(Hit(caller[c])) ELSE Hit(caller[c])]

(* A connection closes.  Its close listener, registered once it has its
   channel, clears the variable, whichever channel that holds. *)
LoseUnnoticed(k) ==     \* seeded fault: no close listener
  /\ k \in open /\ losses < MaxLosses
  /\ open' = open \ {k}
  /\ losses' = losses + 1
  /\ caller' = Rejected(k)
  /\ closing' = IF closing = k THEN None ELSE closing
  /\ UNCHANGED <<channel, disconnected, raced, nullPublish>>

Lose(k) ==
  /\ k \in open /\ losses < MaxLosses
  /\ open' = open \ {k}
  /\ losses' = losses + 1
  /\ caller' = Rejected(k)
  /\ channel' = IF Creators(k) = {} THEN None ELSE channel
  /\ closing' = IF closing = k THEN None ELSE closing
  /\ UNCHANGED <<disconnected, raced, nullPublish>>

(* disconnectRabbitMQ: the channel is closed, the connection is not. *)
Disconnect ==
  /\ ~disconnected /\ channel # None
  /\ disconnected' = TRUE
  /\ closing' = channel
  /\ caller' = [c \in Callers |-> Hit(caller[c])]
  /\ UNCHANGED <<channel, open, losses, raced, nullPublish>>

Disconnected ==
  /\ closing # None
  /\ channel' = None /\ closing' = None
  /\ caller' = Rejected(closing)
  /\ UNCHANGED <<open, disconnected, losses, raced, nullPublish>>

-----------------------------------------------------------------------------
CallerStep(c) ==
  \/ Connected(c) \/ ConnectFails(c) \/ Created(c)
  \/ NextAssert(c) \/ Publish(c) \/ BackedOff(c)

RabbitNext ==
  \/ \E c \in Callers : Begin(c) \/ CallerStep(c)
  \/ \E k \in Conns : Lose(k)
  \/ Disconnect \/ Disconnected

RabbitSpec == RabbitInit /\ [][RabbitNext]_rabbitVars

(* What a caller or the shutdown awaits is answered or rejected. *)
FairRabbit ==
  /\ RabbitSpec
  /\ \A c \in Callers : WF_rabbitVars(CallerStep(c))
  /\ WF_rabbitVars(Disconnected)

-----------------------------------------------------------------------------
(* The types of the variables. *)
RabbitTypeOK ==
  /\ channel \in Conns \cup {None}
  /\ open \subseteq Conns
  /\ caller \in [Callers ->
       [at : {"idle", "connect", "create", "assert", "backoff"},
        on : Conns \cup {None}, left : 0 .. Asserts,
        attempt : 0 .. MaxRetries - 1, hits : 0 .. MaxRetries]]
  /\ closing \in Conns \cup {None}
  /\ disconnected \in BOOLEAN
  /\ losses \in 0 .. MaxLosses
  /\ raced \in BOOLEAN /\ nullPublish \in BOOLEAN

(* No publish and no assert is handed to the channel of a connection that is
   known to be closed, whichever callers connected in between. *)
ChannelIsOpen ==
  /\ channel # None => channel \in open
  /\ \A c \in Callers : At(c, "assert") => caller[c].on \in open

(* Connections do not pile up: unless two callers connected at once, or the
   shutdown disconnected, the channel's connection is the only one. *)
OneConnection ==
  ~raced /\ ~disconnected =>
    \A k \in open : k = channel \/ (channel = None /\ Creators(k) # {})

(* The assert a caller awaits, or its next one, is bound to throw. *)
Doomed(c) ==
  At(c, "assert") /\ (channel = None \/ closing \in {channel, caller[c].on})

(* A caller's attempts fail for a reason: each takes a refused connection, a
   loss or a disconnect of its own since the caller began, so that one event
   never costs it two of the MAX_RETRIES attempts, although another caller's
   lost connection clears the channel too. *)
AttemptsAreEarned ==
  \A c \in Callers :
    caller[c].attempt + (IF Doomed(c) THEN 1 ELSE 0) <= caller[c].hits

(* The channel is there when connectRabbitMQ has returned, unless another
   caller connected at the same time or the shutdown disconnected. *)
PublishMeetsChannel == nullPublish => raced \/ disconnected

(* A publish is handed over or throws, however long RabbitMQ refuses
   connections and whoever else connects. *)
PublishSettles == \A c \in Callers : Busy(c) ~> ~Busy(c)
=============================================================================
