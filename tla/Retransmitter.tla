--------------------------- MODULE Retransmitter ----------------------------
(***************************************************************************)
(* internal/ike/retransmit.go: the requests of one session that wait for a *)
(* response, each with a timer.  An expired timer starts a goroutine,      *)
(* which may find the lock taken and its request gone when it gets it; it  *)
(* releases the lock before it sends or calls timeoutFunc.                 *)
(***************************************************************************)
EXTENDS Integers, Functions

CONSTANTS
    MsgIDs,          \* message IDs
    InitialInterval, \* RetransmitConfig, in seconds
    MaxInterval,
    MaxRetries

ASSUME RetransmitConfigAssumption ==
    /\ {InitialInterval, MaxInterval} \subseteq Nat \ {0} /\ MaxRetries \in Nat
    /\ InitialInterval <= MaxInterval

VARIABLES
    pending, \* the requests tracked, by message ID
    fired,   \* goroutines of expired timers that have not had the lock, by message ID
    due,     \* goroutines about to call sendFunc, by message ID
    giveUps  \* goroutines about to call timeoutFunc

retransmitVars == <<pending, fired, due, giveUps>>

PendingRequest == [retries |-> 0, interval |-> InitialInterval, armed |-> TRUE]

NewRetransmitter ==
    /\ pending = <<>>
    /\ fired = [m \in MsgIDs |-> 0]
    /\ due = [m \in MsgIDs |-> 0]
    /\ giveUps = 0

Start(m) ==
    /\ pending' = IF m \in DOMAIN pending THEN pending
                  ELSE [k \in DOMAIN pending \cup {m} |-> IF k = m THEN PendingRequest ELSE pending[k]]
    /\ UNCHANGED <<fired, due, giveUps>>

Stop(m) ==
    /\ pending' = Restrict(pending, DOMAIN pending \ {m})
    /\ UNCHANGED <<fired, due, giveUps>>

StopAll ==
    /\ pending' = <<>>
    /\ UNCHANGED <<fired, due>>

Expire(m) ==
    /\ m \in DOMAIN pending /\ pending[m].armed
    /\ pending' = [pending EXCEPT ![m].armed = FALSE]
    /\ fired' = [fired EXCEPT ![m] = @ + 1]
    /\ UNCHANGED <<due, giveUps>>

backoffUncapped(req) ==
    [retries |-> req.retries + 1, armed |-> TRUE, interval |-> 2 * req.interval]
backoff(req) ==
    [retries |-> req.retries + 1, armed |-> TRUE,
     interval |-> IF 2 * req.interval > MaxInterval THEN MaxInterval ELSE 2 * req.interval]

exhaustedEarly(req) == req.retries + 1 >= MaxRetries
exhausted(req) == req.retries + 1 > MaxRetries

\* The part under the lock.
handleTimeout(m) ==
    /\ fired[m] > 0
    /\ fired' = [fired EXCEPT ![m] = @ - 1]
    /\ IF m \notin DOMAIN pending THEN UNCHANGED <<pending, due, giveUps>>
       ELSE IF exhausted(pending[m])
       THEN /\ pending' = Restrict(pending, DOMAIN pending \ {m})
            /\ giveUps' = giveUps + 1
            /\ UNCHANGED due
       ELSE /\ pending' = [pending EXCEPT ![m] = backoff(@)]
            /\ due' = [due EXCEPT ![m] = @ + 1]
            /\ UNCHANGED giveUps

\* The part after it.
sendFunc(m) ==
    /\ due[m] > 0
    /\ due' = [due EXCEPT ![m] = @ - 1]
    /\ UNCHANGED <<pending, fired, giveUps>>
timeoutFunc == giveUps > 0 /\ giveUps' = giveUps - 1

RetransmitTypeOK ==
    /\ DOMAIN pending \subseteq MsgIDs
    /\ \A m \in DOMAIN pending :
          /\ pending[m].retries \in 0 .. MaxRetries
          /\ pending[m].interval \in InitialInterval .. MaxInterval
          /\ pending[m].armed \in BOOLEAN
    /\ fired \in [MsgIDs -> Nat] /\ due \in [MsgIDs -> Nat] /\ giveUps \in Nat
=============================================================================
