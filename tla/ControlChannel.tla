--------------------------- MODULE ControlChannel ---------------------------
(***************************************************************************)
(* The L2TP reliable control channel (internal/l2tp/control.go), two ends  *)
(* of it back to back over UDP: datagrams are lost, duplicated, reordered  *)
(* and delayed.                                                            *)
(*                                                                         *)
(* Each end is a ControlChannel struct: sendNs, recvNr and the queue of    *)
(* unacknowledged messages.  Sequence numbers are taken modulo Modulus     *)
(* (2^16 in the code).  The history variables sent and got count without   *)
(* wrapping, and each datagram carries the unwrapped counts it was made    *)
(* with, so that the properties can tell a number from its alias.  Send    *)
(* appends to the queue and nothing else does, so that the queue's order   *)
(* is that of the counts: it is a function of them.                        *)
(*                                                                         *)
(* Receive holds cc.mu throughout and is atomic.  Send holds it over the   *)
(* call of sendFunc, which writes to the socket: that is a second step.    *)
(* CheckRetransmit, called by the tunnel's Run goroutine, releases cc.mu   *)
(* before it calls onTimeout, and its deferred Unlock runs after that: the *)
(* three stretches are separate steps.                                     *)
(***************************************************************************)
EXTENDS Integers, FiniteSets, Functions

CONSTANTS
    Ends,            \* the two ends
    Modulus,         \* size of the sequence number space: 2^16
    MaxRetries,      \* defaultMaxRetries: 5
    MaxSends,        \* bound: a set of pairs of limits; what the ends send stays within one of them
    MaxOutstanding,  \* assumed: unacknowledged messages of an end at any time
    Lifetime         \* assumed: how far the sender moves on while a datagram is in flight

ASSUME EndsAssumption == IsFiniteSet(Ends) /\ Cardinality(Ends) = 2
ASSUME MaxRetriesAssumption == MaxRetries \in Nat
ASSUME ModulusAssumption == Modulus \in Nat /\ Modulus > 3 /\ Modulus % 2 = 0
(***************************************************************************)
(* Without a bound on what is outstanding and on what the network keeps, a *)
(* modular comparison cannot tell old from new.                            *)
(***************************************************************************)
ASSUME SpaceAssumption ==
    /\ MaxOutstanding \in 1 .. (Modulus \div 2) - 1
    /\ Lifetime \in Nat
    /\ MaxOutstanding + Lifetime <= (Modulus \div 2) + 1

VARIABLES
    sendNs,     \* cc.sendNs
    recvNr,     \* cc.recvNr
    pending,    \* cc.pending: the message's count to [ns, retries], in the order of the counts
    net,        \* the datagrams that may still arrive
    run,        \* where the Run goroutine is
    locked,     \* whether cc.mu is locked
    out,        \* the message that Send is writing to the socket: {} or {it}
    sent,       \* history: messages handed to Send
    got         \* history: messages Receive accepted

vars == <<sendNs, recvNr, pending, net, run, locked, out, sent, got>>

peer(e) == CHOOSE f \in Ends : f # e

Numbers == 0 .. Modulus - 1

(***************************************************************************)
(* A datagram: its sender, the header's Ns and Nr, whether its body is     *)
(* empty (ZLB); and, unwrapped, the message number and the acknowledgement.*)
(***************************************************************************)
Datagrams == [src : Ends, ns : Numbers, nr : Numbers, zlb : BOOLEAN, id : Nat, ack : Nat]
Pendings  == [ns : Numbers, retries : 0 .. MaxRetries + 1]

TypeOK ==
    /\ sendNs \in [Ends -> Numbers]
    /\ recvNr \in [Ends -> Numbers]
    /\ DOMAIN pending = Ends
    /\ \A e \in Ends :
          /\ DOMAIN pending[e] \subseteq 0 .. sent[e] - 1
          /\ pending[e] \in [DOMAIN pending[e] -> Pendings]
    /\ net \subseteq Datagrams
    /\ run \in [Ends -> {"ticking", "onTimeout", "deferred", "ended", "crashed"}]
    /\ locked \in [Ends -> BOOLEAN]
    /\ out \in [Ends -> SUBSET Datagrams]
    /\ sent \in [Ends -> Nat]
    /\ got \in [Ends -> Nat]

Init ==
    /\ sendNs = [e \in Ends |-> 0]
    /\ recvNr = [e \in Ends |-> 0]
    /\ pending = [e \in Ends |-> <<>>]
    /\ net = {}
    /\ run = [e \in Ends |-> "ticking"]
    /\ locked = [e \in Ends |-> FALSE]
    /\ out = [e \in Ends |-> {}]
    /\ sent = [e \in Ends |-> 0]
    /\ got = [e \in Ends |-> 0]
-----------------------------------------------------------------------------
\* The mutex can be taken: the process is up and nobody holds it.
CanLock(e) == run[e] # "crashed" /\ ~ locked[e]

(***************************************************************************)
(* The environment assumption: a datagram is gone before its sender has    *)
(* sent, or accepted, more than Lifetime further messages.                 *)
(***************************************************************************)
InFlight(dgrams, sentNow, gotNow) ==
    {m \in dgrams : /\ sentNow[m.src] - m.id <= Lifetime
                    /\ gotNow[m.src] - m.ack <= Lifetime}

Message(e, ns, id) ==
    [src |-> e, ns |-> ns, nr |-> recvNr[e], zlb |-> FALSE, id |-> id, ack |-> got[e]]

\* SendZLB: an acknowledgement, with the current Ns not consumed.
ZLB(e, nr, ack) ==
    [src |-> e, ns |-> sendNs[e], nr |-> nr, zlb |-> TRUE, id |-> sent[e], ack |-> ack]

\* Mutant of nextNumber: the number is not cut to 16 bits.
nextNumberWide(n) == n + 1

nextNumber(n) == (n + 1) % Modulus

\* Mutant of seqLessThan: a plain comparison of the wrapped numbers.
seqLessThanUnwrapped(a, b) == a < b

seqLessThan(a, b) == (b - a) % Modulus \in 1 .. (Modulus \div 2) - 1

\* acknowledgeUpTo: what stays pending after an acknowledgement.
acknowledged(queue, nr) == Restrict(queue, {i \in DOMAIN queue : ~ seqLessThan(queue[i].ns, nr)})

(***************************************************************************)
(* Send queues the message, takes the next number, and writes it to the    *)
(* socket with the lock held.  It never looks at peerRecvWindow.           *)
(***************************************************************************)
BeginSend(e) ==
    /\ CanLock(e) /\ out[e] = {}
    /\ \E most \in MaxSends : sent[e] < most[e] /\ sent[peer(e)] <= most[peer(e)]
    /\ Cardinality(DOMAIN pending[e]) < MaxOutstanding
    /\ locked' = [locked EXCEPT ![e] = TRUE]
    /\ pending' = [pending EXCEPT ![e] =
                      [i \in DOMAIN @ \cup {sent[e]} |->
                          IF i = sent[e] THEN [ns |-> sendNs[e], retries |-> 0] ELSE @[i]]]
    /\ sendNs' = [sendNs EXCEPT ![e] = nextNumber(@)]
    /\ sent' = [sent EXCEPT ![e] = @ + 1]
    /\ out' = [out EXCEPT ![e] = {Message(e, sendNs[e], sent[e])}]
    /\ net' = InFlight(net, sent', got)
    /\ UNCHANGED <<recvNr, run, got>>

\* The deferred unlock of Send, CheckRetransmit: fatal if the mutex is not locked.
Unlock(e) ==
    /\ locked' = [locked EXCEPT ![e] = FALSE]
    /\ run' = IF locked[e] THEN run ELSE [run EXCEPT ![e] = "crashed"]

EndSend(e) ==
    /\ run[e] # "crashed" /\ out[e] # {}
    /\ net' = InFlight(net \cup out[e], sent, got)
    /\ out' = [out EXCEPT ![e] = {}]
    /\ Unlock(e)
    /\ UNCHANGED <<sendNs, recvNr, pending, sent, got>>

(***************************************************************************)
(* handleControlMessage up to the dispatch: Receive drops what the Nr      *)
(* acknowledges, accepts the message if it is the one expected, and a ZLB  *)
(* goes back in every case.                                                *)
(***************************************************************************)
\* Mutant of accepts: any number not behind the expected one is taken.
acceptsAhead(e, m) == ~ m.zlb /\ ~ seqLessThan(m.ns, recvNr[e])

accepts(e, m) == ~ m.zlb /\ m.ns = recvNr[e]

Receive(e, m) ==
    /\ CanLock(e)
    /\ m.src = peer(e)
    /\ pending' = [pending EXCEPT ![e] = acknowledged(@, m.nr)]
    /\ IF accepts(e, m)
       THEN /\ recvNr' = [recvNr EXCEPT ![e] = nextNumber(m.ns)]
            /\ got' = [got EXCEPT ![e] = @ + 1]
       ELSE UNCHANGED <<recvNr, got>>
    /\ net' = InFlight(net \cup {ZLB(e, recvNr'[e], got'[e])}, sent, got')
    /\ UNCHANGED <<sendNs, run, locked, out, sent>>
-----------------------------------------------------------------------------
(***************************************************************************)
(* CheckRetransmit.  Which messages are due is up to the clock: any subset *)
(* of the queue.  The loop goes through the due messages in order, counts  *)
(* a retry and sends each again with the current Nr, until one is over the *)
(* limit.                                                                  *)
(***************************************************************************)
overLimit(pm) == pm.retries + 1 > MaxRetries

Resent(e, ids) == {Message(e, pending[e][i].ns, i) : i \in ids}

\* Mutant of Retried: the retry counter is not incremented.
RetriedUncounted(queue, ids) == queue

Retried(queue, ids) ==
    [i \in DOMAIN queue |-> IF i \in ids THEN [queue[i] EXCEPT !.retries = @ + 1] ELSE queue[i]]

Retransmit(e, due) ==
    /\ CanLock(e) /\ run[e] = "ticking"
    /\ due # {}
    /\ \A i \in due : ~ overLimit(pending[e][i])
    /\ pending' = [pending EXCEPT ![e] = Retried(@, due)]
    /\ net' = InFlight(net \cup Resent(e, due), sent, got)
    /\ UNCHANGED <<sendNs, recvNr, run, locked, out, sent, got>>

\* The first due message over the limit ends the loop; cc.mu is released for onTimeout.
GiveUp(e, due, last) ==
    /\ CanLock(e) /\ run[e] = "ticking"
    /\ last \in due /\ overLimit(pending[e][last])
    /\ \A i \in due : i < last => ~ overLimit(pending[e][i])
    /\ LET before == {i \in due : i < last}
       IN  /\ pending' = [pending EXCEPT ![e] = Retried(@, before \cup {last})]
           /\ net' = InFlight(net \cup Resent(e, before), sent, got)
    /\ run' = [run EXCEPT ![e] = "onTimeout"]
    /\ UNCHANGED <<sendNs, recvNr, locked, out, sent, got>>

\* onTimeout marks the tunnel dead; CheckRetransmit then returns false.
OnTimeout(e) ==
    /\ run[e] = "onTimeout"
    /\ run' = [run EXCEPT ![e] = "deferred"]
    /\ UNCHANGED <<sendNs, recvNr, pending, net, locked, out, sent, got>>

(***************************************************************************)
(* The deferred cc.mu.Unlock() of CheckRetransmit.  Unlocking a mutex that *)
(* is not locked is a fatal error of the Go runtime that ends the process. *)
(***************************************************************************)
DeferredUnlock(e) ==
    /\ run[e] = "deferred"
    /\ locked' = [locked EXCEPT ![e] = FALSE]
    /\ run' = [run EXCEPT ![e] = IF locked[e] THEN "ended" ELSE "crashed"]
    /\ UNCHANGED <<sendNs, recvNr, pending, net, out, sent, got>>

Tick(e) ==
    \E due \in SUBSET (DOMAIN pending[e]) :
        \/ Retransmit(e, due)
        \/ \E last \in due : GiveUp(e, due, last)

Next ==
    \E e \in Ends :
        \/ BeginSend(e)
        \/ EndSend(e)
        \/ \E m \in net : Receive(e, m)
        \/ Tick(e)
        \/ OnTimeout(e)
        \/ DeferredUnlock(e)

(***************************************************************************)
(* Fairness: the Run goroutine's ticker keeps firing, the goroutines are   *)
(* scheduled and a write to a UDP socket returns.  Nothing is assumed of   *)
(* the network.                                                            *)
(***************************************************************************)
Fairness ==
    \A e \in Ends : /\ WF_vars(Tick(e)) /\ WF_vars(OnTimeout(e)) /\ WF_vars(DeferredUnlock(e))
                    /\ WF_vars(EndSend(e))

Spec == Init /\ [][Next]_vars
FairSpec == Spec /\ Fairness
-----------------------------------------------------------------------------
(***************************************************************************)
(* Receive accepts each message once and in the order of sending: the      *)
(* message it accepts is always the one after the last one it accepted,    *)
(* although numbers wrap and old datagrams come back.                      *)
(***************************************************************************)
InOrderOnce ==
    \A e \in Ends, m \in net :
        m.src = peer(e) /\ accepts(e, m) => m.id = got[e]

(***************************************************************************)
(* A message leaves the queue only when the other end has accepted it: a   *)
(* stale or reordered Nr never acknowledges what was lost.  What is queued *)
(* and what was accepted therefore cover everything sent                   *)
(* (acknowledgeUpTo, seqLessThan).                                         *)
(***************************************************************************)
NothingLost ==
    \A e \in Ends : \A i \in 0 .. sent[e] - 1 :
        i < got[peer(e)] \/ i \in DOMAIN pending[e]

(***************************************************************************)
(* No end waits for an acknowledgement for ever, whatever the network      *)
(* loses: again and again its queue is empty, or it has given up           *)
(* (CheckRetransmit, onTimeout).                                           *)
(***************************************************************************)
AckedOrGivenUp ==
    \A e \in Ends : []<>(DOMAIN pending[e] = {} \/ run[e] # "ticking")

(***************************************************************************)
(* CheckRetransmit "Returns false if retransmission limit exceeded (tunnel *)
(* dead)" (control.go): giving up a tunnel ends its Run goroutine, it does *)
(* not end the process.                                                    *)
(***************************************************************************)
GivingUpIsNotFatal == \A e \in Ends : run[e] # "crashed"
=============================================================================
