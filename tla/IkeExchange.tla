---------------------------- MODULE IkeExchange -----------------------------
(***************************************************************************)
(* One direction of a session: requests kept by a Retransmitter until they *)
(* are answered, a network that loses and repeats datagrams and delivers   *)
(* them in any order, and the receiving end, whose read loops reassemble   *)
(* the fragmented requests and answer dead peer detection at once.  No     *)
(* caller of these parts exists in the repository but the construction of  *)
(* the FragmentManager; the sender's use of Start, Stop and StopAll is     *)
(* that of their comments.  Another implementation may repeat a request in *)
(* fragments of another size (RFC 7383).                                   *)
(***************************************************************************)
EXTENDS Retransmitter, FragmentReassembly

CONSTANTS
    Scenarios, \* the requests of a session: message ID to the fragment counts it is sent
               \* in, <<0>> for an R-U-THERE
    MaxFaults  \* bound: datagrams lost and repeated

ASSUME MaxFaultsAssumption == MaxFaults \in 0 .. MaxRetries
ASSUME ScenariosAssumption ==
    \A s \in Scenarios :
        /\ DOMAIN s \subseteq MsgIDs
        /\ \A m \in DOMAIN s : s[m] \in Seq(Nat) /\ (s[m] = <<0>> \/ m \in FragIDs)

VARIABLES
    scenario,  \* the requests of this behaviour
    unsent,    \* those not sent yet
    closed,    \* the session is closed
    torn,      \* timeoutFunc has been called
    sent,      \* times each request was given to the network
    net,       \* datagrams on their way: how many of each
    answers,   \* message IDs of responses on their way
    delivered, \* messages reassembled: ID and plaintext
    faults     \* faults so far

senderVars == <<scenario, unsent, closed, torn, sent>>
vars == <<retransmitVars, fragmentVars, senderVars, net, answers, delivered, faults>>

Datagram(m, num, total) == [id |-> m, num |-> num, total |-> total]
Datagrams == UNION {UNION {{Datagram(m, i, scenario[m][k]) :
                               i \in IF scenario[m][k] = 0 THEN {0} ELSE 1 .. scenario[m][k]}
                           : k \in DOMAIN scenario[m]} : m \in DOMAIN scenario}

\* FragmentSKPayload: every fragment of the message, or the message itself.
FragmentSKPayload(m, total) == {d \in Datagrams : d.id = m /\ d.total = total}

Transmit(m, total) ==
    net' = [d \in Datagrams |-> IF d \in FragmentSKPayload(m, total) THEN net[d] + 1 ELSE net[d]]

-----------------------------------------------------------------------------

Send(m) ==
    /\ m \in unsent /\ Len(scenario[m]) = 1 /\ ~closed
    /\ unsent' = unsent \ {m}
    /\ sent' = [sent EXCEPT ![m] = @ + 1]
    /\ Transmit(m, scenario[m][1])
    /\ Start(m)
    /\ UNCHANGED <<scenario, closed, torn, answers, delivered, fragmentVars, faults>>

Resend(m) ==
    /\ sendFunc(m)
    /\ sent' = [sent EXCEPT ![m] = @ + 1]
    /\ Transmit(m, scenario[m][1])
    /\ UNCHANGED <<scenario, unsent, closed, torn, answers, delivered, fragmentVars, faults>>

\* Nothing tracks such a request here: a Retransmitter repeats one set of datagrams.
Refragment(m) ==
    /\ m \in unsent /\ Len(scenario[m]) > 1
    /\ unsent' = unsent \ {m}
    /\ net' = [d \in Datagrams |-> IF d.id = m THEN net[d] + 1 ELSE net[d]]
    /\ UNCHANGED <<retransmitVars, scenario, closed, torn, sent, answers, delivered, fragmentVars, faults>>

\* A response stops the retransmission, whoever has the answer to what.
Response(m) ==
    /\ m \in answers
    /\ answers' = answers \ {m}
    /\ Stop(m)
    /\ UNCHANGED <<senderVars, net, delivered, fragmentVars, faults>>

Timer(m) ==
    /\ Expire(m) \/ handleTimeout(m)
    /\ UNCHANGED <<senderVars, net, answers, delivered, fragmentVars, faults>>

\* The session is torn down, by timeoutFunc or for another reason.
TearDown ==
    /\ timeoutFunc /\ StopAll
    /\ torn' = TRUE /\ closed' = TRUE
    /\ UNCHANGED <<scenario, unsent, sent, net, answers, delivered, fragmentVars, faults>>
Close ==
    /\ ~closed /\ unsent = {}
    /\ faults < MaxFaults /\ faults' = faults + 1
    /\ StopAll /\ UNCHANGED giveUps
    /\ closed' = TRUE
    /\ UNCHANGED <<scenario, unsent, torn, sent, net, answers, delivered, fragmentVars>>

-----------------------------------------------------------------------------

\* HandleDPDNotify: an R-U-THERE is answered with its own message ID and sequence number.
HandleDPDNotify(d) == {d.id}

Take(l, d, copy) ==
    /\ loops[l] = Idle /\ net[d] > 0
    /\ net' = IF copy THEN net ELSE [net EXCEPT ![d] = @ - 1]
    /\ IF d.total = 0
       THEN answers' = answers \cup HandleDPDNotify(d) /\ UNCHANGED loops
       ELSE loops' = [loops EXCEPT ![l] = [pc |-> "get", frag |-> d]] /\ UNCHANGED answers
    /\ UNCHANGED <<retransmitVars, senderVars, caches, objects, delivered>>

Receive == \E l \in Loops, d \in Datagrams : Take(l, d, FALSE) /\ UNCHANGED faults

ReassembleFragment(l) ==
    /\ \/ GetOrCreate(l) /\ UNCHANGED <<answers, delivered>>
       \/ Add(l) /\ UNCHANGED <<answers, delivered>>
       \/ Reassemble(l) /\ UNCHANGED <<answers, delivered>>
       \/ /\ Remove(l)
          /\ IF loops[l].plaintext = <<>> THEN UNCHANGED <<answers, delivered>>
             ELSE /\ delivered' = delivered \cup {[id |-> loops[l].frag.id, plaintext |-> loops[l].plaintext]}
                  /\ answers' = answers \cup {loops[l].frag.id}
    /\ UNCHANGED <<retransmitVars, senderVars, net, faults>>

Fault ==
    /\ faults < MaxFaults /\ faults' = faults + 1
    /\ \/ \E d \in Datagrams :
             net[d] > 0 /\ net' = [net EXCEPT ![d] = @ - 1] /\ UNCHANGED answers
       \/ \E m \in answers : answers' = answers \ {m} /\ UNCHANGED net
    /\ UNCHANGED <<retransmitVars, fragmentVars, senderVars, delivered>>
Repeat ==
    /\ faults < MaxFaults /\ faults' = faults + 1
    /\ \E l \in Loops, d \in Datagrams : Take(l, d, TRUE)

Init ==
    /\ NewRetransmitter /\ NewFragmentManager /\ loops = [l \in Loops |-> Idle]
    /\ scenario \in Scenarios /\ unsent = DOMAIN scenario
    /\ closed = FALSE /\ torn = FALSE
    /\ sent = [m \in MsgIDs |-> 0]
    /\ net = [d \in Datagrams |-> 0] /\ answers = {} /\ delivered = {}
    /\ faults = 0

(***************************************************************************)
(* Somebody goes on: a request is sent, a timer expires or its goroutine   *)
(* gets the lock, a datagram or a response is received.                    *)
(***************************************************************************)
Progress ==
    \/ \E m \in MsgIDs : Send(m) \/ Refragment(m) \/ Resend(m) \/ Response(m) \/ Timer(m)
    \/ TearDown \/ Receive
    \/ \E l \in Loops : ReassembleFragment(l)

Next == Progress \/ Fault \/ Repeat \/ Close

Spec == Init /\ [][Next]_vars /\ WF_vars(Progress)

-----------------------------------------------------------------------------

TypeOK ==
    /\ RetransmitTypeOK /\ FragmentTypeOK
    /\ scenario \in Scenarios /\ unsent \subseteq DOMAIN scenario
    /\ closed \in BOOLEAN /\ torn \in BOOLEAN
    /\ sent \in [MsgIDs -> 0 .. MaxRetries + 1]
    /\ net \in [Datagrams -> Nat] /\ answers \subseteq MsgIDs
    /\ faults \in 0 .. MaxFaults

(***************************************************************************)
(* What ReassembleFragment returns is a message as it was fragmented, each *)
(* fragment in its place and none of another fragmentation of the same     *)
(* message, however read loops share caches or hold removed ones.          *)
(***************************************************************************)
DeliveredIntact ==
    \A msg \in delivered :
        \E k \in DOMAIN scenario[msg.id] :
            msg.plaintext = [i \in 1 .. scenario[msg.id][k] |-> <<scenario[msg.id][k], i>>]

(***************************************************************************)
(* The session is given up only for a request that has been sent, or is    *)
(* just being sent, MaxRetries times after the first; and none is ever     *)
(* sent more often, though goroutines send after they release the lock and *)
(* expired timers may outlive their requests.                              *)
(***************************************************************************)
GivesUpLast ==
    /\ \A m \in MsgIDs : sent[m] + due[m] <= MaxRetries + 1
    /\ torn \/ giveUps > 0 =>
          \E m \in MsgIDs \ DOMAIN pending : sent[m] + due[m] = MaxRetries + 1

(***************************************************************************)
(* With fewer faults than transmissions every fragmented request arrives,  *)
(* reassembled by one of the read loops, also when the sender gives up     *)
(* before the answer is back: no fragment may be lost in a cache that      *)
(* nobody completes.  Excepted are a session closed for another reason,    *)
(* which stops the retransmission, and a request that is repeated in       *)
(* fragments of another size.  And in the end no request is tracked any    *)
(* more: each was answered or given up.                                    *)
(***************************************************************************)
ExchangeSettles ==
    /\ <>[](DOMAIN pending = {})
    /\ \A m \in FragIDs :
          m \in DOMAIN scenario /\ Len(scenario[m]) = 1
              => <>((closed /\ ~ torn) \/ \E msg \in delivered : msg.id = m)
=============================================================================
