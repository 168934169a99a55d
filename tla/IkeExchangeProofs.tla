------------------------- MODULE IkeExchangeProofs --------------------------
(***************************************************************************)
(* The retransmitter and the fragment caches, for every set of requests,   *)
(* fragment counts, retry limit and number of read loops.                  *)
(*                                                                         *)
(* GivesUpLast rests on the bookkeeping between the lock and the network:  *)
(* what was sent and what goroutines are about to send is what the request *)
(* has counted (Counted).  DeliveredIntact rests on a cache holding pieces *)
(* of one fragmentation only (CachesPure), of the one message that the map *)
(* and the read loops use it for (CachesApart).                            *)
(***************************************************************************)
EXTENDS IkeExchange, SequenceTheorems, TLAPS

\* What was sent of a request, or is about to be, is what it has counted.
Counted ==
    \A m \in MsgIDs :
        /\ m \in unsent => m \notin DOMAIN pending /\ sent[m] + due[m] = 0
        /\ m \in DOMAIN pending => sent[m] + due[m] = pending[m].retries + 1

RequestsOK == scenario \in Scenarios /\ unsent \subseteq DOMAIN scenario

SenderInv ==
    /\ RequestsOK
    /\ RetransmitTypeOK
    /\ closed \in BOOLEAN /\ torn \in BOOLEAN
    /\ sent \in [MsgIDs -> Nat]
    /\ Counted
    /\ GivesUpLast

-----------------------------------------------------------------------------

Fragments == {d \in Datagrams : d.total # 0}
Whole(total) == [i \in 1 .. total |-> <<total, i>>]
Totals(id) == {scenario[id][k] : k \in DOMAIN scenario[id]}

\* What a read loop has in hand.
HasNothing(l) == loops[l] = Idle
HasFragment(l) == \E d \in Fragments : loops[l] = [pc |-> "get", frag |-> d]
HasCache(l) ==
    \E d \in Fragments, o \in DOMAIN objects, pc \in {"add", "reassemble"} :
        loops[l] = [pc |-> pc, frag |-> d, cache |-> o]
HasMessage(l) ==
    \E d \in Fragments : \E p \in {<<>>} \cup {Whole(t) : t \in Totals(d.id)} :
        loops[l] = [pc |-> "remove", frag |-> d, plaintext |-> p]

LoopsOK ==
    /\ loops = [l \in Loops |-> loops[l]]
    /\ \A l \in Loops : HasNothing(l) \/ HasFragment(l) \/ HasCache(l) \/ HasMessage(l)

Holds(l, o) == loops[l].pc \in {"add", "reassemble"} /\ loops[l].cache = o

\* A cache holds fragments of one fragmentation, each in its place.
Cache(total, nums) == [total |-> total, fragments |-> [k \in nums |-> <<total, k>>]]
PureCache(fc) ==
    /\ fc.total \in Nat /\ DOMAIN fc.fragments \subseteq 1 .. fc.total
    /\ fc = Cache(fc.total, DOMAIN fc.fragments)
CachesPure ==
    /\ objects \in Seq({objects[o] : o \in DOMAIN objects})
    /\ \A o \in DOMAIN objects : PureCache(objects[o])

\* A cache in use belongs to one message, and has a fragment count of that message.
MapTotals ==
    \A id \in FragIDs : caches[id] # 0 => objects[caches[id]].total \in {0} \cup Totals(id)
LoopTotals ==
    \A o \in DOMAIN objects, l \in Loops :
        Holds(l, o) => objects[o].total \in {0} \cup Totals(loops[l].frag.id)
MapApart == \A id1, id2 \in FragIDs : caches[id1] # 0 /\ caches[id1] = caches[id2] => id1 = id2
LoopsOnMap ==
    \A l \in Loops, id \in FragIDs :
        caches[id] # 0 /\ Holds(l, caches[id]) => loops[l].frag.id = id
LoopsApart ==
    \A o \in DOMAIN objects, l1, l2 \in Loops :
        Holds(l1, o) /\ Holds(l2, o) => loops[l1].frag.id = loops[l2].frag.id
CachesApart == MapTotals /\ LoopTotals /\ MapApart /\ LoopsOnMap /\ LoopsApart

ReceiverInv ==
    /\ RequestsOK
    /\ caches \in [FragIDs -> 0 .. Len(objects)]
    /\ LoopsOK
    /\ CachesPure
    /\ CachesApart
    /\ DeliveredIntact

WireInv == net \in [Datagrams -> Nat] /\ answers \subseteq MsgIDs /\ faults \in 0 .. MaxFaults

IInv == SenderInv /\ ReceiverInv /\ WireInv
-----------------------------------------------------------------------------

\* Facts about the requests, which no step changes.
LEMMA RequestFacts ==
    ASSUME RequestsOK
    PROVE  /\ DOMAIN scenario \subseteq MsgIDs
           /\ \A m \in DOMAIN scenario : scenario[m] \in Seq(Nat)
           /\ \A m \in DOMAIN scenario : scenario[m] = <<0>> \/ m \in FragIDs
           /\ unsent \subseteq MsgIDs
  BY ScenariosAssumption DEF RequestsOK

\* The limits of the retransmitter are numbers.
LEMMA RetriesType == MaxRetries \in Nat /\ InitialInterval \in Nat /\ MaxInterval \in Nat
                     /\ InitialInterval <= MaxInterval /\ InitialInterval > 0
  BY RetransmitConfigAssumption

RequestOK(req) ==
    /\ req.retries \in 0 .. MaxRetries
    /\ req.interval \in InitialInterval .. MaxInterval
    /\ req.armed \in BOOLEAN

\* Every tracked request is well formed.
LEMMA RequestTypes ==
    ASSUME SenderInv
    PROVE  \A k \in DOMAIN pending : RequestOK(pending[k])
  BY DEF SenderInv, RetransmitTypeOK, RequestOK

\* The sender's invariant survives a step that leaves the sender alone.
LEMMA SenderIdle ==
    ASSUME SenderInv, UNCHANGED <<retransmitVars, senderVars>>
    PROVE  SenderInv'
  <1> USE DEF SenderInv, retransmitVars, senderVars
  <1>1. RequestsOK' BY DEF RequestsOK
  <1>2. RetransmitTypeOK' BY DEF RetransmitTypeOK
  <1>3. Counted' BY DEF Counted
  <1>4. GivesUpLast' BY DEF GivesUpLast
  <1> QED BY <1>1, <1>2, <1>3, <1>4

\* Send: the request is counted from its first transmission.
LEMMA SendKeeps ==
    ASSUME SenderInv, NEW m \in MsgIDs, Send(m)
    PROVE  SenderInv'
  <1> USE DEF SenderInv
  <1>1. /\ m \in unsent /\ unsent' = unsent \ {m} /\ scenario' = scenario
        /\ closed' = closed /\ torn' = torn
        /\ sent' = [sent EXCEPT ![m] = @ + 1]
        /\ fired' = fired /\ due' = due /\ giveUps' = giveUps
    BY DEF Send, Start
  <1>2. m \notin DOMAIN pending /\ sent[m] + due[m] = 0
    BY <1>1 DEF Counted
  <1>3. pending' = [k \in DOMAIN pending \cup {m} |-> IF k = m THEN PendingRequest ELSE pending[k]]
    BY <1>2 DEF Send, Start
  <1>4. sent[m] = 0 /\ due[m] = 0 /\ sent \in [MsgIDs -> Nat] /\ due \in [MsgIDs -> Nat]
    BY <1>2 DEF RetransmitTypeOK
  <1>5. RequestsOK' BY <1>1 DEF RequestsOK
  <1>6. RetransmitTypeOK'
    <2>1. RequestOK(PendingRequest)
      BY RetriesType DEF RequestOK, PendingRequest
    <2>2. \A k \in DOMAIN pending' : RequestOK(pending'[k])
      BY <1>3, <2>1, RequestTypes
    <2>3. DOMAIN pending' \subseteq MsgIDs
      BY <1>3 DEF RetransmitTypeOK
    <2> QED BY <1>1, <2>2, <2>3 DEF RetransmitTypeOK, RequestOK
  <1>7. sent' \in [MsgIDs -> Nat] BY <1>1
  <1>8. Counted'
    <2> SUFFICES ASSUME NEW k \in MsgIDs
                 PROVE  /\ k \in unsent' => k \notin DOMAIN pending' /\ sent'[k] + due'[k] = 0
                        /\ k \in DOMAIN pending' => sent'[k] + due'[k] = pending'[k].retries + 1
      BY DEF Counted
    <2>1. CASE k = m BY <2>1, <1>1, <1>3, <1>4 DEF PendingRequest
    <2>2. CASE k # m BY <2>2, <1>1, <1>3, <1>4 DEF Counted
    <2> QED BY <2>1, <2>2
  <1>9. GivesUpLast'
    <2>1. \A k \in MsgIDs : sent'[k] + due'[k] <= MaxRetries + 1
      BY <1>1, <1>4, RetriesType DEF GivesUpLast
    <2>2. ASSUME torn' \/ giveUps' > 0
          PROVE  \E k \in MsgIDs \ DOMAIN pending' : sent'[k] + due'[k] = MaxRetries + 1
      <3>1. PICK k \in MsgIDs \ DOMAIN pending : sent[k] + due[k] = MaxRetries + 1
        BY <2>2, <1>1 DEF GivesUpLast
      <3>2. k # m BY <3>1, <1>4, RetriesType
      <3> QED BY <3>1, <3>2, <1>1, <1>3, <1>4
    <2> QED BY <2>1, <2>2 DEF GivesUpLast
  <1> QED BY <1>1, <1>5, <1>6, <1>7, <1>8, <1>9

\* Resend: what a goroutine was about to send has been sent.
LEMMA ResendKeeps ==
    ASSUME SenderInv, NEW m \in MsgIDs, Resend(m)
    PROVE  SenderInv'
  <1> USE DEF SenderInv
  <1>1. /\ due[m] > 0 /\ due' = [due EXCEPT ![m] = @ - 1]
        /\ sent' = [sent EXCEPT ![m] = @ + 1]
        /\ pending' = pending /\ fired' = fired /\ giveUps' = giveUps
        /\ unsent' = unsent /\ scenario' = scenario /\ closed' = closed /\ torn' = torn
    BY DEF Resend, sendFunc
  <1>2. sent \in [MsgIDs -> Nat] /\ due \in [MsgIDs -> Nat]
    BY DEF RetransmitTypeOK
  <1>3. sent' \in [MsgIDs -> Nat] /\ due' \in [MsgIDs -> Nat]
    BY <1>1, <1>2
  <1>4. \A k \in MsgIDs : sent'[k] + due'[k] = sent[k] + due[k]
    BY <1>1, <1>2
  <1>5. RequestsOK' BY <1>1 DEF RequestsOK
  <1>6. RetransmitTypeOK' BY <1>1, <1>3 DEF RetransmitTypeOK
  <1>7. Counted' BY <1>1, <1>4 DEF Counted
  <1>8. GivesUpLast' BY <1>1, <1>4 DEF GivesUpLast
  <1> QED BY <1>1, <1>3, <1>5, <1>6, <1>7, <1>8

\* A request leaves the table, or all do: it keeps its count.
LEMMA DropKeeps ==
    ASSUME SenderInv, RetransmitTypeOK',
           DOMAIN pending' \subseteq DOMAIN pending,
           \A k \in DOMAIN pending' : pending'[k].retries = pending[k].retries,
           UNCHANGED <<scenario, unsent, sent, due>>,
           closed' \in BOOLEAN, torn' \in BOOLEAN,
           torn' \/ giveUps' > 0 => torn \/ giveUps > 0
    PROVE  SenderInv'
  <1> USE DEF SenderInv
  <1>1. RequestsOK' BY DEF RequestsOK
  <1>2. Counted' BY DEF Counted
  <1>3. GivesUpLast' BY DEF GivesUpLast
  <1> QED BY <1>1, <1>2, <1>3

\* Sending a message in fragments of another size leaves the timers alone.
LEMMA RefragmentKeeps ==
    ASSUME SenderInv, NEW m \in MsgIDs, Refragment(m)
    PROVE  SenderInv'
  <1> USE DEF SenderInv
  <1>1. /\ unsent' = unsent \ {m} /\ scenario' = scenario /\ sent' = sent
        /\ closed' = closed /\ torn' = torn
        /\ pending' = pending /\ fired' = fired /\ due' = due /\ giveUps' = giveUps
    BY DEF Refragment, retransmitVars
  <1>2. RequestsOK' BY <1>1 DEF RequestsOK
  <1>3. RetransmitTypeOK' BY <1>1 DEF RetransmitTypeOK
  <1>4. Counted' BY <1>1 DEF Counted
  <1>5. GivesUpLast' BY <1>1 DEF GivesUpLast
  <1> QED BY <1>1, <1>2, <1>3, <1>4, <1>5

\* Stop removes the request, its goroutines that already run excepted.
LEMMA ResponseKeeps ==
    ASSUME SenderInv, NEW m \in MsgIDs, Response(m)
    PROVE  SenderInv'
  <1> USE DEF SenderInv
  <1>1. /\ pending' = [k \in DOMAIN pending \ {m} |-> pending[k]]
        /\ fired' = fired /\ due' = due /\ giveUps' = giveUps
        /\ unsent' = unsent /\ scenario' = scenario /\ sent' = sent
        /\ closed' = closed /\ torn' = torn
    BY DEF Response, Stop, senderVars, Restrict
  <1>2. RetransmitTypeOK' BY <1>1 DEF RetransmitTypeOK
  <1> QED BY <1>1, <1>2, DropKeeps

\* The timeout function ends the exchange on behalf of one goroutine that gave up.
LEMMA TearDownKeeps ==
    ASSUME SenderInv, TearDown
    PROVE  SenderInv'
  <1> USE DEF SenderInv
  <1>1. /\ pending' = <<>> /\ DOMAIN pending' = {}
        /\ fired' = fired /\ due' = due /\ giveUps > 0 /\ giveUps' = giveUps - 1
        /\ unsent' = unsent /\ scenario' = scenario /\ sent' = sent
        /\ closed' = TRUE /\ torn' = TRUE
    BY DEF TearDown, StopAll, timeoutFunc
  <1>2. RetransmitTypeOK' BY <1>1 DEF RetransmitTypeOK
  <1>3. DOMAIN pending' \subseteq DOMAIN pending BY <1>1
  <1>4. \A k \in DOMAIN pending' : pending'[k].retries = pending[k].retries BY <1>1
  <1> QED BY <1>1, <1>2, <1>3, <1>4, DropKeeps

\* StopAll removes every request.
LEMMA CloseKeeps ==
    ASSUME SenderInv, Close
    PROVE  SenderInv'
  <1> USE DEF SenderInv
  <1>1. /\ pending' = <<>> /\ DOMAIN pending' = {}
        /\ fired' = fired /\ due' = due /\ giveUps' = giveUps
        /\ unsent' = unsent /\ scenario' = scenario /\ sent' = sent
        /\ closed' = TRUE /\ torn' = torn
    BY DEF Close, StopAll
  <1>2. RetransmitTypeOK' BY <1>1 DEF RetransmitTypeOK
  <1>3. DOMAIN pending' \subseteq DOMAIN pending BY <1>1
  <1>4. \A k \in DOMAIN pending' : pending'[k].retries = pending[k].retries BY <1>1
  <1> QED BY <1>1, <1>2, <1>3, <1>4, DropKeeps

\* A timer expires, or the goroutine of one gets the lock.
LEMMA TimerKeeps ==
    ASSUME SenderInv, NEW m \in MsgIDs, Timer(m)
    PROVE  SenderInv'
  <1> USE DEF SenderInv
  <1>1. /\ unsent' = unsent /\ scenario' = scenario /\ sent' = sent
        /\ closed' = closed /\ torn' = torn
    BY DEF Timer, senderVars
  <1>2. /\ sent \in [MsgIDs -> Nat] /\ due \in [MsgIDs -> Nat] /\ fired \in [MsgIDs -> Nat]
        /\ giveUps \in Nat
        /\ \A k \in DOMAIN pending :
              /\ pending[k].retries \in 0 .. MaxRetries
              /\ pending[k].interval \in InitialInterval .. MaxInterval
    BY DEF RetransmitTypeOK
  <1>3. CASE Expire(m)
    <2>1. /\ m \in DOMAIN pending
          /\ pending' = [pending EXCEPT ![m].armed = FALSE]
          /\ fired' = [fired EXCEPT ![m] = @ + 1]
          /\ due' = due /\ giveUps' = giveUps
      BY <1>3 DEF Expire
    <2>2. RetransmitTypeOK'
      <3>1. \A k \in DOMAIN pending' :
              /\ pending'[k].retries = pending[k].retries
              /\ pending'[k].interval = pending[k].interval
              /\ pending'[k].armed = FALSE \/ pending'[k] = pending[k]
        BY <2>1
      <3>2. DOMAIN pending' = DOMAIN pending
        BY <2>1
      <3>3. \A k \in DOMAIN pending' : RequestOK(pending'[k])
        BY <3>1, <3>2, RequestTypes DEF RequestOK
      <3>4. fired' \in [MsgIDs -> Nat]
        BY <1>2, <2>1
      <3> QED BY <2>1, <3>2, <3>3, <3>4 DEF RetransmitTypeOK, RequestOK
    <2>3. \A k \in DOMAIN pending' : pending'[k].retries = pending[k].retries BY <2>1
    <2> QED BY <1>1, <2>1, <2>2, <2>3, DropKeeps
  <1>4. CASE handleTimeout(m) /\ m \notin DOMAIN pending
    <2>1. /\ fired[m] > 0 /\ fired' = [fired EXCEPT ![m] = @ - 1]
          /\ pending' = pending /\ due' = due /\ giveUps' = giveUps
      BY <1>4 DEF handleTimeout
    <2>2. RetransmitTypeOK' BY <1>2, <2>1 DEF RetransmitTypeOK
    <2> QED BY <1>1, <2>1, <2>2, DropKeeps
  <1>5. CASE handleTimeout(m) /\ m \in DOMAIN pending /\ exhausted(pending[m])
    <2>1. /\ fired[m] > 0 /\ fired' = [fired EXCEPT ![m] = @ - 1]
          /\ pending' = [k \in DOMAIN pending \ {m} |-> pending[k]]
          /\ due' = due /\ giveUps' = giveUps + 1
      BY <1>5 DEF handleTimeout, Restrict
    <2>2. pending[m].retries = MaxRetries
      BY <1>2, <1>5, RetriesType DEF exhausted
    <2>3. sent[m] + due[m] = MaxRetries + 1
      BY <2>2, <1>5 DEF Counted
    <2>4. RetransmitTypeOK' BY <1>2, <2>1 DEF RetransmitTypeOK
    <2>5. RequestsOK' BY <1>1 DEF RequestsOK
    <2>6. Counted' BY <1>1, <2>1 DEF Counted
    <2>7. m \in MsgIDs \ DOMAIN pending' BY <2>1
    <2>8. GivesUpLast' BY <1>1, <2>1, <2>3, <2>7 DEF GivesUpLast
    <2> QED BY <1>1, <2>4, <2>5, <2>6, <2>8
  <1>6. CASE handleTimeout(m) /\ m \in DOMAIN pending /\ ~exhausted(pending[m])
    <2>1. /\ fired[m] > 0 /\ fired' = [fired EXCEPT ![m] = @ - 1]
          /\ pending' = [pending EXCEPT ![m] = backoff(pending[m])]
          /\ due' = [due EXCEPT ![m] = @ + 1] /\ giveUps' = giveUps
      BY <1>6 DEF handleTimeout
    <2>2. /\ backoff(pending[m]).retries = pending[m].retries + 1
          /\ backoff(pending[m]).armed = TRUE
          /\ backoff(pending[m]).interval \in InitialInterval .. MaxInterval
          /\ pending[m].retries + 1 <= MaxRetries
      BY <1>2, <1>6, RetriesType DEF backoff, exhausted
    <2>3. sent[m] + due[m] = pending[m].retries + 1
      BY <1>6 DEF Counted
    <2>4. RetransmitTypeOK'
      <3>1. RequestOK(backoff(pending[m]))
        <4>1. backoff(pending[m]).retries \in 0 .. MaxRetries
          BY <1>2, <1>6, <2>2, RetriesType
        <4>2. backoff(pending[m]).armed \in BOOLEAN
          BY <2>2, Zenon
        <4> QED BY <2>2, <4>1, <4>2, Zenon DEF RequestOK
      <3>2. \A k \in DOMAIN pending' : RequestOK(pending'[k])
        BY <2>1, <3>1, RequestTypes
      <3>3. DOMAIN pending' = DOMAIN pending
        BY <2>1
      <3>4. fired' \in [MsgIDs -> Nat] /\ due' \in [MsgIDs -> Nat]
        BY <1>2, <2>1
      <3> QED BY <2>1, <3>2, <3>3, <3>4 DEF RetransmitTypeOK, RequestOK
    <2>5. RequestsOK' BY <1>1 DEF RequestsOK
    <2>6. m \notin unsent BY <1>6 DEF Counted
    <2>7. Counted'
      <3> SUFFICES ASSUME NEW k \in MsgIDs
                   PROVE  /\ k \in unsent' => k \notin DOMAIN pending' /\ sent'[k] + due'[k] = 0
                          /\ k \in DOMAIN pending' => sent'[k] + due'[k] = pending'[k].retries + 1
        BY DEF Counted
      <3>1. CASE k = m BY <3>1, <1>1, <1>2, <1>6, <2>1, <2>2, <2>3, <2>6
      <3>2. CASE k # m BY <3>2, <1>1, <1>2, <2>1 DEF Counted
      <3> QED BY <3>1, <3>2
    <2>8. \A k \in MsgIDs : sent'[k] + due'[k] <= MaxRetries + 1
      BY <1>1, <1>2, <2>1, <2>2, <2>3, RetriesType DEF GivesUpLast
    <2>9. ASSUME torn' \/ giveUps' > 0
          PROVE  \E k \in MsgIDs \ DOMAIN pending' : sent'[k] + due'[k] = MaxRetries + 1
      <3>1. PICK k \in MsgIDs \ DOMAIN pending : sent[k] + due[k] = MaxRetries + 1
        BY <2>9, <1>1, <2>1 DEF GivesUpLast
      <3>2. k # m BY <3>1, <1>6
      <3> QED BY <3>1, <3>2, <1>1, <1>2, <2>1
    <2>10. GivesUpLast' BY <2>8, <2>9 DEF GivesUpLast
    <2> QED BY <1>1, <2>4, <2>5, <2>7, <2>10
  <1> QED BY <1>3, <1>4, <1>5, <1>6 DEF Timer

\* Every step keeps the invariant of the retransmitter.
LEMMA SenderStep ==
    ASSUME SenderInv, [Next]_vars
    PROVE  SenderInv'
  <1>1. CASE \E m \in MsgIDs : Send(m) BY <1>1, SendKeeps
  <1>2. CASE \E m \in MsgIDs : Refragment(m) BY <1>2, RefragmentKeeps
  <1>3. CASE \E m \in MsgIDs : Resend(m) BY <1>3, ResendKeeps
  <1>4. CASE \E m \in MsgIDs : Response(m) BY <1>4, ResponseKeeps
  <1>5. CASE \E m \in MsgIDs : Timer(m) BY <1>5, TimerKeeps
  <1>6. CASE TearDown BY <1>6, TearDownKeeps
  <1>7. CASE Close BY <1>7, CloseKeeps
  <1>8. CASE Receive BY <1>8, SenderIdle DEF Receive, Take
  <1>9. CASE \E l \in Loops : ReassembleFragment(l) BY <1>9, SenderIdle DEF ReassembleFragment
  <1>10. CASE Fault BY <1>10, SenderIdle DEF Fault
  <1>11. CASE Repeat BY <1>11, SenderIdle DEF Repeat, Take
  <1>12. CASE UNCHANGED vars BY <1>12, SenderIdle DEF vars
  <1> QED
    BY <1>1, <1>2, <1>3, <1>4, <1>5, <1>6, <1>7, <1>8, <1>9, <1>10, <1>11, <1>12 DEF Next, Progress
-----------------------------------------------------------------------------

\* The requests are fixed, and so is what can be on the wire.
LEMMA SameRequests ==
    ASSUME scenario' = scenario
    PROVE  Datagrams' = Datagrams /\ Fragments' = Fragments /\ \A id : Totals(id)' = Totals(id)
  BY DEF Datagrams, Fragments, Totals

\* Every step leaves the requests alone but for those it sends.
LEMMA RequestsStep ==
    ASSUME RequestsOK, [Next]_vars
    PROVE  RequestsOK' /\ scenario' = scenario
  <1>1. scenario' = scenario /\ unsent' \subseteq unsent
    BY DEF Next, Progress, Send, Refragment, Resend, Response, Timer, TearDown, Receive, Take,
           ReassembleFragment, Fault, Repeat, Close, vars, senderVars
  <1> QED BY <1>1 DEF RequestsOK

\* A fragment has its place in a fragmentation of its message.
LEMMA FragmentFacts ==
    ASSUME RequestsOK, NEW d \in Fragments
    PROVE  /\ d.id \in FragIDs /\ d.id \in MsgIDs
           /\ d.total \in Nat \ {0} /\ d.num \in 1 .. d.total
           /\ d.total \in Totals(d.id)
  <1>1. PICK m \in DOMAIN scenario : \E k \in DOMAIN scenario[m] :
            \E i \in IF scenario[m][k] = 0 THEN {0} ELSE 1 .. scenario[m][k] :
                d = Datagram(m, i, scenario[m][k])
    BY DEF Fragments, Datagrams
  <1>2. PICK k \in DOMAIN scenario[m] :
            \E i \in IF scenario[m][k] = 0 THEN {0} ELSE 1 .. scenario[m][k] :
                d = Datagram(m, i, scenario[m][k])
    BY <1>1
  <1>3. PICK i \in IF scenario[m][k] = 0 THEN {0} ELSE 1 .. scenario[m][k] :
                d = Datagram(m, i, scenario[m][k])
    BY <1>2
  <1>4. d.id = m /\ d.num = i /\ d.total = scenario[m][k] /\ d.total # 0
    BY <1>3 DEF Datagram, Fragments
  <1>5. scenario[m] \in Seq(Nat) /\ scenario[m][k] \in Nat
    BY RequestFacts
  <1>6. m \in FragIDs
    BY <1>4, <1>5, RequestFacts
  <1> QED BY <1>3, <1>4, <1>5, <1>6, RequestFacts DEF Totals

\* The receiver's invariant survives a step that leaves the receiver alone.
LEMMA ReceiverIdle ==
    ASSUME ReceiverInv, RequestsOK', UNCHANGED <<fragmentVars, scenario, delivered>>
    PROVE  ReceiverInv'
  <1> USE DEF ReceiverInv, fragmentVars
  <1>1. Fragments' = Fragments /\ \A id : Totals(id)' = Totals(id)
    BY SameRequests
  <1>2. LoopsOK' BY <1>1 DEF LoopsOK, HasNothing, HasFragment, HasCache, HasMessage
  <1>3. CachesPure' BY DEF CachesPure
  <1>4. CachesApart'
    BY <1>1 DEF CachesApart, MapTotals, LoopTotals, MapApart, LoopsOnMap, LoopsApart, Holds
  <1>5. DeliveredIntact' BY DEF DeliveredIntact
  <1> QED BY <1>2, <1>3, <1>4, <1>5

\* Take: an idle loop has a fragment in hand, or has answered an R-U-THERE.
LEMMA TakeKeeps ==
    ASSUME ReceiverInv, RequestsOK', NEW l \in Loops, NEW d \in Datagrams, NEW copy \in BOOLEAN,
           Take(l, d, copy)
    PROVE  ReceiverInv'
  <1> USE DEF ReceiverInv
  <1>1. caches' = caches /\ objects' = objects /\ delivered' = delivered /\ scenario' = scenario
    BY DEF Take, senderVars
  <1>2. Fragments' = Fragments /\ \A id : Totals(id)' = Totals(id)
    BY <1>1, SameRequests
  <1>3. CASE d.total = 0
    BY <1>1, <1>3, ReceiverIdle DEF Take, fragmentVars
  <1>4. CASE d.total # 0
    <2>1. loops' = [loops EXCEPT ![l] = [pc |-> "get", frag |-> d]]
      BY <1>4 DEF Take
    <2>2. d \in Fragments BY <1>4 DEF Fragments
    <2>3. loops' = [k \in Loops |-> IF k = l THEN [pc |-> "get", frag |-> d] ELSE loops[k]]
      BY <2>1 DEF LoopsOK
    <2>4. LoopsOK'
      BY <1>1, <1>2, <2>2, <2>3 DEF LoopsOK, HasNothing, HasFragment, HasCache, HasMessage
    <2>5. \A k \in Loops : \A o : Holds(k, o)' => k # l /\ loops'[k] = loops[k] /\ Holds(k, o)
      BY <2>3 DEF Holds
    <2>6. CachesApart'
      <3>1. MapTotals' /\ MapApart' BY <1>1, <1>2 DEF CachesApart, MapTotals, MapApart
      <3>2. LoopTotals' BY <1>1, <1>2, <2>5 DEF CachesApart, LoopTotals
      <3>3. LoopsOnMap' BY <1>1, <2>5 DEF CachesApart, LoopsOnMap
      <3>4. LoopsApart' BY <1>1, <2>5 DEF CachesApart, LoopsApart
      <3> QED BY <3>1, <3>2, <3>3, <3>4 DEF CachesApart
    <2>7. CachesPure' BY <1>1 DEF CachesPure
    <2>8. DeliveredIntact' BY <1>1 DEF DeliveredIntact
    <2> QED BY <1>1, <2>4, <2>6, <2>7, <2>8
  <1> QED BY <1>3, <1>4

\* What a loop at a step of ReassembleFragment has in hand.
LEMMA AtGet ==
    ASSUME ReceiverInv, NEW l \in Loops, loops[l].pc = "get"
    PROVE  \E d \in Fragments : loops[l] = [pc |-> "get", frag |-> d]
  BY DEF ReceiverInv, LoopsOK, HasNothing, HasFragment, HasCache, HasMessage, Idle

\* A loop between finding the cache and reassembling holds a fragment and a cache.
LEMMA AtCache ==
    ASSUME ReceiverInv, NEW l \in Loops, loops[l].pc \in {"add", "reassemble"}
    PROVE  \E d \in Fragments, o \in DOMAIN objects :
              loops[l] = [pc |-> loops[l].pc, frag |-> d, cache |-> o]
  BY DEF ReceiverInv, LoopsOK, HasNothing, HasFragment, HasCache, HasMessage, Idle

\* A loop about to remove a cache holds a fragment and the whole message, or nothing.
LEMMA AtRemove ==
    ASSUME ReceiverInv, NEW l \in Loops, loops[l].pc = "remove"
    PROVE  \E d \in Fragments : \E p \in {<<>>} \cup {Whole(t) : t \in Totals(d.id)} :
              loops[l] = [pc |-> "remove", frag |-> d, plaintext |-> p]
  BY DEF ReceiverInv, LoopsOK, HasNothing, HasFragment, HasCache, HasMessage, Idle
\* One loop goes on; what the others have in hand stays theirs.
LEMMA LoopMoves ==
    ASSUME ReceiverInv, NEW l \in Loops, NEW v, scenario' = scenario,
           DOMAIN objects \subseteq DOMAIN objects',
           loops' = [k \in Loops |-> IF k = l THEN v ELSE loops[k]],
           \/ v = Idle
           \/ \E d \in Fragments : v = [pc |-> "get", frag |-> d]
           \/ \E d \in Fragments, o \in DOMAIN objects', pc \in {"add", "reassemble"} :
                  v = [pc |-> pc, frag |-> d, cache |-> o]
           \/ \E d \in Fragments : \E p \in {<<>>} \cup {Whole(t) : t \in Totals(d.id)} :
                  v = [pc |-> "remove", frag |-> d, plaintext |-> p]
    PROVE  LoopsOK'
  <1>1. Fragments' = Fragments /\ \A x : Totals(x)' = Totals(x)
    BY SameRequests
  <1>2. ASSUME NEW k \in Loops
        PROVE  (HasNothing(k) \/ HasFragment(k) \/ HasCache(k) \/ HasMessage(k))'
    <2>1. CASE k = l
      BY <1>1, <2>1 DEF HasNothing, HasFragment, HasCache, HasMessage
    <2>2. CASE k # l
      <3>1. loops'[k] = loops[k] BY <2>2
      <3>2. HasNothing(k) => HasNothing(k)' BY <3>1 DEF HasNothing
      <3>3. HasFragment(k) => HasFragment(k)' BY <1>1, <3>1 DEF HasFragment
      <3>4. HasCache(k) => HasCache(k)' BY <1>1, <3>1 DEF HasCache
      <3>5. HasMessage(k) => HasMessage(k)' BY <1>1, <3>1 DEF HasMessage
      <3> QED BY <3>2, <3>3, <3>4, <3>5 DEF ReceiverInv, LoopsOK
    <2> QED BY <2>1, <2>2
  <1>3. loops' = [k \in Loops |-> loops'[k]] OBVIOUS
  <1> QED BY <1>2, <1>3 DEF LoopsOK

\* A loop holds only a cache that was made.
LEMMA HeldExists ==
    ASSUME ReceiverInv, NEW k \in Loops, NEW o, Holds(k, o)
    PROVE  o \in DOMAIN objects
  <1>1. PICK d \in Fragments, x \in DOMAIN objects :
            loops[k] = [pc |-> loops[k].pc, frag |-> d, cache |-> x]
    BY AtCache DEF Holds
  <1> QED BY <1>1 DEF Holds

\* GetOrCreate: the loop holds the cache of its message, or a new one nobody else has.
LEMMA GetOrCreateKeeps ==
    ASSUME ReceiverInv, RequestsOK', NEW l \in Loops, GetOrCreate(l),
           UNCHANGED <<scenario, delivered>>
    PROVE  ReceiverInv'
  <1> USE DEF ReceiverInv
  <1>1. PICK d \in Fragments : loops[l] = [pc |-> "get", frag |-> d]
    BY AtGet DEF GetOrCreate
  <1> DEFINE id == d.id
  <1>2. loops[l].frag = d /\ loops[l].frag.id = id /\ loops[l].pc = "get" /\ id \in FragIDs
    BY <1>1, FragmentFacts
  <1>3. Fragments' = Fragments /\ \A x : Totals(x)' = Totals(x)
    BY SameRequests
  <1>4. objects \in Seq({objects[o] : o \in DOMAIN objects}) /\ Len(objects) \in Nat
        /\ DOMAIN objects = 1 .. Len(objects)
    BY DEF CachesPure
  <1>5. DeliveredIntact' BY DEF DeliveredIntact
  <1>6. CASE caches[id] # 0
    <2>1. caches' = caches /\ objects' = objects
          /\ loops' = [k \in Loops |-> IF k = l THEN [pc |-> "add", frag |-> d, cache |-> caches[id]]
                                       ELSE loops[k]]
      BY <1>2, <1>6 DEF GetOrCreate, LoopsOK
    <2>2. caches[id] \in DOMAIN objects BY <1>2, <1>4, <1>6
    <2>3. LoopsOK'
      BY <1>3, <2>1, <2>2 DEF LoopsOK, HasNothing, HasFragment, HasCache, HasMessage
    <2>4. /\ \A k \in Loops : \A o : k # l => loops'[k] = loops[k] /\ (Holds(k, o)' <=> Holds(k, o))
          /\ \A o : Holds(l, o)' => o = caches[id]
          /\ loops'[l].frag.id = id
      BY <2>1 DEF Holds
    <2>5. MapTotals' /\ MapApart' BY <1>3, <2>1 DEF CachesApart, MapTotals, MapApart
    <2>6. LoopTotals'
      BY <1>2, <1>3, <1>6, <2>1, <2>4 DEF CachesApart, MapTotals, LoopTotals
    <2>7. LoopsOnMap'
      BY <1>2, <1>6, <2>1, <2>4 DEF CachesApart, MapApart, LoopsOnMap
    <2>8. LoopsApart'
      BY <1>2, <1>6, <2>1, <2>4 DEF CachesApart, LoopsOnMap, LoopsApart
    <2>9. CachesPure' BY <2>1 DEF CachesPure
    <2> QED BY <1>5, <2>1, <2>3, <2>5, <2>6, <2>7, <2>8, <2>9 DEF CachesApart
  <1>7. CASE caches[id] = 0
    <2> DEFINE n == Len(objects) + 1
    <2>1. /\ objects' = Append(objects, NewFragmentCache) /\ Len(objects') = n
          /\ DOMAIN objects' = 1 .. n
          /\ objects'[n] = NewFragmentCache
          /\ \A o \in DOMAIN objects : objects'[o] = objects[o]
      BY <1>2, <1>4, <1>7 DEF GetOrCreate
    <2>2. /\ caches' = [caches EXCEPT ![id] = n]
          /\ loops' = [k \in Loops |-> IF k = l THEN [pc |-> "add", frag |-> d, cache |-> n]
                                       ELSE loops[k]]
      BY <1>2, <1>7, <2>1 DEF GetOrCreate, LoopsOK
    <2>3. n \in DOMAIN objects' /\ DOMAIN objects \subseteq DOMAIN objects' /\ n \notin DOMAIN objects
          /\ DOMAIN objects' = DOMAIN objects \cup {n} /\ n # 0
      BY <1>4, <2>1
    <2>4. LoopsOK'
      BY <2>2, <2>3, LoopMoves
    <2>5. caches' \in [FragIDs -> 0 .. Len(objects')]
      BY <1>2, <1>4, <2>1, <2>2
    <2>6. \A k \in Loops : \A o : Holds(k, o) => o \in DOMAIN objects
      BY HeldExists
    <2>7. /\ \A k \in Loops : \A o : k # l => loops'[k] = loops[k] /\ (Holds(k, o)' <=> Holds(k, o))
          /\ \A o : Holds(l, o)' => o = n
          /\ loops'[l].frag.id = id
      BY <2>2 DEF Holds
    <2>8. /\ caches'[id] = n
          /\ \A x \in FragIDs : x # id => caches'[x] = caches[x]
          /\ \A x \in FragIDs : caches[x] # 0 => caches[x] \in DOMAIN objects
      BY <1>2, <1>4, <2>2
    <2>9. objects'[n].total = 0
      BY <2>1 DEF NewFragmentCache
    <2>10. MapTotals'
      BY <1>3, <2>1, <2>8, <2>9 DEF CachesApart, MapTotals
    <2>11. LoopTotals'
      BY <1>3, <2>1, <2>3, <2>6, <2>7, <2>9 DEF CachesApart, LoopTotals
    <2>12. MapApart' BY <2>3, <2>8 DEF CachesApart, MapApart
    <2>13. LoopsOnMap' BY <2>3, <2>6, <2>7, <2>8 DEF CachesApart, LoopsOnMap
    <2>14. LoopsApart' BY <2>3, <2>6, <2>7 DEF CachesApart, LoopsApart
    <2>15. CachesPure'
      <3>1. PureCache(NewFragmentCache)
        BY DEF PureCache, NewFragmentCache, Cache
      <3>2. \A o \in DOMAIN objects' : PureCache(objects'[o])
        BY <2>1, <2>3, <3>1 DEF CachesPure
      <3>3. objects' \in Seq({objects'[o] : o \in DOMAIN objects'})
        <4> DEFINE S == {objects'[o] : o \in DOMAIN objects'}
        <4>1. \A o \in 1 .. n : objects'[o] \in S BY <2>1
        <4>2. objects \in Seq(S)
          <5>1. \A o \in 1 .. Len(objects) : objects[o] \in S BY <1>4, <2>1, <2>3
          <5> QED BY <1>4, <5>1
        <4>3. NewFragmentCache \in S BY <2>1, <2>3
        <4> QED BY <2>1, <4>2, <4>3
      <3> QED BY <3>2, <3>3 DEF CachesPure
    <2> QED
      BY <1>5, <2>4, <2>5, <2>10, <2>11, <2>12, <2>13, <2>14, <2>15 DEF CachesApart
  <1> QED BY <1>6, <1>7

\* AddFragment keeps a cache to one fragmentation.
LEMMA AddFragmentPure ==
    ASSUME RequestsOK, NEW d \in Fragments, NEW fc, PureCache(fc)
    PROVE  /\ PureCache(AddFragment(fc, d).fc)
           /\ AddFragment(fc, d).fc.total \in {fc.total, d.total}
  <1>1. d.total \in Nat \ {0} /\ d.num \in 1 .. d.total
    BY FragmentFacts
  <1>2. CASE fc.total # 0 /\ fc.total # d.total
    BY <1>2 DEF AddFragment
  <1>3. CASE fc.total = 0 \/ fc.total = d.total
    <2> DEFINE nums == DOMAIN fc.fragments \cup {d.num}
               added == [k \in nums |-> IF k = d.num THEN <<d.total, d.num>> ELSE fc.fragments[k]]
    <2>1. AddFragment(fc, d).fc = [total |-> d.total, fragments |-> added]
      BY <1>1, <1>3 DEF AddFragment
    <2>2. fc.fragments = [k \in DOMAIN fc.fragments |-> <<fc.total, k>>]
          /\ DOMAIN fc.fragments \subseteq 1 .. fc.total /\ fc.total \in Nat
      BY DEF PureCache, Cache
    <2>3. fc.total = 0 => DOMAIN fc.fragments = {}
      BY <2>2
    <2>4. added = [k \in nums |-> <<d.total, k>>]
      BY <1>3, <2>2, <2>3
    <2>5. nums \subseteq 1 .. d.total
      BY <1>1, <1>3, <2>2, <2>3
    <2> QED BY <1>1, <2>1, <2>4, <2>5 DEF PureCache, Cache
  <1> QED BY <1>2, <1>3

\* Add: only the cache in hand changes, by a fragment of the message it is used for.
LEMMA AddKeeps ==
    ASSUME ReceiverInv, RequestsOK', NEW l \in Loops, Add(l),
           UNCHANGED <<scenario, delivered>>
    PROVE  ReceiverInv'
  <1> USE DEF ReceiverInv
  <1>1. loops[l].pc = "add" BY DEF Add
  <1>2. PICK d \in Fragments, o \in DOMAIN objects : loops[l] = [pc |-> "add", frag |-> d, cache |-> o]
    BY <1>1, AtCache
  <1> DEFINE out == AddFragment(objects[o], d)
  <1>3. Fragments' = Fragments /\ \A x : Totals(x)' = Totals(x)
    BY SameRequests
  <1>4. /\ caches' = caches
        /\ objects' = [objects EXCEPT ![o] = out.fc]
        /\ loops' = [k \in Loops |-> IF k = l
                        THEN IF out.complete THEN [pc |-> "reassemble", frag |-> d, cache |-> o] ELSE Idle
                        ELSE loops[k]]
    <2>1. loops[l].frag = d /\ loops[l].cache = o BY <1>2
    <2>2. [loops[l] EXCEPT !.pc = "reassemble"] = [pc |-> "reassemble", frag |-> d, cache |-> o]
      BY <1>2
    <2>3. loops' = [loops EXCEPT ![l] = IF out.complete THEN [loops[l] EXCEPT !.pc = "reassemble"]
                                                         ELSE Idle]
      BY <2>1 DEF Add
    <2>4. loops = [k \in Loops |-> loops[k]] BY DEF LoopsOK
    <2> HIDE DEF out
    <2>5. loops' = [k \in Loops |-> IF k = l
                        THEN IF out.complete THEN [pc |-> "reassemble", frag |-> d, cache |-> o] ELSE Idle
                        ELSE loops[k]]
      BY <2>2, <2>3, <2>4
    <2> USE DEF out
    <2> QED BY <2>1, <2>5 DEF Add
  <1>5. /\ objects \in Seq({objects[x] : x \in DOMAIN objects}) /\ Len(objects) \in Nat
        /\ DOMAIN objects = 1 .. Len(objects)
        /\ PureCache(objects[o])
    BY DEF CachesPure
  <1>6. PureCache(out.fc) /\ out.fc.total \in {objects[o].total, d.total}
    BY <1>5, AddFragmentPure
  <1>7. /\ DOMAIN objects' = DOMAIN objects
        /\ objects'[o] = out.fc
        /\ \A x \in DOMAIN objects : x # o => objects'[x] = objects[x]
    BY <1>4, <1>5
  <1>8. CachesPure'
    <2>1. \A x \in DOMAIN objects' : PureCache(objects'[x])
      BY <1>6, <1>7 DEF CachesPure
    <2> DEFINE S == {objects'[x] : x \in DOMAIN objects'}
    <2>2. \A x \in 1 .. Len(objects) : objects'[x] \in S
      BY <1>5, <1>7
    <2>3. objects' = [x \in 1 .. Len(objects) |-> objects'[x]]
      BY <1>4, <1>5
    <2>4. objects' \in [1 .. Len(objects) -> S]
      BY <2>2, <2>3
    <2> HIDE DEF S
    <2>5. objects' \in Seq(S)
      BY <1>5, <2>4, SeqDef
    <2> QED BY <2>1, <2>5 DEF CachesPure
  <1>9. Len(objects') = Len(objects)
    BY <1>5, <1>7, <1>8 DEF CachesPure
  <1>10. LoopsOK'
    <2> DEFINE v == IF out.complete THEN [pc |-> "reassemble", frag |-> d, cache |-> o] ELSE Idle
    <2>1. v = Idle \/ \E pc \in {"add", "reassemble"} : v = [pc |-> pc, frag |-> d, cache |-> o]
      OBVIOUS
    <2>2. loops' = [k \in Loops |-> IF k = l THEN v ELSE loops[k]] BY <1>4
    <2> HIDE DEF v
    <2> QED BY <1>7, <2>1, <2>2, LoopMoves
  <1>11. Holds(l, o) /\ loops[l].frag.id = d.id /\ d.total \in Totals(d.id)
    BY <1>2, FragmentFacts DEF Holds
  <1>12. \A k \in Loops : \A x : Holds(k, x)' => Holds(k, x) /\ loops'[k].frag.id = loops[k].frag.id
    BY <1>2, <1>4 DEF Holds, Idle
  <1>13. objects'[o].total \in {0} \cup Totals(d.id)
    BY <1>6, <1>7, <1>11 DEF CachesApart, LoopTotals
  <1>14. MapTotals'
    <2> SUFFICES ASSUME NEW id \in FragIDs, caches[id] # 0
                 PROVE  objects'[caches[id]].total \in {0} \cup Totals(id)
      BY <1>3, <1>4 DEF MapTotals
    <2>1. CASE caches[id] = o BY <2>1, <1>11, <1>13 DEF CachesApart, LoopsOnMap
    <2>2. CASE caches[id] # o
      <3>1. caches[id] \in DOMAIN objects BY <1>5
      <3> QED BY <2>2, <3>1, <1>7 DEF CachesApart, MapTotals
    <2> QED BY <2>1, <2>2
  <1>15. LoopTotals'
    <2> SUFFICES ASSUME NEW x \in DOMAIN objects, NEW k \in Loops, Holds(k, x)'
                 PROVE  objects'[x].total \in {0} \cup Totals(loops'[k].frag.id)
      BY <1>3, <1>7 DEF LoopTotals
    <2>1. Holds(k, x) /\ loops'[k].frag.id = loops[k].frag.id BY <1>12
    <2>2. CASE x = o BY <2>1, <2>2, <1>11, <1>13 DEF CachesApart, LoopsApart
    <2>3. CASE x # o BY <2>1, <2>3, <1>7 DEF CachesApart, LoopTotals
    <2> QED BY <2>2, <2>3
  <1>16. MapApart' BY <1>4 DEF CachesApart, MapApart
  <1>17. LoopsOnMap' BY <1>4, <1>12 DEF CachesApart, LoopsOnMap
  <1>18. LoopsApart' BY <1>7, <1>12 DEF CachesApart, LoopsApart
  <1>19. DeliveredIntact' BY DEF DeliveredIntact
  <1>20. caches' \in [FragIDs -> 0 .. Len(objects')] BY <1>4, <1>9
  <1> QED
    BY <1>8, <1>10, <1>14, <1>15, <1>16, <1>17, <1>18, <1>19, <1>20 DEF CachesApart

\* Reassemble: a message is whole, or there is none.
LEMMA ReassembleKeeps ==
    ASSUME ReceiverInv, RequestsOK', NEW l \in Loops, Reassemble(l),
           UNCHANGED <<scenario, delivered>>
    PROVE  ReceiverInv'
  <1> USE DEF ReceiverInv
  <1>1. loops[l].pc = "reassemble" BY DEF Reassemble
  <1>2. PICK d \in Fragments, o \in DOMAIN objects :
            loops[l] = [pc |-> "reassemble", frag |-> d, cache |-> o]
    BY <1>1, AtCache
  <1> DEFINE fc == objects[o]
             whole == fc.total /= 0 /\ DOMAIN fc.fragments = 1 .. fc.total
             p == IF whole THEN [k \in 1 .. fc.total |-> fc.fragments[k]] ELSE <<>>
  <1>3. Fragments' = Fragments /\ \A x : Totals(x)' = Totals(x)
    BY SameRequests
  <1>4. /\ caches' = caches /\ objects' = objects
        /\ loops' = [k \in Loops |-> IF k = l THEN [pc |-> "remove", frag |-> d, plaintext |-> p]
                                     ELSE loops[k]]
    <2>1. loops[l].frag = d /\ loops[l].cache = o BY <1>2
    <2>2. loops' = [loops EXCEPT ![l] = [pc |-> "remove", frag |-> d, plaintext |-> p]]
      BY <2>1 DEF Reassemble
    <2>3. loops = [k \in Loops |-> loops[k]] BY DEF LoopsOK
    <2> QED BY <2>2, <2>3, Zenon DEF Reassemble
  <1>5. fc.total \in {0} \cup Totals(d.id)
    BY <1>2 DEF CachesApart, LoopTotals, Holds
  <1>6. whole => p = Whole(fc.total)
    BY DEF CachesPure, PureCache, Cache, Whole
  <1>7. p \in {<<>>} \cup {Whole(t) : t \in Totals(d.id)}
    BY <1>5, <1>6
  <1> HIDE DEF p
  <1>8. LoopsOK'
    BY <1>3, <1>4, <1>7 DEF LoopsOK, HasNothing, HasFragment, HasCache, HasMessage
  <1>9. \A k \in Loops : \A x : Holds(k, x)' => Holds(k, x) /\ loops'[k].frag.id = loops[k].frag.id
    BY <1>4 DEF Holds
  <1>10. MapTotals' /\ MapApart' BY <1>3, <1>4 DEF CachesApart, MapTotals, MapApart
  <1>11. LoopTotals' BY <1>3, <1>4, <1>9 DEF CachesApart, LoopTotals
  <1>12. LoopsOnMap' BY <1>4, <1>9 DEF CachesApart, LoopsOnMap
  <1>13. LoopsApart' BY <1>4, <1>9 DEF CachesApart, LoopsApart
  <1>14. CachesPure' BY <1>4 DEF CachesPure
  <1>15. DeliveredIntact' BY DEF DeliveredIntact
  <1> QED
    BY <1>4, <1>8, <1>10, <1>11, <1>12, <1>13, <1>14, <1>15 DEF CachesApart

\* Remove: the message, if there is one, is delivered and the map forgets its cache.
LEMMA RemoveKeeps ==
    ASSUME ReceiverInv, RequestsOK', NEW l \in Loops, Remove(l), scenario' = scenario,
           IF loops[l].plaintext = <<>> THEN UNCHANGED <<answers, delivered>>
           ELSE /\ delivered' = delivered \cup {[id |-> loops[l].frag.id, plaintext |-> loops[l].plaintext]}
                /\ answers' = answers \cup {loops[l].frag.id}
    PROVE  ReceiverInv' /\ (answers \subseteq MsgIDs => answers' \subseteq MsgIDs)
  <1> USE DEF ReceiverInv
  <1>1. loops[l].pc = "remove" BY DEF Remove
  <1>2. PICK d \in Fragments : \E p \in {<<>>} \cup {Whole(t) : t \in Totals(d.id)} :
            loops[l] = [pc |-> "remove", frag |-> d, plaintext |-> p]
    BY <1>1, AtRemove
  <1>3. /\ loops[l].frag = d
        /\ loops[l].plaintext \in {<<>>} \cup {Whole(t) : t \in Totals(d.id)}
    BY <1>2
  <1>4. Fragments' = Fragments /\ \A x : Totals(x)' = Totals(x)
    BY SameRequests
  <1>5. d.id \in FragIDs /\ d.id \in MsgIDs BY FragmentFacts
  <1>6. /\ objects' = objects
        /\ loops' = [k \in Loops |-> IF k = l THEN Idle ELSE loops[k]]
        /\ caches' = [caches EXCEPT ![d.id] = 0]
    BY <1>3 DEF Remove, LoopsOK
  <1>7. LoopsOK'
    BY <1>4, <1>6 DEF LoopsOK, HasNothing, HasFragment, HasCache, HasMessage
  <1>8. \A k \in Loops : \A x : Holds(k, x)' => Holds(k, x) /\ loops'[k].frag.id = loops[k].frag.id
    BY <1>6 DEF Holds, Idle
  <1>9. \A id \in FragIDs : caches'[id] # 0 => caches'[id] = caches[id]
    BY <1>6
  <1>10. caches' \in [FragIDs -> 0 .. Len(objects')]
    <2>1. Len(objects) \in Nat BY DEF CachesPure
    <2>2. 0 \in 0 .. Len(objects) BY <2>1
    <2> QED BY <1>6, <2>2
  <1>11. MapTotals' BY <1>4, <1>6, <1>9 DEF CachesApart, MapTotals
  <1>12. MapApart' BY <1>9 DEF CachesApart, MapApart
  <1>13. LoopTotals' BY <1>4, <1>6, <1>8 DEF CachesApart, LoopTotals
  <1>14. LoopsOnMap' BY <1>8, <1>9 DEF CachesApart, LoopsOnMap
  <1>15. LoopsApart' BY <1>6, <1>8 DEF CachesApart, LoopsApart
  <1>16. CachesPure' BY <1>6 DEF CachesPure
  <1>17. DeliveredIntact'
    <2>1. CASE loops[l].plaintext = <<>> BY <2>1 DEF DeliveredIntact
    <2>2. CASE loops[l].plaintext # <<>>
      <3>1. PICK k \in DOMAIN scenario[d.id] : loops[l].plaintext = Whole(scenario[d.id][k])
        BY <1>3, <2>2 DEF Totals
      <3>2. delivered' = delivered \cup {[id |-> d.id, plaintext |-> loops[l].plaintext]}
        BY <1>3, <2>2
      <3>3. ASSUME NEW msg \in delivered'
            PROVE  \E x \in DOMAIN scenario[msg.id] : msg.plaintext = Whole(scenario[msg.id][x])
        <4>1. CASE msg \in delivered BY <4>1 DEF DeliveredIntact, Whole
        <4>2. CASE msg = [id |-> d.id, plaintext |-> loops[l].plaintext] BY <3>1, <4>2
        <4> QED BY <3>2, <4>1, <4>2
      <3> QED BY <3>3 DEF DeliveredIntact, Whole
    <2> QED BY <2>1, <2>2
  <1>18. answers \subseteq MsgIDs => answers' \subseteq MsgIDs BY <1>3, <1>5
  <1> QED
    BY <1>7, <1>10, <1>11, <1>12, <1>13, <1>14, <1>15, <1>16, <1>17, <1>18 DEF CachesApart

\* Every step keeps the invariant of the reassembly.
LEMMA ReceiverStep ==
    ASSUME ReceiverInv, [Next]_vars
    PROVE  ReceiverInv'
  <1>1. RequestsOK' /\ scenario' = scenario
    BY RequestsStep DEF ReceiverInv
  <1>2. CASE UNCHANGED <<fragmentVars, delivered>>
    BY <1>1, <1>2, ReceiverIdle
  <1>3. CASE Receive
    BY <1>1, <1>3, TakeKeeps DEF Receive
  <1>4. CASE Repeat
    BY <1>1, <1>4, TakeKeeps DEF Repeat
  <1>5. ASSUME NEW l \in Loops, ReassembleFragment(l)
        PROVE  ReceiverInv'
    <2>1. CASE GetOrCreate(l) /\ UNCHANGED <<answers, delivered>>
      BY <1>1, <2>1, GetOrCreateKeeps
    <2>2. CASE Add(l) /\ UNCHANGED <<answers, delivered>>
      BY <1>1, <2>2, AddKeeps
    <2>3. CASE Reassemble(l) /\ UNCHANGED <<answers, delivered>>
      BY <1>1, <2>3, ReassembleKeeps
    <2>4. CASE /\ Remove(l)
               /\ IF loops[l].plaintext = <<>> THEN UNCHANGED <<answers, delivered>>
                  ELSE /\ delivered' = delivered \cup
                              {[id |-> loops[l].frag.id, plaintext |-> loops[l].plaintext]}
                       /\ answers' = answers \cup {loops[l].frag.id}
      BY <1>1, <2>4, RemoveKeeps
    <2> QED BY <1>5, <2>1, <2>2, <2>3, <2>4 DEF ReassembleFragment
  <1>6. CASE Fault \/ Close \/ TearDown \/ UNCHANGED vars
    BY <1>2, <1>6 DEF Fault, Close, TearDown, vars
  <1>7. CASE \E m \in MsgIDs : Send(m) \/ Refragment(m) \/ Resend(m) \/ Response(m) \/ Timer(m)
    BY <1>2, <1>7 DEF Send, Refragment, Resend, Response, Timer
  <1> QED
    BY <1>3, <1>4, <1>5, <1>6, <1>7 DEF Next, Progress

\* What is on the wire are datagrams of the requests and answers to them.
LEMMA WireStep ==
    ASSUME IInv, [Next]_vars
    PROVE  WireInv'
  <1>1. RequestsOK' /\ scenario' = scenario /\ RequestsOK
    BY RequestsStep DEF IInv, ReceiverInv
  <1>2. Datagrams' = Datagrams
    BY <1>1, SameRequests
  <1>3. net \in [Datagrams -> Nat] /\ answers \subseteq MsgIDs /\ faults \in 0 .. MaxFaults
        /\ MaxFaults \in Nat
    BY MaxFaultsAssumption, RetriesType DEF IInv, WireInv
  <1>4. ASSUME NEW l \in Loops, NEW d \in Datagrams, NEW copy \in BOOLEAN, Take(l, d, copy)
        PROVE  net' \in [Datagrams -> Nat] /\ answers' \subseteq MsgIDs
    <2>1. net' \in [Datagrams -> Nat]
      BY <1>3, <1>4 DEF Take
    <2>2. d.id \in MsgIDs
      BY <1>1, RequestFacts DEF Datagrams, Datagram
    <2> QED BY <1>3, <1>4, <2>1, <2>2 DEF Take, HandleDPDNotify
  <1>5. CASE Receive
    BY <1>2, <1>3, <1>4, <1>5 DEF Receive, WireInv
  <1>6. CASE Repeat
    <2>1. net' \in [Datagrams -> Nat] /\ answers' \subseteq MsgIDs
      BY <1>4, <1>6 DEF Repeat
    <2>2. faults' \in 0 .. MaxFaults
      BY <1>3, <1>6 DEF Repeat
    <2> QED BY <1>2, <2>1, <2>2 DEF WireInv
  <1>7. CASE Fault
    <2>1. net' \in [Datagrams -> Nat] /\ answers' \subseteq MsgIDs
      BY <1>3, <1>7 DEF Fault
    <2> QED BY <1>2, <1>3, <1>7, <2>1 DEF Fault, WireInv
  <1>8. CASE Close \/ TearDown \/ UNCHANGED vars
    BY <1>2, <1>3, <1>8 DEF Close, TearDown, vars, WireInv
  <1>9. CASE \E m \in MsgIDs : Send(m) \/ Refragment(m) \/ Resend(m)
    <2>1. net' \in [Datagrams -> Nat]
      BY <1>3, <1>9 DEF Send, Refragment, Resend, Transmit
    <2> QED BY <1>2, <1>3, <1>9, <2>1 DEF Send, Refragment, Resend, WireInv
  <1>10. CASE \E m \in MsgIDs : Response(m) \/ Timer(m)
    BY <1>2, <1>3, <1>10 DEF Response, Timer, WireInv
  <1>11. ASSUME NEW l \in Loops, ReassembleFragment(l)
         PROVE  WireInv'
    <2>1. answers' \subseteq MsgIDs
      BY <1>1, <1>3, <1>11, RemoveKeeps DEF ReassembleFragment, IInv
    <2> QED BY <1>2, <1>3, <1>11, <2>1 DEF ReassembleFragment, WireInv
  <1> QED
    BY <1>5, <1>6, <1>7, <1>8, <1>9, <1>10, <1>11 DEF Next, Progress

\* At the start nothing is pending, cached or delivered.
LEMMA InitIInv == Init => IInv
  <1> SUFFICES ASSUME Init PROVE IInv
    OBVIOUS
  <1> USE DEF Init, NewRetransmitter, NewFragmentManager
  <1>1. RequestsOK BY DEF RequestsOK
  <1>2. DOMAIN pending = {} OBVIOUS
  <1>3. RetransmitTypeOK BY <1>2 DEF RetransmitTypeOK
  <1>4. Counted BY <1>2 DEF Counted
  <1>5. GivesUpLast BY RetriesType DEF GivesUpLast
  <1>6. SenderInv BY <1>1, <1>3, <1>4, <1>5 DEF SenderInv
  <1>7. LoopsOK BY DEF LoopsOK, HasNothing
  <1>8. DOMAIN objects = {} /\ Len(objects) = 0 OBVIOUS
  <1>9. CachesPure BY <1>8 DEF CachesPure
  <1>10. CachesApart
    BY <1>8 DEF CachesApart, MapTotals, LoopTotals, MapApart, LoopsOnMap, LoopsApart
  <1>11. caches \in [FragIDs -> 0 .. Len(objects)] BY <1>8
  <1>12. ReceiverInv
    BY <1>1, <1>7, <1>9, <1>10, <1>11 DEF ReceiverInv, DeliveredIntact
  <1>13. WireInv BY MaxFaultsAssumption, RetriesType DEF WireInv
  <1> QED BY <1>6, <1>12, <1>13 DEF IInv

\* The inductive invariant: the retry counts, the fragment caches and the wire.
THEOREM ExchangeInvariant == Spec => []IInv
  <1>1. IInv /\ [Next]_vars => IInv'
    BY SenderStep, ReceiverStep, WireStep DEF IInv
  <1> QED BY InitIInv, <1>1, PTL DEF Spec

\* The inductive invariant contains the types.
LEMMA IInvTypes == IInv => TypeOK
  <1> SUFFICES ASSUME IInv PROVE TypeOK
    OBVIOUS
  <1>1. sent \in [MsgIDs -> 0 .. MaxRetries + 1]
    <2>1. sent \in [MsgIDs -> Nat] /\ due \in [MsgIDs -> Nat]
          /\ \A m \in MsgIDs : sent[m] + due[m] <= MaxRetries + 1
      BY DEF IInv, SenderInv, GivesUpLast, RetransmitTypeOK
    <2>2. \A m \in MsgIDs : sent[m] \in 0 .. MaxRetries + 1
      BY <2>1, RetriesType
    <2> QED BY <2>1, <2>2
  <1>2. FragmentTypeOK
    <2>1. \A o \in DOMAIN objects : DOMAIN objects[o].fragments \subseteq 1 .. objects[o].total
      BY DEF IInv, ReceiverInv, CachesPure, PureCache
    <2>2. \A l \in Loops : loops[l].pc \in {"idle", "get", "add", "reassemble", "remove"}
      BY DEF IInv, ReceiverInv, LoopsOK, HasNothing, HasFragment, HasCache, HasMessage, Idle
    <2> QED BY <2>1, <2>2 DEF IInv, ReceiverInv, FragmentTypeOK
  <1> QED
    BY <1>1, <1>2 DEF TypeOK, IInv, SenderInv, ReceiverInv, RequestsOK, WireInv

(***************************************************************************)
(* Retransmitter and reassembly stay within their types: retries within    *)
(* the limit, intervals within the backoff's cap, a cache without a        *)
(* fragment beyond its count.                                              *)
(***************************************************************************)
THEOREM ExchangeTypes == Spec => []TypeOK
  BY ExchangeInvariant, IInvTypes, PTL

(***************************************************************************)
(* What ReassembleFragment returns is a message as it was fragmented, for  *)
(* any number of read loops sharing caches or holding removed ones.        *)
(***************************************************************************)
THEOREM IntactDelivery == Spec => []DeliveredIntact
  <1>1. IInv => DeliveredIntact
    BY DEF IInv, ReceiverInv
  <1> QED BY ExchangeInvariant, <1>1, PTL

(***************************************************************************)
(* No request is sent more than MaxRetries times after the first, and the  *)
(* session is given up only for one that was sent, or is just being sent,  *)
(* so often, for every retry limit and every delay of the goroutines.      *)
(***************************************************************************)
THEOREM GivingUpIsLast == Spec => []GivesUpLast
  <1>1. IInv => GivesUpLast
    BY DEF IInv, SenderInv
  <1> QED BY ExchangeInvariant, <1>1, PTL
=============================================================================
