------------------------ MODULE ControlChannelProofs ------------------------
(***************************************************************************)
(* The reliable control channel, for every size of the sequence number     *)
(* space, any number of messages and any loss, repetition and reordering   *)
(* that SpaceAssumption allows.                                            *)
(*                                                                         *)
(* Neither InOrderOnce nor NothingLost is inductive.  Both rest on how far *)
(* numbers in use can be apart: an end's queue is an interval of counts    *)
(* that ends with the last message sent and begins no later than what the  *)
(* other end expects (QueueOK), and a datagram in flight is recent         *)
(* (NetOK).  Then wrapped numbers compare as the counts do (SeqLess).      *)
(***************************************************************************)
EXTENDS ControlChannel, FiniteSetTheorems, TLAPS

\* The numbers in use are the counts, wrapped.
Wrapped ==
    \A e \in Ends : sendNs[e] = sent[e] % Modulus /\ recvNr[e] = got[e] % Modulus

\* Nothing is accepted that was not sent.
Bounded == \A e \in Ends : got[e] <= sent[peer(e)]

QueueFrom(e, lo) ==
    /\ DOMAIN pending[e] = lo .. sent[e] - 1
    /\ lo <= got[peer(e)]
    /\ sent[e] - lo <= MaxOutstanding
QueueOK ==
    \A e \in Ends :
        /\ \E lo \in 0 .. sent[e] : QueueFrom(e, lo)
        /\ \A i \in DOMAIN pending[e] : pending[e][i].ns = i % Modulus
        /\ run[e] = "ticking" => \A i \in DOMAIN pending[e] : pending[e][i].retries <= MaxRetries

DatagramOK(m) ==
    /\ m \in Datagrams
    /\ m.ns = m.id % Modulus /\ m.nr = m.ack % Modulus
    /\ m.ack <= got[m.src] /\ m.id <= sent[m.src]
    /\ ~ m.zlb => m.id < sent[m.src]

NetOK ==
    \A m \in net : /\ DatagramOK(m)
                   /\ sent[m.src] - m.id <= Lifetime /\ got[m.src] - m.ack <= Lifetime

OutOK == \A e \in Ends : \A m \in out[e] : DatagramOK(m)

IInv == TypeOK /\ Wrapped /\ Bounded /\ QueueOK /\ NetOK /\ OutOK

-----------------------------------------------------------------------------

\* The arithmetic of the sequence number space.
LEMMA HalfSpace ==
    /\ Modulus \in Nat /\ Modulus > 3
    /\ Modulus \div 2 \in Nat /\ Modulus = 2 * (Modulus \div 2)
    /\ MaxOutstanding \in Nat /\ MaxOutstanding >= 1 /\ MaxOutstanding <= (Modulus \div 2) - 1
    /\ Lifetime \in Nat /\ MaxOutstanding + Lifetime <= (Modulus \div 2) + 1
  BY ModulusAssumption, SpaceAssumption, Z3

\* A count is its quotient and its remainder by the modulus of Ns and Nr.
LEMMA DivMod ==
    ASSUME NEW n \in Nat
    PROVE  /\ n \div Modulus \in Nat
           /\ n % Modulus \in Numbers
           /\ n = Modulus * (n \div Modulus) + (n % Modulus)
  BY HalfSpace, Z3 DEF Numbers

\* A difference of two wrapped numbers, wrapped.
LEMMA SmallMod ==
    ASSUME NEW x \in Int, -Modulus < x, x < Modulus
    PROVE  x % Modulus = IF x >= 0 THEN x ELSE x + Modulus
  BY HalfSpace, Z3

\* Two counts less than the space apart have the same number only if they are the same.
LEMMA SameNumber ==
    ASSUME NEW a \in Nat, NEW b \in Nat, a - b < Modulus, b - a < Modulus,
           a % Modulus = b % Modulus
    PROVE  a = b
  <1>1. /\ a \div Modulus \in Nat /\ b \div Modulus \in Nat
        /\ a = Modulus * (a \div Modulus) + (a % Modulus)
        /\ b = Modulus * (b \div Modulus) + (b % Modulus)
        /\ a % Modulus \in Int
    BY DivMod DEF Numbers
  <1> DEFINE qa == a \div Modulus
             qb == b \div Modulus
             r == a % Modulus
  <1>2. a = Modulus * qa + r /\ b = Modulus * qb + r /\ qa \in Nat /\ qb \in Nat /\ r \in Int
    BY <1>1
  <1> HIDE DEF qa, qb, r
  <1>3. a - b = Modulus * (qa - qb)
    BY <1>2, HalfSpace, Z3
  <1>4. qa - qb < 1 /\ qb - qa < 1
    BY <1>2, <1>3, HalfSpace, Z3
  <1>5. qa = qb
    BY <1>2, <1>4
  <1> QED BY <1>2, <1>5

\* seqLessThan compares wrapped numbers as their counts, when these are near.
LEMMA SeqLess ==
    ASSUME NEW a \in Nat, NEW b \in Nat,
           b - a <= (Modulus \div 2) - 1, a - b <= Modulus \div 2
    PROVE  seqLessThan(a % Modulus, b % Modulus) <=> a < b
  <1> DEFINE qa == a \div Modulus
             qb == b \div Modulus
             ra == a % Modulus
             rb == b % Modulus
             h == Modulus \div 2
  <1>1. /\ qa \in Nat /\ qb \in Nat
        /\ a = Modulus * qa + ra /\ b = Modulus * qb + rb
        /\ ra \in 0 .. Modulus - 1 /\ rb \in 0 .. Modulus - 1
    BY DivMod DEF Numbers
  <1>2. h \in Nat /\ Modulus = 2 * h /\ Modulus \in Nat /\ Modulus > 3
    BY HalfSpace
  <1>3. (rb - ra) % Modulus = IF rb - ra >= 0 THEN rb - ra ELSE rb - ra + Modulus
    <2>1. rb - ra \in Int /\ -Modulus < rb - ra /\ rb - ra < Modulus
      BY <1>1, <1>2
    <2> QED BY <2>1, SmallMod
  <1>4. b - a <= h - 1 /\ a - b <= h
    OBVIOUS
  <1> HIDE DEF qa, qb, ra, rb, h
  <1> DEFINE k == qb - qa
  <1>5. b - a = Modulus * k + (rb - ra) /\ k \in Int
    BY <1>1, <1>2, Z3
  <1> HIDE DEF k
  <1>6. k < 2 /\ k > -2
    BY <1>1, <1>2, <1>4, <1>5, Z3
  <1>7. k \in {-1, 0, 1}
    BY <1>5, <1>6
  <1>8. \/ b - a = rb - ra
        \/ b - a = rb - ra + Modulus
        \/ b - a = rb - ra - Modulus
    BY <1>1, <1>2, <1>5, <1>7
  <1>9. seqLessThan(ra, rb) <=> (rb - ra) % Modulus \in 1 .. h - 1
    BY DEF seqLessThan, h
  <1>10. (rb - ra) % Modulus \in 1 .. h - 1 <=> a < b
    BY <1>1, <1>2, <1>3, <1>4, <1>8
  <1> QED BY <1>9, <1>10 DEF ra, rb

\* Counting on wraps the count that is counted on.
LEMMA NextNumber ==
    ASSUME NEW n \in Nat
    PROVE  nextNumber(n % Modulus) = (n + 1) % Modulus
  <1> DEFINE q == n \div Modulus
             r == n % Modulus
  <1>1. q \in Nat /\ n = Modulus * q + r /\ r \in 0 .. Modulus - 1 /\ Modulus \in Nat /\ Modulus > 3
    BY DivMod, HalfSpace DEF Numbers
  <1> HIDE DEF q, r
  <1>2. (n + 1) % Modulus = (r + 1) % Modulus
    BY <1>1, Z3
  <1> QED BY <1>2 DEF nextNumber, r

\* Each end has the other for its peer.
LEMMA PeerFacts ==
    ASSUME NEW e \in Ends
    PROVE  peer(e) \in Ends /\ peer(e) # e /\ peer(peer(e)) = e
  <1>1. IsFiniteSet(Ends \ {e}) /\ Cardinality(Ends \ {e}) = 1
    BY EndsAssumption, FS_RemoveElement
  <1>2. PICK f : Ends \ {e} = {f}
    BY <1>1, FS_Singleton
  <1>3. \A g \in Ends : g = e \/ g = f
    BY <1>2
  <1>4. f \in Ends /\ f # e
    BY <1>2
  <1>5. peer(e) = f
    BY <1>3, <1>4 DEF peer
  <1>6. peer(f) = e
    BY <1>3, <1>4 DEF peer
  <1> QED BY <1>4, <1>5, <1>6
-----------------------------------------------------------------------------

\* The counts only grow, and what a datagram says of them stays true.
Grow ==
    /\ sent \in [Ends -> Nat] /\ got \in [Ends -> Nat]
    /\ sent' \in [Ends -> Nat] /\ got' \in [Ends -> Nat]
    /\ \A e \in Ends : sent[e] <= sent'[e] /\ got[e] <= got'[e]

\* What a datagram says of the two counts stays true while they grow.
LEMMA DatagramStays ==
    ASSUME Grow, NEW m, DatagramOK(m)
    PROVE  DatagramOK(m)'
  <1>1. m \in Datagrams /\ m.src \in Ends /\ m.id \in Nat /\ m.ack \in Nat
    BY DEF DatagramOK, Datagrams
  <1>2. /\ sent[m.src] \in Nat /\ sent'[m.src] \in Nat /\ got[m.src] \in Nat /\ got'[m.src] \in Nat
        /\ sent[m.src] <= sent'[m.src] /\ got[m.src] <= got'[m.src]
    BY <1>1 DEF Grow
  <1>3. m.ack <= got'[m.src] /\ m.id <= sent'[m.src]
    BY <1>1, <1>2 DEF DatagramOK
  <1>4. ~ m.zlb => m.id < sent'[m.src]
    BY <1>1, <1>2 DEF DatagramOK
  <1> QED BY <1>1, <1>3, <1>4 DEF DatagramOK

\* What the network still has is recent.
LEMMA NetKeeps ==
    ASSUME NEW dgrams, \A m \in dgrams : DatagramOK(m)', net' = InFlight(dgrams, sent', got')
    PROVE  NetOK' /\ net' \subseteq Datagrams
  <1>1. \A m \in net' : /\ m \in dgrams
                        /\ sent'[m.src] - m.id <= Lifetime /\ got'[m.src] - m.ack <= Lifetime
    BY DEF InFlight
  <1>2. \A m \in net' : DatagramOK(m)'
    BY <1>1
  <1>3. NetOK' BY <1>1, <1>2 DEF NetOK
  <1>4. net' \subseteq Datagrams BY <1>2 DEF DatagramOK
  <1> QED BY <1>3, <1>4

\* A message of the queue, or the one just queued, makes a good datagram.
LEMMA MessageOK ==
    ASSUME IInv, NEW e \in Ends, NEW id \in Nat, NEW ns, ns = id % Modulus,
           got' = got, sent' \in [Ends -> Nat], id < sent'[e],
           NEW m, m = Message(e, ns, id)
    PROVE  DatagramOK(m)'
  <1>1. /\ m.src = e /\ m.ns = ns /\ m.nr = recvNr[e] /\ m.zlb = FALSE /\ m.id = id /\ m.ack = got[e]
        /\ m = [src |-> e, ns |-> ns, nr |-> recvNr[e], zlb |-> FALSE, id |-> id, ack |-> got[e]]
    BY DEF Message
  <1>2. ns \in Numbers /\ recvNr[e] \in Numbers /\ got[e] \in Nat /\ sent'[e] \in Nat
    BY DivMod DEF IInv, TypeOK
  <1>3. m \in Datagrams
    BY <1>1, <1>2, Zenon DEF Datagrams
  <1>4. m.nr = m.ack % Modulus
    BY <1>1 DEF IInv, Wrapped
  <1>5. m.ack <= got'[m.src] /\ m.id <= sent'[m.src] /\ m.id < sent'[m.src]
    BY <1>1, <1>2
  <1> QED BY <1>1, <1>3, <1>4, <1>5 DEF DatagramOK

\* The types of what a step leaves alone.
LEMMA TypeParts ==
    ASSUME IInv
    PROVE  /\ sendNs \in [Ends -> Numbers] /\ recvNr \in [Ends -> Numbers]
           /\ sent \in [Ends -> Nat] /\ got \in [Ends -> Nat]
           /\ DOMAIN pending = Ends
           /\ \A e \in Ends : /\ DOMAIN pending[e] \subseteq 0 .. sent[e] - 1
                              /\ pending[e] \in [DOMAIN pending[e] -> Pendings]
           /\ net \subseteq Datagrams /\ out \in [Ends -> SUBSET Datagrams]
  BY DEF IInv, TypeOK

\* Send up to the write: one more message, at the end of the queue.
LEMMA BeginSendKeeps ==
    ASSUME IInv, NEW e \in Ends, BeginSend(e)
    PROVE  IInv'
  <1>1. /\ out[e] = {} /\ Cardinality(DOMAIN pending[e]) < MaxOutstanding
        /\ locked' = [locked EXCEPT ![e] = TRUE]
        /\ pending' = [pending EXCEPT ![e] =
                          [i \in DOMAIN pending[e] \cup {sent[e]} |->
                              IF i = sent[e] THEN [ns |-> sendNs[e], retries |-> 0] ELSE pending[e][i]]]
        /\ sendNs' = [sendNs EXCEPT ![e] = nextNumber(sendNs[e])]
        /\ sent' = [sent EXCEPT ![e] = sent[e] + 1]
        /\ out' = [out EXCEPT ![e] = {Message(e, sendNs[e], sent[e])}]
        /\ net' = InFlight(net, sent', got')
        /\ recvNr' = recvNr /\ run' = run /\ got' = got
    BY DEF BeginSend
  <1>2. /\ sent \in [Ends -> Nat] /\ got \in [Ends -> Nat] /\ sendNs \in [Ends -> Numbers]
        /\ DOMAIN pending = Ends /\ net \subseteq Datagrams /\ out \in [Ends -> SUBSET Datagrams]
    BY TypeParts
  <1>3. sent' \in [Ends -> Nat] BY <1>1, <1>2
  <1>4. Grow BY <1>1, <1>2, <1>3 DEF Grow
  <1>5. sendNs[e] = sent[e] % Modulus /\ sendNs'[e] = sent'[e] % Modulus
    BY <1>1, <1>2, NextNumber DEF IInv, Wrapped
  <1>6. Wrapped' BY <1>1, <1>2, <1>5 DEF IInv, Wrapped
  <1>7. Bounded'
    BY <1>1, <1>2, <1>3, PeerFacts DEF IInv, Bounded
  <1>8. /\ DOMAIN pending'[e] = DOMAIN pending[e] \cup {sent[e]}
        /\ pending'[e][sent[e]] = [ns |-> sendNs[e], retries |-> 0]
        /\ \A i \in DOMAIN pending[e] : i # sent[e] => pending'[e][i] = pending[e][i]
        /\ \A f \in Ends : f # e => pending'[f] = pending[f]
        /\ DOMAIN pending' = Ends
        /\ pending'[e] = [i \in DOMAIN pending'[e] |-> pending'[e][i]]
    BY <1>1, <1>2
  <1>9. QueueOK'
    <2> SUFFICES ASSUME NEW f \in Ends
                 PROVE  /\ \E lo \in 0 .. sent'[f] : QueueFrom(f, lo)'
                        /\ \A i \in DOMAIN pending'[f] : pending'[f][i].ns = i % Modulus
                        /\ run'[f] = "ticking" =>
                              \A i \in DOMAIN pending'[f] : pending'[f][i].retries <= MaxRetries
      BY DEF QueueOK
    <2>1. CASE f # e
      <3>1. sent'[f] = sent[f] /\ pending'[f] = pending[f] BY <2>1, <1>1, <1>2, <1>8
      <3> QED BY <1>1, <3>1 DEF IInv, QueueOK, QueueFrom
    <2>2. CASE f = e
      <3>1. PICK lo \in 0 .. sent[e] : QueueFrom(e, lo)
        BY DEF IInv, QueueOK
      <3>2. lo \in Nat /\ sent[e] \in Nat /\ sent'[e] = sent[e] + 1 /\ lo <= sent[e]
        BY <1>1, <1>2, <3>1
      <3>3. Cardinality(lo .. sent[e] - 1) = sent[e] - lo
        <4>1. lo \in Int /\ sent[e] - 1 \in Int BY <3>2
        <4>2. Cardinality(lo .. sent[e] - 1) = IF lo > sent[e] - 1 THEN 0 ELSE (sent[e] - 1) - lo + 1
          BY <4>1, FS_Interval
        <4> QED BY <3>2, <4>2
      <3>4. sent[e] - lo < MaxOutstanding
        BY <1>1, <3>1, <3>3 DEF QueueFrom
      <3>5. DOMAIN pending'[e] = lo .. sent'[e] - 1
        BY <1>8, <3>1, <3>2 DEF QueueFrom
      <3>6. QueueFrom(e, lo)'
        <4>1. lo <= got'[peer(e)] BY <1>1, <3>1 DEF QueueFrom
        <4>2. sent'[e] - lo <= MaxOutstanding BY <3>2, <3>4, HalfSpace
        <4> QED BY <3>5, <4>1, <4>2 DEF QueueFrom
      <3>7. \A i \in DOMAIN pending'[e] : pending'[e][i].ns = i % Modulus
        BY <1>5, <1>8 DEF IInv, QueueOK
      <3>8. run'[e] = "ticking" =>
                \A i \in DOMAIN pending'[e] : pending'[e][i].retries <= MaxRetries
        BY <1>1, <1>8, MaxRetriesAssumption DEF IInv, QueueOK
      <3> QED BY <2>2, <3>2, <3>6, <3>7, <3>8
    <2> QED BY <2>1, <2>2
  <1>10. NetOK' /\ net' \subseteq Datagrams
    BY <1>1, <1>4, NetKeeps, DatagramStays DEF IInv, NetOK
  <1>11. OutOK'
    <2>1. \A m \in out'[e] : DatagramOK(m)'
      <3>1. \A m \in out'[e] : m = Message(e, sendNs[e], sent[e]) BY <1>1, <1>2
      <3>2. sent[e] \in Nat /\ sent[e] < sent'[e] BY <1>1, <1>2
      <3> QED BY <1>1, <1>3, <1>5, <3>1, <3>2, MessageOK
    <2>2. \A f \in Ends : f # e => out'[f] = out[f] BY <1>1, <1>2
    <2> QED BY <1>4, <2>1, <2>2, DatagramStays DEF IInv, OutOK
  <1>12. TypeOK'
    <2>1. sendNs' \in [Ends -> Numbers]
      BY <1>1, <1>2, <1>3, <1>5, DivMod
    <2>2. locked' \in [Ends -> BOOLEAN]
      BY <1>1 DEF IInv, TypeOK
    <2>3. out' \in [Ends -> SUBSET Datagrams]
      <3>1. \A m \in out'[e] : m \in Datagrams BY <1>11 DEF OutOK, DatagramOK
      <3> QED BY <1>1, <1>2, <3>1
    <2>4. ASSUME NEW f \in Ends
          PROVE  DOMAIN pending'[f] \subseteq 0 .. sent'[f] - 1
                 /\ pending'[f] \in [DOMAIN pending'[f] -> Pendings]
      <3>1. CASE f # e
        BY <1>1, <1>2, <1>8, <3>1, TypeParts
      <3>2. CASE f = e
        <4>1. DOMAIN pending[e] \subseteq 0 .. sent[e] - 1 /\ pending[e] \in [DOMAIN pending[e] -> Pendings]
          BY TypeParts
        <4>2. [ns |-> sendNs[e], retries |-> 0] \in Pendings
          BY <1>2, MaxRetriesAssumption DEF Pendings
        <4>3. \A i \in DOMAIN pending'[e] : pending'[e][i] \in Pendings
          BY <1>8, <4>1, <4>2
        <4>4. DOMAIN pending'[e] \subseteq 0 .. sent'[e] - 1
          BY <1>1, <1>2, <1>8, <4>1
        <4> QED BY <1>8, <3>2, <4>3, <4>4
      <3> QED BY <3>1, <3>2
    <2>5. run' \in [Ends -> {"ticking", "onTimeout", "deferred", "ended", "crashed"}]
      BY <1>1 DEF IInv, TypeOK
    <2>6. recvNr' \in [Ends -> Numbers] /\ got' \in [Ends -> Nat]
      BY <1>1, TypeParts
    <2> QED
      BY <1>3, <1>8, <1>10, <2>1, <2>2, <2>3, <2>4, <2>5, <2>6 DEF TypeOK
  <1> QED BY <1>6, <1>7, <1>9, <1>10, <1>11, <1>12 DEF IInv
\* A step that leaves the counts alone.
LEMMA SameCounts ==
    ASSUME IInv, UNCHANGED <<sendNs, recvNr, sent, got>>
    PROVE  Wrapped' /\ Bounded' /\ Grow /\ \A m : DatagramOK(m) => DatagramOK(m)'
  <1>1. Wrapped' /\ Bounded' BY DEF IInv, Wrapped, Bounded
  <1>2. Grow BY TypeParts DEF Grow
  <1> QED BY <1>1, <1>2, DatagramStays

\* A step that leaves the counts and the queues alone.
LEMMA SameQueues ==
    ASSUME IInv, UNCHANGED <<sendNs, recvNr, sent, got, pending>>,
           run' \in [Ends -> {"ticking", "onTimeout", "deferred", "ended", "crashed"}],
           \A f \in Ends : run'[f] = "ticking" => run[f] = "ticking",
           locked' \in [Ends -> BOOLEAN],
           NetOK', net' \subseteq Datagrams,
           \A f \in Ends : out'[f] \subseteq out[f], DOMAIN out' = Ends, out' = [f \in Ends |-> out'[f]]
    PROVE  IInv'
  <1>1. Wrapped' /\ Bounded' /\ \A m : DatagramOK(m) => DatagramOK(m)'
    BY SameCounts
  <1>2. QueueOK' BY DEF IInv, QueueOK, QueueFrom
  <1>3. OutOK' BY <1>1 DEF IInv, OutOK
  <1>4. out' \in [Ends -> SUBSET Datagrams]
    BY <1>3 DEF OutOK, DatagramOK
  <1>5. TypeOK' BY <1>4, TypeParts DEF TypeOK
  <1> QED BY <1>1, <1>2, <1>3, <1>5 DEF IInv

\* The write returns: the message is on its way.
LEMMA EndSendKeeps ==
    ASSUME IInv, NEW e \in Ends, EndSend(e)
    PROVE  IInv'
  <1>1. /\ UNCHANGED <<sendNs, recvNr, pending, sent, got>>
        /\ net' = InFlight(net \cup out[e], sent', got')
        /\ out' = [out EXCEPT ![e] = {}]
        /\ locked' = [locked EXCEPT ![e] = FALSE]
        /\ run' = IF locked[e] THEN run ELSE [run EXCEPT ![e] = "crashed"]
    BY DEF EndSend, Unlock
  <1>2. \A m \in net \cup out[e] : DatagramOK(m)'
    BY <1>1, SameCounts DEF IInv, NetOK, OutOK
  <1>3. NetOK' /\ net' \subseteq Datagrams BY <1>1, <1>2, NetKeeps
  <1>4. run \in [Ends -> {"ticking", "onTimeout", "deferred", "ended", "crashed"}]
        /\ locked \in [Ends -> BOOLEAN]
    BY DEF IInv, TypeOK
  <1>5. run' \in [Ends -> {"ticking", "onTimeout", "deferred", "ended", "crashed"}]
        /\ \A f \in Ends : run'[f] = "ticking" => run[f] = "ticking"
    BY <1>1, <1>4
  <1>6. locked' \in [Ends -> BOOLEAN] BY <1>1, <1>4
  <1>7. /\ \A f \in Ends : out'[f] \subseteq out[f]
        /\ DOMAIN out' = Ends /\ out' = [f \in Ends |-> out'[f]]
    BY <1>1, TypeParts
  <1> QED BY <1>1, <1>3, <1>5, <1>6, <1>7, SameQueues

\* The callback of the retry limit and the deferred unlock touch neither queue nor number.
LEMMA OnTimeoutKeeps ==
    ASSUME IInv, NEW e \in Ends, OnTimeout(e) \/ DeferredUnlock(e)
    PROVE  IInv'
  <1>1. /\ UNCHANGED <<sendNs, recvNr, pending, net, out, sent, got>>
        /\ run[e] # "ticking"
        /\ run' = [run EXCEPT ![e] = run'[e]]
        /\ run'[e] \in {"deferred", "ended", "crashed"}
    BY DEF OnTimeout, DeferredUnlock, IInv, TypeOK
  <1>2. locked' \in [Ends -> BOOLEAN]
    BY DEF OnTimeout, DeferredUnlock, IInv, TypeOK
  <1>3. run' \in [Ends -> {"ticking", "onTimeout", "deferred", "ended", "crashed"}]
        /\ \A f \in Ends : run'[f] = "ticking" => run[f] = "ticking"
    BY <1>1 DEF IInv, TypeOK
  <1>4. NetOK' /\ net' \subseteq Datagrams
    BY <1>1, SameCounts, TypeParts DEF IInv, NetOK
  <1>5. /\ \A f \in Ends : out'[f] \subseteq out[f]
        /\ DOMAIN out' = Ends /\ out' = [f \in Ends |-> out'[f]]
    BY <1>1, TypeParts
  <1> QED BY <1>1, <1>2, <1>3, <1>4, <1>5, SameQueues

\* Messages of the queue are counted and sent again.
LEMMA RetriedKeeps ==
    ASSUME IInv, NEW e \in Ends, NEW ids \in SUBSET DOMAIN pending[e],
           NEW again \in SUBSET DOMAIN pending[e],
           run[e] = "ticking",
           UNCHANGED <<sendNs, recvNr, locked, out, sent, got>>,
           pending' = [pending EXCEPT ![e] = Retried(pending[e], ids)],
           net' = InFlight(net \cup Resent(e, again), sent', got'),
           run' \in [Ends -> {"ticking", "onTimeout", "deferred", "ended", "crashed"}],
           \A f \in Ends : run'[f] = "ticking" => run[f] = "ticking",
           run'[e] = "ticking" => \A i \in ids : ~ overLimit(pending[e][i])
    PROVE  IInv'
  <1>1. Wrapped' /\ Bounded' /\ Grow /\ \A m : DatagramOK(m) => DatagramOK(m)'
    BY SameCounts
  <1>2. /\ DOMAIN pending = Ends /\ sent[e] \in Nat
        /\ \A f \in Ends : /\ DOMAIN pending[f] \subseteq 0 .. sent[f] - 1
                           /\ pending[f] \in [DOMAIN pending[f] -> Pendings]
    BY TypeParts
  <1>3. /\ DOMAIN pending' = Ends
        /\ \A f \in Ends : f # e => pending'[f] = pending[f]
        /\ pending'[e] = Retried(pending[e], ids)
    BY <1>2
  <1>4. /\ DOMAIN pending'[e] = DOMAIN pending[e]
        /\ pending'[e] = [i \in DOMAIN pending[e] |-> pending'[e][i]]
        /\ \A i \in DOMAIN pending[e] :
              pending'[e][i] = IF i \in ids THEN [pending[e][i] EXCEPT !.retries = @ + 1] ELSE pending[e][i]
    BY <1>3 DEF Retried
  <1>5. ASSUME NEW i \in DOMAIN pending[e]
        PROVE  /\ pending[e][i] \in Pendings /\ pending[e][i].retries <= MaxRetries
               /\ pending'[e][i] \in Pendings
               /\ pending'[e][i].ns = i % Modulus
               /\ run'[e] = "ticking" => pending'[e][i].retries <= MaxRetries
    <2>1. pending[e][i] \in Pendings BY <1>2
    <2>2. pending[e][i].retries <= MaxRetries /\ pending[e][i].ns = i % Modulus
      BY DEF IInv, QueueOK
    <2>3. CASE i \in ids
      <3>1. /\ pending'[e][i] = [pending[e][i] EXCEPT !.retries = @ + 1]
            /\ pending'[e][i].ns = pending[e][i].ns
            /\ pending'[e][i].retries = pending[e][i].retries + 1
        BY <1>4, <2>1, <2>3 DEF Pendings
      <3>2. pending'[e][i] \in Pendings
        BY <2>1, <2>2, <3>1, MaxRetriesAssumption DEF Pendings
      <3> QED BY <2>1, <2>2, <2>3, <3>1, <3>2, MaxRetriesAssumption DEF overLimit, Pendings
    <2>4. CASE i \notin ids
      BY <1>4, <2>1, <2>2, <2>4
    <2> QED BY <2>3, <2>4
  <1>6. QueueOK'
    <2> SUFFICES ASSUME NEW f \in Ends
                 PROVE  /\ \E lo \in 0 .. sent'[f] : QueueFrom(f, lo)'
                        /\ \A i \in DOMAIN pending'[f] : pending'[f][i].ns = i % Modulus
                        /\ run'[f] = "ticking" =>
                              \A i \in DOMAIN pending'[f] : pending'[f][i].retries <= MaxRetries
      BY DEF QueueOK
    <2>1. CASE f # e BY <1>3, <2>1 DEF IInv, QueueOK, QueueFrom
    <2>2. CASE f = e BY <1>4, <1>5, <2>2 DEF IInv, QueueOK, QueueFrom
    <2> QED BY <2>1, <2>2
  <1>7. NetOK' /\ net' \subseteq Datagrams
    <2>1. \A m \in net : DatagramOK(m)' BY <1>1 DEF IInv, NetOK
    <2>2. ASSUME NEW m \in Resent(e, again) PROVE DatagramOK(m)'
      <3>1. PICK i \in again : m = Message(e, pending[e][i].ns, i)
        BY DEF Resent
      <3>2. i \in Nat /\ i < sent'[e] /\ pending[e][i].ns = i % Modulus
        BY <1>2 DEF IInv, QueueOK
      <3>3. sent' \in [Ends -> Nat] BY TypeParts
      <3> QED BY <3>1, <3>2, <3>3, MessageOK
    <2> QED BY <2>1, <2>2, NetKeeps
  <1>8. OutOK' BY <1>1 DEF IInv, OutOK
  <1>9. TypeOK'
    <2>1. \A f \in Ends : /\ DOMAIN pending'[f] \subseteq 0 .. sent'[f] - 1
                          /\ pending'[f] \in [DOMAIN pending'[f] -> Pendings]
      BY <1>2, <1>3, <1>4, <1>5
    <2>2. locked' \in [Ends -> BOOLEAN] BY DEF IInv, TypeOK
    <2> QED BY <1>3, <1>7, <2>1, <2>2, TypeParts DEF TypeOK
  <1> QED BY <1>1, <1>6, <1>7, <1>8, <1>9 DEF IInv

\* CheckRetransmit sends again what is queued, or gives up.
LEMMA TickKeeps ==
    ASSUME IInv, NEW e \in Ends, Tick(e)
    PROVE  IInv'
  <1>1. PICK due \in SUBSET (DOMAIN pending[e]) :
            Retransmit(e, due) \/ \E last \in due : GiveUp(e, due, last)
    BY DEF Tick
  <1>2. run \in [Ends -> {"ticking", "onTimeout", "deferred", "ended", "crashed"}]
    BY DEF IInv, TypeOK
  <1>3. CASE Retransmit(e, due)
    <2>1. /\ run[e] = "ticking" /\ \A i \in due : ~ overLimit(pending[e][i])
          /\ pending' = [pending EXCEPT ![e] = Retried(pending[e], due)]
          /\ net' = InFlight(net \cup Resent(e, due), sent', got')
          /\ UNCHANGED <<sendNs, recvNr, run, locked, out, sent, got>>
      BY <1>3 DEF Retransmit
    <2> QED BY <1>2, <2>1, RetriedKeeps
  <1>4. ASSUME NEW last \in due, GiveUp(e, due, last)
        PROVE  IInv'
    <2> DEFINE before == {i \in due : i < last}
    <2>1. /\ run[e] = "ticking"
          /\ pending' = [pending EXCEPT ![e] = Retried(pending[e], before \cup {last})]
          /\ net' = InFlight(net \cup Resent(e, before), sent', got')
          /\ run' = [run EXCEPT ![e] = "onTimeout"]
          /\ UNCHANGED <<sendNs, recvNr, locked, out, sent, got>>
      BY <1>4 DEF GiveUp
    <2>2. before \cup {last} \in SUBSET DOMAIN pending[e] /\ before \in SUBSET DOMAIN pending[e]
      OBVIOUS
    <2>3. /\ run' \in [Ends -> {"ticking", "onTimeout", "deferred", "ended", "crashed"}]
          /\ run'[e] # "ticking"
          /\ \A f \in Ends : run'[f] = "ticking" => run[f] = "ticking"
      BY <1>2, <2>1
    <2> HIDE DEF before
    <2> QED BY <2>1, <2>2, <2>3, RetriedKeeps
  <1> QED BY <1>1, <1>3, <1>4
-----------------------------------------------------------------------------

\* What the counts of an end and of a datagram from its peer are.
LEMMA ReceivedFacts ==
    ASSUME IInv, NEW e \in Ends, NEW m \in net, m.src = peer(e)
    PROVE  /\ m.id \in Nat /\ m.ack \in Nat
           /\ m.ns = m.id % Modulus /\ m.nr = m.ack % Modulus
           /\ m.ack <= got[peer(e)] /\ got[peer(e)] - m.ack <= Lifetime
           /\ m.id <= sent[peer(e)] /\ sent[peer(e)] - m.id <= Lifetime
           /\ ~ m.zlb => m.id < sent[peer(e)]
           /\ got[peer(e)] <= sent[e] /\ got[e] <= sent[peer(e)]
           /\ {sent[e], got[e], sent[peer(e)], got[peer(e)]} \subseteq Nat
  <1>1. peer(e) \in Ends /\ peer(peer(e)) = e BY PeerFacts
  <1>2. {sent[e], got[e], sent[peer(e)], got[peer(e)]} \subseteq Nat BY <1>1, TypeParts
  <1>3. got[peer(e)] <= sent[e] /\ got[e] <= sent[peer(e)] BY <1>1 DEF IInv, Bounded
  <1>4. DatagramOK(m) /\ sent[m.src] - m.id <= Lifetime /\ got[m.src] - m.ack <= Lifetime
    BY DEF IInv, NetOK
  <1>5. m.id \in Nat /\ m.ack \in Nat BY <1>4 DEF DatagramOK, Datagrams
  <1> QED BY <1>2, <1>3, <1>4, <1>5 DEF DatagramOK

\* The message that Receive accepts is the one after the last it accepted.
LEMMA AcceptsNext ==
    ASSUME IInv, NEW e \in Ends, NEW m \in net, m.src = peer(e), accepts(e, m)
    PROVE  m.id = got[e] /\ got[e] < sent[peer(e)]
  <1> DEFINE p == peer(e)
  <1>1. p \in Ends /\ peer(p) = e BY PeerFacts
  <1>2. /\ m.id \in Nat /\ m.ns = m.id % Modulus
        /\ m.id <= sent[p] /\ sent[p] - m.id <= Lifetime
        /\ ~ m.zlb => m.id < sent[p]
        /\ got[e] <= sent[p] /\ got[e] \in Nat /\ sent[p] \in Nat
    BY ReceivedFacts
  <1>3. m.id < sent[p] /\ m.ns = recvNr[e]
    BY <1>2 DEF accepts
  <1>4. m.id % Modulus = got[e] % Modulus
    BY <1>2, <1>3 DEF IInv, Wrapped
  <1>5. PICK lo \in 0 .. sent[p] : QueueFrom(p, lo)
    BY <1>1 DEF IInv, QueueOK
  <1>6. lo <= got[e] /\ sent[p] - lo <= MaxOutstanding /\ lo \in Nat
    BY <1>1, <1>2, <1>5 DEF QueueFrom
  <1>7. m.id - got[e] < Modulus /\ got[e] - m.id < Modulus
    BY <1>2, <1>3, <1>6, HalfSpace
  <1>8. m.id = got[e] BY <1>2, <1>4, <1>7, SameNumber
  <1> QED BY <1>3, <1>8

\* An Nr acknowledges the messages before its count and no other.
LEMMA Acknowledges ==
    ASSUME IInv, NEW e \in Ends, NEW m \in net, m.src = peer(e), NEW i \in DOMAIN pending[e]
    PROVE  seqLessThan(pending[e][i].ns, m.nr) <=> i < m.ack
  <1> DEFINE p == peer(e)
  <1>1. /\ m.ack \in Nat /\ m.nr = m.ack % Modulus
        /\ m.ack <= got[p] /\ got[p] - m.ack <= Lifetime
        /\ got[p] <= sent[e] /\ got[p] \in Nat /\ sent[e] \in Nat
    BY ReceivedFacts
  <1>2. PICK lo \in 0 .. sent[e] : QueueFrom(e, lo)
    BY DEF IInv, QueueOK
  <1>3. /\ lo \in Nat /\ lo <= got[p] /\ sent[e] - lo <= MaxOutstanding
        /\ i \in Nat /\ lo <= i /\ i <= sent[e] - 1
    BY <1>1, <1>2 DEF QueueFrom
  <1>4. pending[e][i].ns = i % Modulus BY DEF IInv, QueueOK
  <1>5. m.ack - i <= (Modulus \div 2) - 1 /\ i - m.ack <= Modulus \div 2
    BY <1>1, <1>3, HalfSpace
  <1>6. seqLessThan(i % Modulus, m.ack % Modulus) <=> i < m.ack
    BY <1>1, <1>3, <1>5, SeqLess
  <1> QED BY <1>1, <1>4, <1>6

\* Receive acknowledges what Nr covers, and takes the message that is next, once.
LEMMA ReceiveKeeps ==
    ASSUME IInv, NEW e \in Ends, NEW m \in net, Receive(e, m)
    PROVE  IInv'
  <1> DEFINE p == peer(e)
             rest == {i \in DOMAIN pending[e] : ~ seqLessThan(pending[e][i].ns, m.nr)}
  <1>1. /\ m.src = p
        /\ pending' = [pending EXCEPT ![e] = [i \in rest |-> pending[e][i]]]
        /\ net' = InFlight(net \cup {ZLB(e, recvNr'[e], got'[e])}, sent', got')
        /\ UNCHANGED <<sendNs, run, locked, out, sent>>
    BY DEF Receive, acknowledged, Restrict
  <1>2. p \in Ends /\ p # e /\ peer(p) = e BY PeerFacts
  <1>3. /\ m.id \in Nat /\ m.ack \in Nat /\ m.ns = m.id % Modulus
        /\ m.ack <= got[p] /\ got[p] <= sent[e] /\ got[e] <= sent[p]
        /\ sent[e] \in Nat /\ got[e] \in Nat /\ sent[p] \in Nat /\ got[p] \in Nat
    BY <1>1, ReceivedFacts
  <1>4. /\ sent \in [Ends -> Nat] /\ got \in [Ends -> Nat] /\ recvNr \in [Ends -> Numbers]
        /\ sendNs \in [Ends -> Numbers] /\ DOMAIN pending = Ends
    BY TypeParts
  <1>5. /\ got' \in [Ends -> Nat] /\ recvNr' = [recvNr EXCEPT ![e] = recvNr'[e]]
        /\ got' = [got EXCEPT ![e] = got'[e]]
        /\ got'[e] \in Nat /\ got[e] <= got'[e] /\ got'[e] <= sent[p]
        /\ recvNr'[e] = got'[e] % Modulus
    <2>1. CASE accepts(e, m)
      <3>1. m.id = got[e] /\ got[e] < sent[p] BY <1>1, <2>1, AcceptsNext
      <3>2. recvNr' = [recvNr EXCEPT ![e] = nextNumber(m.ns)] /\ got' = [got EXCEPT ![e] = got[e] + 1]
        BY <2>1 DEF Receive
      <3>3. nextNumber(m.ns) = (got[e] + 1) % Modulus BY <1>3, <3>1, NextNumber
      <3> QED BY <1>3, <1>4, <3>1, <3>2, <3>3
    <2>2. CASE ~ accepts(e, m)
      <3>1. recvNr' = recvNr /\ got' = got BY <2>2 DEF Receive
      <3> QED BY <1>3, <1>4, <3>1 DEF IInv, Wrapped
    <2> QED BY <2>1, <2>2
  <1>6. Grow BY <1>1, <1>4, <1>5 DEF Grow
  <1>7. Wrapped' BY <1>1, <1>4, <1>5 DEF IInv, Wrapped
  <1>8. Bounded' BY <1>1, <1>2, <1>4, <1>5, PeerFacts DEF IInv, Bounded
  <1>9. /\ DOMAIN pending' = Ends
        /\ \A f \in Ends : f # e => pending'[f] = pending[f]
        /\ pending'[e] = [i \in rest |-> pending[e][i]]
    BY <1>1, <1>4
  <1>10. rest \subseteq DOMAIN pending[e] /\ \A i \in DOMAIN pending[e] : i \in rest <=> ~ (i < m.ack)
    BY <1>1, Acknowledges
  <1> HIDE DEF rest
  <1>11. DOMAIN pending'[e] = rest /\ \A i \in rest : pending'[e][i] = pending[e][i]
    BY <1>9
  <1>12. QueueOK'
    <2> SUFFICES ASSUME NEW f \in Ends
                 PROVE  /\ \E lo \in 0 .. sent'[f] : QueueFrom(f, lo)'
                        /\ \A i \in DOMAIN pending'[f] : pending'[f][i].ns = i % Modulus
                        /\ run'[f] = "ticking" =>
                              \A i \in DOMAIN pending'[f] : pending'[f][i].retries <= MaxRetries
      BY DEF QueueOK
    <2>1. CASE f # e
      <3>1. PICK lo \in 0 .. sent[f] : QueueFrom(f, lo) BY DEF IInv, QueueOK
      <3>2. peer(f) \in Ends BY PeerFacts
      <3>3. lo \in Nat /\ lo <= got'[peer(f)]
        <4>1. lo \in Nat /\ got[peer(f)] \in Nat /\ got'[peer(f)] \in Nat
          BY <1>4, <1>5, <3>2
        <4>2. got[peer(f)] <= got'[peer(f)] BY <1>6, <3>2 DEF Grow
        <4>3. lo <= got[peer(f)] BY <3>1 DEF QueueFrom
        <4> QED BY <4>1, <4>2, <4>3
      <3>4. QueueFrom(f, lo)' BY <1>1, <1>9, <2>1, <3>1, <3>3 DEF QueueFrom
      <3> QED BY <1>1, <1>9, <2>1, <3>4 DEF IInv, QueueOK
    <2>2. CASE f = e
      <3>1. PICK lo \in 0 .. sent[e] : QueueFrom(e, lo) BY DEF IInv, QueueOK
      <3> DEFINE lo2 == IF lo < m.ack THEN m.ack ELSE lo
      <3>2. lo \in Nat /\ lo <= got[p] /\ sent[e] - lo <= MaxOutstanding
            /\ DOMAIN pending[e] = lo .. sent[e] - 1
        BY <3>1, <1>3 DEF QueueFrom
      <3>3. lo2 \in 0 .. sent[e] /\ lo2 <= got[p] /\ sent[e] - lo2 <= MaxOutstanding
        BY <1>3, <3>1, <3>2, HalfSpace
      <3>4. rest = lo2 .. sent[e] - 1
        <4>1. \A i \in lo .. sent[e] - 1 : i \in rest <=> ~ (i < m.ack)
          BY <1>10, <3>2
        <4>2. ASSUME NEW i PROVE i \in rest <=> i \in lo2 .. sent[e] - 1
          BY <1>3, <1>10, <3>2, <4>1
        <4> QED BY <4>2
      <3> HIDE DEF lo2
      <3>5. got'[p] = got[p] BY <1>2, <1>4, <1>5
      <3>6. QueueFrom(e, lo2)' BY <1>1, <1>11, <3>3, <3>4, <3>5 DEF QueueFrom
      <3> QED BY <1>1, <1>10, <1>11, <2>2, <3>3, <3>6 DEF IInv, QueueOK
    <2> QED BY <2>1, <2>2
  <1>13. NetOK' /\ net' \subseteq Datagrams
    <2>1. \A d \in net : DatagramOK(d)' BY <1>6, DatagramStays DEF IInv, NetOK
    <2>2. ASSUME NEW d, d = ZLB(e, recvNr'[e], got'[e]) PROVE DatagramOK(d)'
      <3>1. d = [src |-> e, ns |-> sendNs[e], nr |-> recvNr'[e], zlb |-> TRUE, id |-> sent[e],
                 ack |-> got'[e]]
        BY <2>2 DEF ZLB
      <3>2. /\ d.src = e /\ d.ns = sendNs[e] /\ d.nr = recvNr'[e] /\ d.zlb = TRUE /\ d.id = sent[e]
            /\ d.ack = got'[e]
        BY <3>1
      <3>3. sendNs[e] \in Numbers /\ recvNr'[e] \in Numbers
        BY <1>4, <1>5, DivMod
      <3>4. d \in Datagrams BY <1>3, <1>5, <3>1, <3>3, Zenon DEF Datagrams
      <3>5. sendNs[e] = sent[e] % Modulus BY DEF IInv, Wrapped
      <3>6. d.ns = d.id % Modulus /\ d.nr = d.ack % Modulus BY <1>5, <3>2, <3>5
      <3>7. d.ack <= got'[d.src] /\ d.id <= sent'[d.src] BY <1>1, <1>3, <1>5, <3>2
      <3> QED BY <3>2, <3>4, <3>6, <3>7 DEF DatagramOK
    <2> QED BY <1>1, <2>1, <2>2, NetKeeps
  <1>14. OutOK' BY <1>1, <1>6, DatagramStays DEF IInv, OutOK
  <1>15. TypeOK'
    <2>1. ASSUME NEW f \in Ends
          PROVE  /\ DOMAIN pending'[f] \subseteq 0 .. sent'[f] - 1
                 /\ pending'[f] \in [DOMAIN pending'[f] -> Pendings]
      <3>1. CASE f # e BY <1>1, <1>9, <3>1, TypeParts
      <3>2. CASE f = e
        <4>1. DOMAIN pending[e] \subseteq 0 .. sent[e] - 1 /\ pending[e] \in [DOMAIN pending[e] -> Pendings]
          BY TypeParts
        <4> QED BY <1>1, <1>9, <1>10, <1>11, <3>2, <4>1
      <3> QED BY <3>1, <3>2
    <2>2. recvNr' \in [Ends -> Numbers] BY <1>4, <1>5, DivMod
    <2>3. locked' \in [Ends -> BOOLEAN] BY <1>1 DEF IInv, TypeOK
    <2>4. run' \in [Ends -> {"ticking", "onTimeout", "deferred", "ended", "crashed"}]
      BY <1>1 DEF IInv, TypeOK
    <2>5. sendNs' \in [Ends -> Numbers] /\ out' \in [Ends -> SUBSET Datagrams] /\ sent' \in [Ends -> Nat]
      BY <1>1, TypeParts
    <2> QED BY <1>5, <1>9, <1>13, <2>1, <2>2, <2>3, <2>4, <2>5 DEF TypeOK
  <1> QED BY <1>7, <1>8, <1>12, <1>13, <1>14, <1>15 DEF IInv

-----------------------------------------------------------------------------

\* Before the first message there is nothing to say.
LEMMA InitIInv == Init => IInv
  <1> SUFFICES ASSUME Init PROVE IInv
    OBVIOUS
  <1> USE DEF Init
  <1>1. 0 % Modulus = 0 /\ 0 \in Numbers BY HalfSpace, Z3 DEF Numbers
  <1>2. \A e \in Ends : peer(e) \in Ends BY PeerFacts
  <1>3. \A e \in Ends : DOMAIN pending[e] = {} OBVIOUS
  <1>4. \A e \in Ends : pending[e] \in [DOMAIN pending[e] -> Pendings] OBVIOUS
  <1>5. TypeOK BY <1>1, <1>3, <1>4 DEF TypeOK
  <1>6. Wrapped BY <1>1 DEF Wrapped
  <1>7. Bounded BY <1>2 DEF Bounded
  <1>8. QueueOK
    <2>1. ASSUME NEW e \in Ends PROVE QueueFrom(e, 0) /\ 0 \in 0 .. sent[e]
      BY <1>2, <1>3, HalfSpace DEF QueueFrom
    <2> QED BY <1>3, <2>1 DEF QueueOK
  <1>9. NetOK /\ OutOK BY DEF NetOK, OutOK
  <1> QED BY <1>5, <1>6, <1>7, <1>8, <1>9 DEF IInv

\* The inductive invariant: how far apart the numbers in use can be.
THEOREM ChannelInvariant == Spec => []IInv
  <1>1. IInv /\ [Next]_vars => IInv'
    <2> SUFFICES ASSUME IInv, [Next]_vars PROVE IInv'
      OBVIOUS
    <2>1. CASE UNCHANGED vars
      <3>1. UNCHANGED <<sendNs, recvNr, sent, got, pending, run, locked, net, out>> BY <2>1 DEF vars
      <3>2. NetOK' BY <3>1, SameCounts DEF IInv, NetOK
      <3>3. run' \in [Ends -> {"ticking", "onTimeout", "deferred", "ended", "crashed"}]
            /\ locked' \in [Ends -> BOOLEAN]
        BY <3>1 DEF IInv, TypeOK
      <3>4. net' \subseteq Datagrams /\ DOMAIN out' = Ends /\ out' = [f \in Ends |-> out'[f]]
        BY <3>1, TypeParts
      <3> QED BY <3>1, <3>2, <3>3, <3>4, SameQueues
    <2>2. CASE Next
      BY <2>2, BeginSendKeeps, EndSendKeeps, ReceiveKeeps, TickKeeps, OnTimeoutKeeps DEF Next
    <2> QED BY <2>1, <2>2
  <1> QED BY InitIInv, <1>1, PTL DEF Spec

\* Both ends stay within their types: no retry counter runs past its limit.
THEOREM ChannelTypes == Spec => []TypeOK
  <1>1. IInv => TypeOK BY DEF IInv
  <1> QED BY ChannelInvariant, <1>1, PTL

(***************************************************************************)
(* Receive accepts each message once and in the order of sending, however  *)
(* often the sequence numbers wrap.                                        *)
(***************************************************************************)
THEOREM DeliveryInOrder == Spec => []InOrderOnce
  <1>1. IInv => InOrderOnce
    BY AcceptsNext DEF InOrderOnce
  <1> QED BY ChannelInvariant, <1>1, PTL

(***************************************************************************)
(* acknowledgeUpTo drops no message that the other end has not accepted.   *)
(***************************************************************************)
THEOREM NoMessageLost == Spec => []NothingLost
  <1>1. IInv => NothingLost
    <2> SUFFICES ASSUME IInv, NEW e \in Ends, NEW i \in 0 .. sent[e] - 1
                 PROVE  i < got[peer(e)] \/ i \in DOMAIN pending[e]
      BY DEF NothingLost
    <2>1. PICK lo \in 0 .. sent[e] : QueueFrom(e, lo) BY DEF IInv, QueueOK
    <2>2. sent[e] \in Nat /\ got[peer(e)] \in Nat BY PeerFacts, TypeParts
    <2> QED BY <2>1, <2>2 DEF QueueFrom
  <1> QED BY ChannelInvariant, <1>1, PTL
=============================================================================
