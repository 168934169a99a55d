# swan-ng: TLA+ models and proofs

swan-ng is a user-space VPN daemon in Go: IKEv1/IKEv2 key exchange, an ESP data
plane, and an L2TP/PPP server on top of it. This directory holds TLA+ models of
its core, TLC configurations that check them on small instances, and TLAPS
proofs for every size. `PROJECT.json` is the index: components, runs, the source
lines each definition stands for, mutants, findings, hazards and theorems.

## 1. The system

### How it runs

`cmd/swan-ng/daemon.go` opens UDP 500, 4500 and 1701. Each port has one
goroutine that reads a datagram and calls its handler before it reads the next,
so a handler never runs beside itself, but the handlers of different ports do
run beside each other: **two goroutines work in the IKE server** (500 and 4500).
Port 500 leads to the IKE server. Port 4500 is split by `esp/natt.go` into IKE
and ESP; a decrypted ESP packet goes to the TUN device
or, if it is UDP 1701 inside, to `l2tpServer.HandlePacket`. Port 1701 calls
`HandlePacket` too: **two goroutines work in the L2TP server**. One more
goroutine reads the TUN device and encrypts; every L2TP tunnel has a `Run`
goroutine with a hello and a retransmission ticker. On SIGINT or SIGTERM the
root context is cancelled and then the main goroutine calls `l2tpServer.Close`.

### Components

| Component (source) | State | Operations | Hard behaviour | What makes it correct |
|---|---|---|---|---|
| Replay window (`esp/replay.go`) | right edge, bitmap of 64-bit words | `Check`, `Advance`, `setBit`, `shiftBitmap` | shifts across words, gaps of any size | the bitmap is exactly the RFC 4303 window |
| ESP packets (`esp/packet.go`, `engine.go`, `sa.go`) | sequence counter, window, peer address per SA | `Encrypt`, `Decrypt`, `HandleInboundESP` | check and advance under separate locks, replay, damage, counter end, NAT rebinding | no packet delivered twice, no number reused, only fresh authentic packets change state |
| SA database, SPD, outbound loop (`esp/sa.go`, `engine.go`) | inbound SAs by SPI, SPD by address, default SA | add, remove, lookup, `outboundLoop` | concurrent with IKE, reserved and taken SPIs, SA used after the lock | routes follow the addresses that IKE has bound; nothing is sent for the evicted |
| Path MTU (`esp/pmtu.go`) | MTU per peer | get, set | shared table | minimum respected |
| IPAM (`ipam/pool.go`) | bitmap, hint | `Allocate`, `AllocateSpecific`, `Release` | full pool, hint wrap, double release | an address has one holder; refusal only when full |
| L2TP control channel (`l2tp/control.go`) | Ns, Nr, queue of unacknowledged messages | `Send`, `SendZLB`, `Receive`, `CheckRetransmit` | loss, repetition, reordering, number wrap, retry limit, callback outside the lock | in-order delivery once, nothing acknowledged that was not received, no endless wait |
| L2TP server (`l2tp/server.go`, `tunnel.go`, `session.go`) | tunnels by key and by local ID, sessions, leased addresses | the control message handlers, `InitPPP`, `Run`, `Close` | two read loops, stale pointers, teardown racing setup, full pool | addresses exclusive and returned, the ended stays ended, maps in step |
| PPP session (`l2tp/session.go`, `lcp.go`, `chap.go`, `ipcp.go`) | LCP, CHAP and IPCP handlers, phase, user name | `HandleData` and its handlers | any frame in any phase, refusals in both directions, identifiers | no data without authentication, identity settled, a correct peer gets through or the reason is known |
| L2TP formats, profiles (`l2tp/packet.go`, `ppp.go`, `profile.go`) | - | parse, serialise, load | - | pure data |
| IKE server, sessions (`ike/server.go`, `session.go`) | sessions by SPI pair, identities, assigned addresses | register, get, delete, install child SA | two read loops, eviction racing installation, three mutexes | the identity table is exact, eviction leaves nothing behind |
| IKEv2 and EAP (`ike/ikev2_*.go`, `eap*.go`) | session state, keys, EAP state, pending child | SA_INIT with cookie and group retry, AUTH, EAP rounds, final AUTH | repeated and late requests, state read without the lock, restart | one child SA, both ends agree, a correct client gets through |
| IKEv1 (`ike/ikev1_*.go`) | session state, keys, IV, child SAs | main, aggressive and quick mode, XAUTH, mode config | IV and keys that every later message depends on, repeated and damaged messages | the ends stay in step, the child of the client is kept |
| Proposals (`ike/proposal.go`) | - | `SelectProposal`, `SelectV1Proposal` | optional key lengths, order of preference | what was chosen was offered together |
| Retransmission, fragments, DPD (`ike/retransmit.go`, `fragment.go`, `dpd.go`) | pending requests and timers, fragment caches | start, stop, timeout; add, reassemble, remove | timer racing an answer, order and size of fragments, four critical sections | giving up comes last, messages come out whole, every request settles |
| IKE payloads and crypto, ESP ciphers | - | parse, serialise, derive, encrypt | - | taken as ideal |
| Listeners, TUN, certificates, configuration, logging, CLI | sockets, files | I/O | - | not modelled |

### How components interact

Read loops call handlers synchronously. `HandlePacket` goes to a tunnel, the
tunnel to its control channel and to its sessions, a session to the pool and to
the TUN device. The control channel calls back into the tunnel (`onTimeout`).
IKE installs SAs into the ESP engine through the session manager, whose mutex, a
session's and the engine's are taken one after the other. There is no shared
lock order: the L2TP handlers take `s.mu`, `t.mu` and the session's mutex one
after the other and carry pointers from one critical section to the next. Most
of the hazards listed in `PROJECT.json` come from this, from UDP, and from
modular counters.

## 2. Modules

| Module | Models | Theorems in |
|---|---|---|
| `ReplayWindow` | `esp/replay.go`, as operators on a window record | `EspChannelProofs` |
| `EspChannel` | one SA end to end: `Encrypt`, network, `HandleInboundESP`/`Decrypt` | `EspChannelProofs` |
| `EspEngine` | the tables around it: SA database (`esp/sa.go`), SPD, default SA, outbound loop (`esp/engine.go`) | |
| `SessionManager` | `ike/session.go`: session and identity tables, eviction, installation of child SAs | `SessionManagerProofs` |
| `IkeProposal` | the IKEv2 half of `ike/proposal.go`, key lengths of a child SA | `IkeV2ExchangeProofs` |
| `IkeV2Responder` | `ike/server.go`, `ikev2_init.go`, `ikev2_auth.go`, `ikev2_eap_auth.go`, `eap.go`, `eap_mschapv2.go` | `IkeV2ExchangeProofs` |
| `IkeV2Exchange` | composition of the responder with a client, a network with faults, and restarts | `IkeV2ExchangeProofs` |
| `IkeV1Responder` | `ike/ikev1_*.go`, the IKEv1 half of `proposal.go`, key and IV derivation | `IkeV1ExchangeProofs` |
| `IkeV1Exchange` | composition of that responder with a client, a network with faults, and restarts | `IkeV1ExchangeProofs` |
| `Retransmitter` | `ike/retransmit.go` | `IkeExchangeProofs` |
| `FragmentReassembly` | `ike/fragment.go` | `IkeExchangeProofs` |
| `IkeExchange` | composition of the two, with a network and the answer to R-U-THERE of `ike/dpd.go` | `IkeExchangeProofs` |
| `AddressPool` | abstract: what an address pool promises | |
| `IpamPool` | `ipam/pool.go`; implements `AddressPool` | `L2tpServerProofs` |
| `ControlChannel` | `l2tp/control.go`, both ends over UDP | `ControlChannelProofs` |
| `L2tpServer` | `l2tp/server.go`, `tunnel.go`, the lifetime part of `session.go`, shutdown in `daemon.go` | `L2tpServerProofs` |
| `PppSession` | `HandleData`, `lcp.go`, `chap.go`, `ipcp.go` | `PppLinkProofs` |
| `PppLink` | composition of `PppSession` with a peer, one that follows the RFCs or one that does not | `PppLinkProofs` |
| `MC_*` | constants and symmetry for TLC | |

`EspChannel` extends `ReplayWindow`, `SessionManager` extends `EspEngine`,
`IkeV2Responder` extends `IkeProposal`, `IkeExchange` extends `Retransmitter` and
`FragmentReassembly`; each of the other compositions extends the component it
adds an environment to. `L2tpServer` uses the promise of `AddressPool` (any free
address, or a refusal when there is none) instead of the bitmap, and takes the
messages that the control channel accepts as inputs, in any order; any
retransmit tick may be the one that gives up. Clients and networks are external
to the repository and are marked so in `PROJECT.json`.

Where a module has two forms of a definition side by side (`childSPIs` and
`childSPIsFirst`), the second is a mutant: the code with a plausible mistake,
which `PROJECT.json` names together with the property it breaks.

### How state and actions correspond to the code

**ReplayWindow / EspChannel.** A window is `[rightEdge, bitmap]`, a bitmap a
function from word to the set of its bits (64 in the code: `WordBits`). A packet
is its sequence number, whether its ICV verifies, what its body is and the call
of `Encrypt` that made it. `Encrypt` counts in 64 bits and refuses past
`SeqMax` (2^32 - 1). The receive path is two steps because the window is
unlocked between them: `BeginDecrypt` (lookup, length checks, `Check`), then
`OpenFails` or `EndDecrypt` (ICV, `Advance`, trailer, dummy, rebinding,
delivery, in the order the two cipher families have them). One read loop
receives, so there is at most one packet between the two steps. `wire` keeps
every packet for ever: any repetition, delay and reordering is possible, and
`Damaged` adds datagrams with any header whose ICV fails.

**EspEngine / SessionManager.** The tables are functions from SPI, address or
identity to the session an entry belongs to; what an SA does with packets is
`EspChannel`. A session stands for its SPI pair, the responder's half of which is
random and fresh. `Register*` and `Delete*` hold `sm.mu` from end to end and are
one step, eviction included; `InstallV2ChildSA` and `InstallV1ChildSA` are three
critical sections of three mutexes (`installInbound`, `installOutbound`,
`installBind`), run by workers beside everything else. The outbound loop looks
an SA up under the engine's lock and uses it after the lock: two steps. `late`
(sessions that were installed, in part, after their eviction) and `raced`
(addresses whose last binding was disturbed between the two mutexes) are history
variables that no guard reads; they say for whom a property is claimed.

**IkeProposal.** Our proposals are functions from transform type to transform,
a peer's are sets of transforms. The choice, with optional key lengths and our
order of preference, is an operator; `BothEndsAgree` compares its result with
what the client offered.

**IkeV2Responder.** A read loop takes a packet (parse, look the session up, read
its state without the mutex to choose a handler, `server.go:102`) in one step
and runs the handler, which holds the session's mutex, in another: the state may
have changed in between. A session's number stands for its SPI pair, nonces and
keys, so a message can be opened by the ends of that session only; AUTH data is
a proof of a secret bound to session and identity. `epoch` counts the starts of
the daemon, which draw a new cookie secret and forget all sessions. What the
parser makes of an encrypted message is an operator of its own: a message
framed by RFC 7296 is refused, one whose SK payload ends the chain is read.

**IkeV1Responder.** A handler maps session and message to the session it leaves
and the response. Keys are the pre-shared key, the responder's nonce, the cipher
and its key length; an IV is named for the message whose last block it is. That
is what lets the ends fall out of step, and all that the properties need of the
cryptography. `server.go` calls `HandleMainMode1` and `HandleTransaction` only;
the other handlers are called as their comments describe.

**Retransmitter.** An expired timer is a goroutine that waits for the lock
(`fired`), one about to send after it has released it (`due`) or one about to
call `timeoutFunc` (`giveUps`). `Stop` and `StopAll` stop timers but not
goroutines that already run.

**FragmentReassembly.** `ReassembleFragment` is four critical sections: get the
cache, add, reassemble, remove. Caches are objects, so that a loop may hold one
that the manager has already removed.

**IpamPool.** `bitmap` and `nextFree` as in the struct; `lease` records who holds
which address, `refused` who was last refused. A client is a caller that holds
at most one address, as every session of the daemon does. `Release` takes
whatever address it is given: the caller's own, or one that is free, which is
what a double release is. That a caller returns an address which somebody else
holds by now is excluded here; `AddressExclusive` of `L2tpServer` is about the
caller that has to see to it.

**ControlChannel.** `sendNs`, `recvNr` and `pending` are the fields of the same
names; the queue `pending` is a function from the unwrapped count of a message
to its number Ns and its retries, as the messages of the queue are in the order
of their counts. Every datagram also carries the unwrapped counts it was made with; no
guard reads them. `locked` is `cc.mu`: `Send` writes to the socket while it
holds it, so it is two steps, and the end of `CheckRetransmit` is three
(`GiveUp` releases the lock, `OnTimeout` is the callback, `DeferredUnlock` the
deferred unlock). Which messages are due is left to the clock.

**L2tpServer.** Tunnels and sessions are objects that outlive the maps that
forget them. A handler is a small program counter (`handler[h].at`) with the
pointers it carries; each action is one critical section. The retry limit is two
steps: `onTimeout` marks the tunnel dead and leaves its sessions open and its
maps as they are (`timedOut` remembers it), and the other goroutines go on until
`deferredUnlock` ends the process (finding `control_fatal`). After the ICCN,
`GetSession`, `allocateIP` and `InitPPP` are a step each, under a lock each.

**PppSession.** One frame is one step, because `HandleData` holds the mutex. The
options of a request are reduced to the verdict on them; a CHAP response to the
user, whether the password was right and which challenge it answers. `proved` is
a history variable that no guard reads.

**PppLink.** What is assumed of the peer that follows the rules: the link keeps
the order and loses nothing; the peer knows the password; it asks for other
values of our options at most `MaxRefusals` times (RFC 1661 ends this with
Max-Failure) and then takes ours; an option that it does not know it rejects in
every request (`rejects`), be it the authentication, another of LCP or the one of
IPCP. CCP starts with the network protocols, but one CCP request may come
before, at any time. `crossed` is a history variable: such a request arrived
while our last LCP request was unanswered.

## 3. Runs

Runs that pass:

| Run | Instance | Shows |
|---|---|---|
| `esp` | two 2-bit words, numbers to 5, 7 calls of `Encrypt`, both suites, four kinds of body, two addresses | the bitmap is the RFC window, forged packets do not move it, numbers do not repeat past the end of the space, no double delivery, rebinding only by fresh authentic packets |
| `ipam` | 4 addresses, 5 clients, double releases | bitmap and hint implement the abstract pool |
| `control` | numbers modulo 8; 9 sends one way, so that they wrap, or 2 one way and 1 the other; up to 2 outstanding and 3 of one sender in the network, 1 retry | in order, once, nothing lost; every queue empties or is given up |
| `l2tp` | 2 read loops, 2 tunnels with the same key, 2 sessions, 1 address (3.4 million states) | addresses exclusive; a dead tunnel has no open session, but one that a CDN is about to close or those of a tunnel that timed out; both maps in step, nothing revived |
| `ppp` | two users, a stranger, identifiers modulo 4; a peer without rules, or one with rules, up to 3 Naks, no or one unknown option and no or one early CCP request | no data before authentication, identity settled; with the rules the link comes up, except exactly where the peer does not know an option of ours or its CCP request crosses our LCP request |
| `ike_sessions` | one IKEv1 and one IKEv2 session, one identity, one address, 3 SPIs of which one is reserved, 2 workers, 2 child SAs each (2 million states) | the identity table is exact, eviction leaves nothing behind, routes follow bindings, the outbound loop falls silent; each but for what was installed or bound across an eviction |
| `ikev2` | 13 clients, 3 configurations, 2 read loops, 2 faults (1.2 million states) | one child SA per session, both ends agree on all they negotiated, a welcome client gets through |
| `ikev1` | 13 clients in both modes, 3 faults (1.8 million states) | keys and IV stay in step, the client's child SA is kept, no session gets past phase 1 and no user is accepted without proof |
| `ike_exchange` | intervals 1 and 3 seconds, 2 retries, 2 faults, 2 read loops; a message in two fragments, the same sent again in three, two R-U-THERE at a time (0.5 million states) | messages come out whole, giving up comes last, every request is answered or given up, and every request in fragments is put together at the other end, unless the session is closed or the request repeated in fragments of another size |

Runs that find a disagreement between the code and what the repository says of
it (one finding each in `PROJECT.json`):

| Run | Property | What happens |
|---|---|---|
| `control_fatal` | `GivingUpIsNotFatal` | at the retry limit `cc.mu` is unlocked twice, which ends the daemon |
| `l2tp_leak` | `NoAddressLost` | a session closed between `allocateIP` and `InitPPP` keeps its address for ever |
| `ikev2_wire` | `RfcClientGetsThrough` | `ParsePayloadChain` follows the next-payload field of an SK payload, which RFC 7296 uses for the first payload inside it: IKE_AUTH by the RFC is dropped as truncated |

### Seen while modelling

The following were met while the code was translated. The models follow the code
in each; where a property has an exception because of one, its comment says so.
The hazards of `PROJECT.json` are those that properties answer, and two that are
still open: a local tunnel ID that wraps onto a live tunnel (`l2tp/server.go:213`)
and first PPP requests that are sent only once (`l2tp/session.go:147`).

L2TP and PPP:
- `Close` walks the tunnels by key and misses one whose key was taken over by a
  repeated SCCRQ; CDN is looked up by the peer's ID among local IDs
  (`tunnel.go:299`); after StopCCN the goroutine `Run` stays.
- `Send` never reads `peerRecvWindow`, although the channel "Implements RFC 2661
  §5.8: sliding window" (`control.go:39`).
- `handleConfigureReject` "Removes rejected options and re-sends."
  (`lcp.go:339`), and says of the magic number that it is "removing" it; but
  `BuildConfigureRequest` sends the same three options every time (the magic
  number then as 0), so a peer that does not know one of them rejects for ever.
  A Configure-Reject of IPCP is dropped (`ipcp.go:161`). `LinkComesUp` says that
  the link comes up with neither.
- A failed CHAP may be tried again; a Protocol-Reject makes the Ack of our own
  request unrecognisable (`LinkComesUp` has this case too); `checkOpened` opens LCP from every state, the `Closed`
  of a rejected authentication included, although "if peer rejects auth, session
  will fail" (`lcp.go:342`); a Terminate-Request closes LCP but leaves the
  session in its data phase (`lcp.go:376`).

ESP:
- Rebinding moves the peer address of the inbound SA only; the outbound SA of the
  same peer goes on sending to the old one (`engine.go:436`).

IKE sessions and IKEv2:
- The server registers a session before the peer's identity is known
  (`server.go:91`), and an identity learnt later enters no table: one connection
  per identity (`docs/ARCHITECTURE.md:192`) holds for aggressive mode only.
- A session evicted between the critical sections of an installation leaves its
  SPD entry or its binding behind. Half-open sessions never expire.
- `HandleInformational` wants a `RawPayload` (`info.go:21`) where the parser
  makes an `SKPayload`: a DELETE does not reach the session manager. The server
  has no case for CREATE_CHILD_SA.
- The SPI to send to is taken from the peer's first proposal whichever is chosen
  (`ikev2_auth.go:162`); `buildAuthError` answers with message ID 1 in every
  round; a CBC child can be negotiated but `buildESPSA` refuses it;
  `CookieModeAuto` never demands a cookie (`ikev2_session.go:47`).

IKEv1:
- The server goes no further than the first message of main mode and the
  transaction exchange: it has no case that calls the other handlers. The models
  therefore say what the handlers do with a message, and promise no IKEv1 client
  that it gets through.
- `computeV1Hash` leaves out SAi_b, "omitted in simplified PSK mode"
  (`ikev1_main.go:371`), which its own comment (`ikev1_main.go:347`) and RFC 2409
  include. The clients of the model compute it as the code does; one
  that follows the RFC is refused.
- A damaged message 5 moves the IV and the identity before it is refused, and so
  spoils the session for the genuine one. Mode config and transactions verify no
  hash: a damaged message is taken for what it decrypts to, if its payloads can
  be read. `PeerIsProved` holds all the same.
- The initial IV is made from the nonces, where its comment has the public
  values (`ikev1_main.go:479`). If the peer leaves the key length out, ours is
  used; after 3DES was negotiated, a 192-bit AES key is used (`crypto.go:327`).
- Quick mode wants `Established`, which XAUTH leaves: a client authenticated by
  XAUTH gets no child SA, unlike `docs/WORKFLOW_IKEV1.md:57`.
- The identity of aggressive mode is taken for an IPv4 address. A repeated mode
  config request takes another address, and is answered as an informational
  exchange (`ikev1_aggr.go:383`).

Fragments:
- A late copy of a fragment of a finished message makes a cache that nothing
  removes; until then the same message in fragments of another size is refused.
  The first payload type is lost when fragment 1 is not the one that completes
  the message; a comment leaves that to the caller (`fragment.go:412`).
- `FragmentSKPayload` encrypts with SK_er and SK_ar and authenticates a header of
  length 0 (`fragment.go:243-292`), `ReassembleFragment` decrypts with SK_ei and
  SK_ai over the header as received (`fragment.go:366-379`). The keys are those of
  the two directions of a responder, so the one function does not undo the other;
  and the header that is authenticated is not the one that is sent. `IkeExchange` leaves the decryption out: it takes every
  fragment for authentic and is about the caches behind it.

### Bounds, and why they are enough

`WordBits`, `Words`, `SeqMax` are parameters; two words of two bits are the
smallest bitmap with a carry between words, and 5 numbers over a window of 4
include shifts inside a word, across one and out of the window; two calls of
`Encrypt` lie past the end of the numbers. The theorems then remove the bound.
The pool has more clients than addresses, so it fills and refuses.

`MaxOutstanding` and `Lifetime` are assumptions of the environment rather than
bounds of the search: a modular comparison cannot tell old from new when
datagrams live arbitrarily long, and `SpaceAssumption` says how much the
comparison of `seqLessThan` needs. With `Lifetime` 3 a datagram may
arrive until its sender has sent a third one behind it, so up to three messages
of one sender are in the network together and overtake each other; nine sends wrap the numbers of
`Modulus` 8. UDP gives no such bound, and 2^16 numbers need one all the same. With `MaxTunnels` and `MaxSessions` below `IdSpace`, no ID is
used twice; reuse after 65535 is a listed hazard that these instances leave out.
Two read loops are all that the daemon has. `HandlerSymmetry` permutes the two
loops, which behave alike; no liveness is checked with it.

One session of each kind is the smallest instance in which one evicts the other;
with `MaxChildren` 2 the second child is a rekey, and both may be installed at
the same time. `Symmetry` of `MC_SessionManager` permutes alike SPIs and
workers; the run checks invariants and one action property, for which this is
sound. The theorems of section 4 remove the bounds of every component.

`MaxFaults` counts losses, copies, overtakings, damage and restarts together. A
client repeats a request once and makes one attempt more than there are faults,
so that every fault may cost it a whole attempt and the last is undisturbed: this
is why the liveness properties are true, and nothing weaker is. In `IkeExchange`
the faults do not exceed `MaxRetries` (`MaxFaultsAssumption`), the number of
losses that the retransmitter promises to survive; giving up is still reached,
because an answer may come late. The clients differ from one that is
served in one respect each (credential, identity, offer, group, framing,
completeness, EAP type), so that every refusal of the handlers happens.

`CHECK_DEADLOCK FALSE` is set where a behaviour ends: a bound on sends or child
SAs is used up, the process ends, a session is closed, or the client is connected
or refused and nothing is on its way. `ipam` checks for deadlock.

### Fairness

Safety runs assume none. `ControlChannel` assumes that the ticker fires, that
goroutines are scheduled and that a write to a UDP socket returns; the network
may lose everything. `PppLink` assumes that the read loop handles what arrives
and that the peer answers and repeats its own request. The server itself repeats
nothing in PPP, and no fairness of such a timer is assumed. A peer that follows
no rules owes nothing. `IkeV2Exchange` and `IkeExchange` assume
one thing: that somebody goes on (`WF_vars(Progress)`), be it a read loop, a
timer or the client. The Go scheduler, timers and sockets guarantee more than
that. No order is assumed between them and no fault has to happen.

## 4. Proofs

`tlapm` checks every theorem; nothing is taken on trust beyond the `ASSUME`s.

**The replay window, for every word size and number of words.**
`ShiftBitmapEffect` says that bit `o` after a shift by `n` is bit `o - n` before
it; the word shift and the bit shift with its carry are treated apart, by
division with remainder. `CheckExact` and `AdvanceRecords` lift this to windows:
`Records(w, acc)` says that the right edge is the largest member of `acc` and the
bitmap its members within the window; `Check` decides membership exactly, and
`Advance` keeps the record.

**The channel, for every window, sequence space, suite and pattern of loss,
repetition and damage.** `DeliveredOnce` is not inductive: it needs to know that
a delivered packet is recorded in the window, that the window records exactly
the accepted numbers, that packets on the wire are numbered by their call of
`Encrypt`, and that the packet in the receiver's hands still passes `Check`
(there is one receiver). `IInv` is the conjunction of these. `AntiReplay`,
`WindowIsExact`, `EdgeAuthentic`, `SeqUnique` and `PeerFollows` follow from it.

**The session manager, for every set of sessions, identities, addresses, SPIs
and goroutines.** None of the three invariants is inductive. `evictSessionLocked`
removes the SPIs of the session's own children and the first address it finds;
that this is everything needs `Owned`: the SA database and the bindings name a
session only for its children and for its one address. Whoever is in the middle
of an installation has such a child and address in hand (`InstallInv`).
`StateInv` keeps the state of a session in step with the session tables, without
which the identity table could name somebody gone. `WindowInv` says that an
undisturbed binding finds the route it has just installed; with it
`RouteMatchesBinding` survives `installBind`. There is one lemma per action, and
`Eviction` and `EvictionKeeps` serve registration and deletion alike.
`IdentitiesExact`, `EvictionIsComplete` and `RoutesFollowBindings` are the
invariants; `QuietOnceEvicted`, an action property, follows from the last two: a
route of an evicted session would have to agree with a binding that it no longer
has.

**The pool, for every size and set of clients.** `ProbeOnto` says that one turn
of `Allocate` visits every index, wherever the hint is; hence a refusal means
that the pool is full. `IInv` ties the bitmap to the leases. `PoolSafe` states
the invariants, `PoolRefines` that `IpamPool` implements `AddressPool`.

**A PPP session, for every user database and identifier size, with any peer.**
`DataAuthenticated` needs `PhaseInv`: in the CHAP phase the challenge of this
session has been sent, so a response that verifies answers it, and a name is
empty until that phase ends, so none is replaced. `IdentitySettled`, an action
property, follows step by step.

**The control channel, for every size of the number space and any number of
messages.** Neither `InOrderOnce` nor `NothingLost` is inductive. Both rest on
how far numbers in use can be apart: `QueueOK` (an end's queue is an interval of
counts that ends with the last message sent and begins no later than what the
other end expects) and `NetOK` (a datagram in flight is recent). With
`SpaceAssumption` the lemma `SeqLess` then says that wrapped numbers compare as
the counts do, which is all that `Receive` and `acknowledgeUpTo` need.

**The L2TP server, for any number of read loops, tunnels, sessions and
addresses.** Four invariants, one on top of the other. `Base`: what a handler's
local variables point at exists. `Addresses`: sessions that are not closed, and
handlers between `allocateIP` and `InitPPP`, hold leased addresses, each its
own; this gives `AddressExclusive`. `SessionsKept`: an open session is in its
tunnel's map or in the hands of a CDN, and the map of a tunnel that a StopCCN or
`Close` made dead is empty (`TornDown`; a timeout empties nothing); this gives
`DeadTunnelIsEmpty`. `Registered`: the local IDs are the tunnels in the
order of their creation, and both maps agree; this gives `TunnelReachable`. The
last two are stated for fewer sessions, or tunnels, than IDs
(`MaxSessions < IdSpace`, `MaxTunnels < IdSpace`): the code does not ask whether
the next ID is taken, and without the hypothesis they are false. It is a
hypothesis of the two theorems, not of the model; `TypeOK`, `AddressExclusive`
and `NothingRevived` are proved without it, wrapped IDs included.

**Retransmission and fragments, for every set of requests, fragmentation, retry
limit and number of read loops.** `GivesUpLast` needs `Counted`: what was sent of
a request, and what goroutines are about to send after releasing the lock, is
what the request has counted. `DeliveredIntact` needs `CachesPure` (a cache holds
fragments of one fragmentation, each in its place) and `CachesApart` (a cache is
used for one message by the map and by all loops, those included that hold a
cache the manager has removed).

**IKEv2, for every set of clients, credentials and SA payloads and any number of
faults and read loops.** `ExchangeInvariant` ties five things together: sessions
(what was negotiated is a choice from one offer, and the keys belong to it),
requests on their way, what a read loop has in hand, responses, and the client.
`OneInitialChild` rests on the pending SA being cleared with the first child and
on an empty offer being refused; the stale state with which a loop chose its
handler does no harm, because a session routed to EAP has left `InitRecv` for
good. `BothEndsAgree` needs that the responder's MSK comes only from the client's
own answer to the standing challenge, so that a challenge drawn again cannot
replace it, and that the chosen proposal was offered as a whole. The latter is
about `SelectProposal`, which takes the first pair that fits in order of
preference: `FirstPair` and `Chosen` get it from the well-foundedness of the
natural numbers.

**IKEv1, for every set of clients, keys, credentials and SA payloads and any
number of faults.** `EndsInStep` and `ChildKept` compare a client with the one
session it names; of the other sessions that copies of message 1 make, nothing
is asked. `Moves` says what no handler does: change keys once they are derived,
leave phase 2, change the IV or the identity there, or forget a child SA.
`ReplyFor` says what a response in flight tells of its session: a hash is made
with the keys the session still has, and a quick mode answer names a child it
still has. A client that accepts the hash therefore shares pre-shared key and
nonce with its session (`Verified`). That the cipher keys have the same length is
the choice of the transform (`SameKeys`): a configuration with AES names its
length, and it matches a length the client names. `PeerIsProved` is about every
session, the ones left behind included: it needs that a hash in flight which
verifies was made with the pre-shared key of its session and over the identity
it names, and that what a damaged message is read as is no credential.

Of every component the type invariant is a theorem too, and of the pool
that the bitmap is exactly the leases (`BitmapIsExact`).

Assumptions, each evaluated by TLC in the runs:
- ESP, pool: positive word size, word count, pool size and sequence space;
  `NoPkt` and `NoAddr` are not packets or numbers.
- Session manager: reserved SPIs are SPIs, the two kinds of session are disjoint
  and together own the SAs, the value `None` is none of these, the empty identity
  is no identity, `MaxChildren` is a natural number.
- PPP: users and strangers have different, nonempty names.
- Control channel: two ends, an even `Modulus` above 3, a natural `MaxRetries`,
  and `SpaceAssumption` (see Bounds).
- L2TP server: IDs from 1 to `IdSpace - 1`, natural bounds, no address is `NoIP`.
- Retransmission: intervals and limits are natural numbers in order, only
  fragmentable requests come in fragments, faults do not exceed `MaxRetries`.
- IKEv2 and IKEv1: SA payloads are sequences, and a client offers some of them,
  not empty in IKEv1, and uses a method and an EAP type, or a mode, that exist;
  key lengths are natural numbers; what a damaged message is read as (`junk`) is
  in no credential.

Only model-checked:
- all liveness (`ClientGetsThrough`, and what `control`,
  `ppp` and `ike_exchange` say must eventually happen): out of the prover's
  reach;
- the properties of the runs that find a disagreement, which are false.

## 5. Not modelled

Cryptography is ideal: an ICV verifies or it does not, a CHAP response was
computed from the password or not, AUTH data proves a secret. Byte formats,
padding, logging, timestamps, statistics, MRU, magic numbers, DNS options,
traffic selectors and NAT detection are left out. The wiring of the daemon
leaves `Server.Sender` of the L2TP server unset, so that replies are not sent in
the current build; the models take the server as its code and tests describe it,
with a sender.

- EAP-TLS (`eap_tls.go`): nothing sets it up, so its messages are dropped, which
  is what `IkeV2Responder` does with them. Signatures of certificates: the code
  defers their verification to an integration still to come
  (`ikev2_auth.go:389`), and `verifyAuth` of the model follows it.
- CREATE_CHILD_SA (`HandleCreateChildSA`): no caller; its effect on a session is
  `NewChild` of `SessionManager`.
- Path MTU (`esp/pmtu.go`): a table of its own, not modelled yet. The
  configuration watcher likewise.
- The parsers of the proposal strings in the configuration: nothing reads them.
- Listeners, TUN device, certificates and exporters, command line, loading of
  configuration and profiles: operating system I/O without state of interest;
  the goroutines they start are the read loops of the models.

## 6. Plan

Every invariant and every action property that a run checks is proved. Left:

1. `L2tpServer` with an ID space that wraps: what still holds when a local ID is
   given again while its tunnel lives.
2. Path MTU and the configuration watcher.
