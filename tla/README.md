# A TLA+ model of BareSip-Android

BareSip-Android packages the *baresip* SIP user agent and the libraries it is
built from (*re*, the protocol stack, and *rem*, the media toolbox) for
Android.  The Java activity is an empty shell; the program is the C code under
`src/jni`.  This directory holds TLA+ models of the parts of that code whose
correctness depends on the order in which things happen, or on two ends that
must agree, the TLC runs that check them on small instances, and TLAPS proofs.

## Inventory

The stack runs in one thread, the event loop of `re/src/main`: a socket, a
timer or a command calls one handler, which runs to its end.  Concurrency is
therefore mostly the order of handlers: responses against application calls,
retransmissions against timers, the peer's requests against our own.  The
devices, the mixers and the audio and video of a call have threads of their
own; what keeps them apart is the order in which things are stopped and freed,
and a few locks.  Objects are reference counted (`re/src/mem`): what is hard is
that any callback may release the object whose handler is running.

| Part | Source | State | Operations | Hard behaviour |
|---|---|---|---|---|
| sessions | re/src/sipsess | `struct sipsess`, replies, INFO requests | connect, accept, progress, answer, reject, modify, info, close | release during callbacks, glare, BYE after a pending INVITE |
| transactions | re/src/sip/{ctrans,strans}.c | state, timers, last reply | request, reply, cancel, ACK, retransmit | loss, duplicates, late answers, CANCEL crossing a 2xx |
| requests | re/src/sip/request.c | DNS records, current target | request, cancel, DNS answers, response | failover, cancel during a lookup |
| transport | re/src/sip/{transp,keepalive}.c | connections, send queues | send, receive, keepalive, close | a connection dies with requests queued, handlers release others |
| dialogs | re/src/sip/dialog.c | route set, tags, numbers | create, fork, update | forks, late answers |
| registration | re/src/sipreg | expiry, timer, failure count | register, response | retry, un-REGISTER on release |
| event packages | re/src/sipevent | subscriptions, notifications | subscribe, notify | NOTIFY before the 2xx, release |
| SDP | re/src/sdp | local and negotiated media | offer, answer, decode | order of m= lines, refusals |
| DNS | re/src/dns | queries, servers, connections, records | query, answer, timeout, encode, decode | nested failure, compressed names |
| TCP | re/src/tcp | queue, events | send, receive, close | a socket that takes a part |
| STUN, TURN, ICE, NAT discovery | re/src/{stun,turn,ice,natbd}, modules | transactions, allocations, check lists | request, refresh, check, gather | retransmission, role conflict, release in handlers |
| RTP, RTCP, jitter buffer, keys | re/src/{rtp,jbuf,telev} | members, numbers, frames | receive, report, put, get, press | loss, reorder, wrap of numbers |
| BFCP | re/src/bfcp | requests, connection | request, answer | numbers that wrap, pieces |
| loop, timers, lists, memory | re/src/{main,tmr,mqueue,list,hash,mem} | descriptors, timer list, pointers | listen, start, poll, unlink | change from inside a handler, other threads |
| calls, agents, presence | baresip/src/{call,ua,net,main}.c, modules/presence | calls, accounts, stack | connect, answer, hang up, transfer, stop, suspend | events in every state, release inside events |
| audio and video of a call | baresip/src/{audio,video}.c, rem/src/aubuf | codecs, devices, buffers | set codec, start, stop, mute | threads |
| mixers | rem/src/{aumix,vidmix} | sources, frames | enable, put, mix | threads |
| drivers and displays | baresip/modules | device, thread, buffers, windows | alloc, callback, release | thread against release, failure half way |
| video codecs | modules/{avcodec,vpx} | pieces of a picture | encode, packetize, decode | lost packets |
| audio codecs, buffers | 13 codec modules, modules/plc, re/src/mbuf | positions and room of a buffer, what a codec holds | make, encode, decode, conceal, destroy | sizes of packets, failure half way, a loop over the frames of a packet |

What makes the parts correct, in short: an object is freed once, after its
last user and never before; a request has one result and is served once,
whatever the network does; the peer is never left with something this end has
forgotten (a dialog, a binding, a subscription); a thing that waits has a timer
or a request that ends the wait; the user hears events in an order that makes
sense; two ends that negotiate mean the same; what was encoded is what is
decoded; media come out in order; and a thread uses what another one freed only
in the places that are listed below.
The hazards listed in `PROJECT.json` name the lines where each of these could
go wrong.

## Modules

Each module models one component; handlers are atomic because the event loop
runs one at a time, and what other threads may interrupt is cut into steps.
Data that no decision depends on (addresses, header text, samples, pixels) is
left out; status codes are reduced to the classes the handlers tell apart.
Definitions named `X_Something` right before `X` are deliberately wrong
variants of `X`, which show that a property, or a conjunct of one, can fail;
nothing else uses them.

| Module | Models | State | Relation to the others |
|---|---|---|---|
| `SipSess` | re/src/sipsess | one session record with its reference count, replies, INFO requests, re-INVITE timer | requests end once, as `SipRequest` shows |
| `SipSessProofs` | | | proofs about `SipSess` |
| `SipTransProofs`, `SipEventProofs` | | | proofs about `SipTrans` (with `SipExchange`), and `SipRequest`, `SipReg`, `SipSub`, `SipNot` as `MCSip` puts them together |
| `CallProofs`, `TransportProofs` | | | proofs about `Calls`, `SipDialog`, `Presence`, `Mixers` and three machines of `Devices` (wave ring, displays, radio), and about `SipTransp`, `DnsClient`, `IceChecks` and `NatBd` |
| `NetProofs`, `OrderProofs` | | | proofs about `Tcp`, `BfcpSock`, `MediaNat` and `StunTurn`, and about `Jbuf`, `EventLoop`, `Rtp` and the keys of `Payloads` |
| `SipExchange` | the promise of a transaction | asked, seen, answer, result | abstract specification |
| `SipTrans` | re/src/sip/{ctrans,strans}.c, `sip_request_cancel` | client and server transactions, messages under way, both users | implements `SipExchange` |
| `SipRequest` | re/src/sip/request.c | the request, its DNS queries, targets left, the user's pointer | takes the client transaction as `SipTrans` shows it |
| `SipLoop` | `sip_request_loops` | loop counter | used by the three below |
| `SipReg` | re/src/sipreg/reg.c | registration, its timer, the binding at the registrar | |
| `SipSub` | re/src/sipevent/subscribe.c, `notify_handler` | subscription, its own references, the notifier at the other end | |
| `SipNot` | re/src/sipevent/notify.c, `subscribe_handler` | notifier, version of the state, what the subscriber holds | |
| `SipDialog` | re/src/sip/dialog.c | the dialogs of a caller and of the agents its request forked to | |
| `SipTransp` | re/src/sip/{transp,keepalive}.c | connections, queued messages, the walk under way | |
| `Tcp` | re/src/tcp | queue, events, helper, the byte stream | |
| `DnsClient` | re/src/dns/client.c | queries, connections, calls under way | |
| `DnsMsg` | re/src/dns/{dname,rr,hdr,cstr,rrlist}.c | octets, table of names, decoded records | |
| `Sdp` | re/src/sdp | media and formats of two sides | |
| `StunTurn` | re/src/stun/{ctrans,keepalive}.c, sip/keepalive_udp.c; re/src/turn | transactions, mapping, flow; allocation, permissions, channels, what the server holds | |
| `AttrMsg` | re/src/stun/{msg,attr,hdr,addr}.c, re/src/bfcp/{msg,attr}.c | the decoder's walk over attributes, an encoded message; attributes in attributes | |
| `IceChecks` | re/src/ice (checks) | pairs, states, selection | |
| `MediaNat` | modules/{stun,turn,ice}, re/src/stun/dnsdisc.c, re/src/ice/{icem,cand,comp,icesdp,gather}.c | session of a call, its media and components, the queries for a server; candidates and pairs of an ICE object with their references | the promise of `DnsClient`, `StunTurn` and `IceChecks` as single steps |
| `NatBd` | re/src/natbd, modules/natbd | tests, results, the NAT | |
| `Rtp` | re/src/rtp | members and senders; sizes in compound RTCP packets | |
| `Jbuf` | re/src/jbuf, baresip/src/stream.c (receive) | frames, pool, numbers, network | |
| `Payloads` | re/src/telev, keys in audio.c; modules/{avcodec,vpx}; 13 audio codecs, re/src/mbuf | buffer of keys, packets, what was heard; packets of a picture, pieces received; the buffers of a codec and what each byte of them holds | |
| `BfcpSock` | re/src/bfcp/{sock,req,rep,transp}.c | requests on a connection | its messages in `AttrMsg` |
| `EventLoop` | re/src/{main,tmr,mqueue} | descriptors, events, timers, pipe | |
| `Lists` | re/src/{list,hash,mem} | the pointers as they are, and what they should hold | |
| `Calls` | baresip/src/call.c, call events of ua.c | calls, alert timer, shared notifier of a transfer | sees of a session what `SipSess` shows |
| `Agent` | baresip/src/{ua,net,main}.c, re/src/sip/sip.c | accounts, registrations, stacks and their references, addresses | |
| `Presence` | modules/presence | contacts, watchers, references to agents | on `SipSub` and `SipNot` |
| `Streams` | baresip/src/{audio,video}.c, rem/src/aubuf | codecs, devices, the audio buffer, what each thread is inside of | |
| `Mixers` | rem/src/{aumix,vidmix} | sources, threads, frames | |
| `MediaPath` | re/src/udp (helpers), modules/srtp, rtpkeep.c, stream.c | helpers of the sockets of two ends, datagrams under way, a relay | puts the data paths of `StunTurn` and `IceChecks` on one socket with SRTP and RTP |
| `Devices` | 25 drivers, winwave and the radio; five displays | what was opened, who is inside it | |

`MCSip`, `MCAgent`, `MCCalls`, `MCNet`, `MCNat`, `MCPackets` and `MCDevices`
give constants their values (`SipSess.cfg` does so for `SipSess` directly).
Each holds several components that share no variable.  A variable `part`,
chosen in the first state, says which component a behaviour is about; the
others stay in one state in which no action that fairness speaks of is enabled.
So a run explores the sum of the components' states and not their product, and
the fairness of one component does not restrict the behaviours of another.
The properties of such a run are conjunctions, named in the `MC` module or in
the component, of what each component promises.

### Notes on single modules

**SipSess.**  The functions that handlers share (`termwait`, `terminate`, the
destructor, `mem_deref`, `sipsess_terminate`, `sipsess_reinvite`,
`sipsess_reply_2xx`) are operators from session record to session record, and
every handler is an action built from them.  The destructor may take new
references and refuse to die, which is why `mem_deref` looks at the count
twice.  Outcomes of the world are parameters: a BYE that can be sent (`ok`), a
request that can be sent (`send`), an application that releases the session
inside the close handler (`drop`).  The application releases its session only
there or outside of callbacks, as `call.c` does.  `uaf`, `closes`, `estabs`,
`orphan` and `bye` are history: they record what a handler did, no decision
reads them.

**SipTrans.**  The network over UDP is a set of messages: delivery leaves a
message there (duplication, reordering) and `Lose` removes it.  Over a
connection messages arrive once.  A forking proxy may bring a copy of the
request on a second branch.  The refinement mapping to `SipExchange` takes the
server's user of the branch that was served and the client's user.

**SipRequest.**  Lists of SRV and address records are counters; a DNS answer
fills them with any number up to its bound.  The user may cancel, release or
lose the stack in every state.  A request without a transaction is freed when
`request_next` returns, also when that only started a lookup: its user's state
is then `dropped`, as nothing was sent.

**SipReg.**  Waiting times are kept in milliseconds modulo the word size, so
that the products `wait * 900` and the back-off can overflow in the model where
they could in the code.  So is the delay of a subscription's renewal.

**SipSub and SipNot.**  Both objects hold a reference to themselves after the
application let go, as long as an answer (or, for a subscription with Expires
zero, the last NOTIFY) is to come.  The far end of each is an external process
that may accept, challenge, refuse, or act on a request whose answer is lost.
Fork handlers are left out: no caller in the repository installs one, so a
subscription has one dialog, and a 2xx of another one is ignored, without a
timer or a request after it (`ignored`).

**SipDialog.**  `dlg->route` is a pointer into the buffer of headers or into
the target, so the model keeps which of the two it points into, and replacing
either is a step that could leave it behind.

**SipTransp, DnsClient.**  Closing a connection walks a list and calls a
handler for each entry with the next one remembered.  The walk is therefore
several steps, between which the application acts as a handler may.  What makes
the walks safe is different: in `SipTransp` a request that is given up is only
cancelled (so nothing another entry needs is freed), in `DnsClient` the entry
is unlinked and counted.  A peer may have several connections, since an incoming
one is taken without a look at the others; a request goes over any of them.  The
transports are flushed at any time, as `uag_reset_transp` does it on a change of
network: a connection that a held message keeps loses the reference of the stack
(`flushed`) and goes on with its socket and timers.

**Tcp.**  The stream is counted in bytes, and the socket takes any part of what
it is given, so that the split of an entry over several writes is explored.

**DnsMsg, AttrMsg, Rtp (RTCP).**  Encoders and decoders are modelled by
the sizes, offsets, pointers and order of what they write and read, and a
decoder takes one element a step.  Values inside an element are opaque.  The
decoder of STUN also meets messages whose lengths are whatever the sender
wrote.  That of DNS meets records of which one octet is another or the end is
missing (`ForeignRr`), and, where it expects names, all sequences of six octets
that are lengths, pointers into the message or the end of a name
(`ForeignNames`): names that point to themselves, to each other, into labels and
out of the message, and names longer than the buffer they are read into.  That
buffer has 256 octets in the code and 8 in the runs, an even number too, so that
labels of one letter fill it to the last octet but one.

**IceChecks, MediaNat, NatBd.**  Candidates are the local and remote one of
each component and the reflexive ones learnt during the checks.  `MediaNat`
takes a STUN or TURN exchange, and a DNS query, as one step that ends it, as
`StunTurn` and `DnsClient` show.  Its second half is the ICE object of a medium,
with which the first shares no variable: candidates and pairs are numbered as
they are made, and a `mem_deref` that frees one follows its references as the
destructors do.  There a connectivity check is one step, its paths are those of
`IceChecks`.  `NatBd` knows what the NAT really does, and compares the results
with it.

**MediaPath.**  Two ends with the same features, one of them behind a relay.  A
datagram is what the helpers see of it: addresses, the relay's header, whether
it is protected, its kind.  The TURN client registers at any time before the
offer goes, so that the order of helpers is that of their layers and not that
of registration.  The relay and the network are external.  RTCP has its port
only when it is multiplexed with RTP; its own socket has the same helpers.

**Jbuf.**  Sequence numbers wrap at `SeqSize`; a sender numbers packets without
gaps and may start again with another source.  `rtp_recv`'s calls of `jbuf_put`,
`jbuf_get` and `lostcalc` are one action.

**Calls.**  Up to three calls of one user agent with medianat, answer modes,
tones, the local time limit and REFER.  The notifier of a transfer is shared by
the original and the new call, as `call_alloc` does.

**Agent.**  Every stack that was opened is followed to its end, also one that
waits for its last transactions while the next one is in use.  `ResumeEarly` is
FALSE: the application resumes when the stack it suspended is closed.  The forced
`ua_stop_all(true)` of a start, or of a loop, that failed (main.c:141) is left
out: the process ends behind it.

**EventLoop, Lists.**  Handlers of the loop are code of the user that may open,
close, start and cancel anything.  `Lists` keeps the pointers of head, tail,
next and prev as the code assigns them and compares them with a sequence.

**Streams, Payloads, Mixers, Devices.**  A thread's handler is cut where
another thread can come in between, and an operation of the main thread is a
script of steps.  Drivers of one kind differ only in their
scripts, so `Devices` is one machine and a table of 25 drivers; winwave, whose
ring has no locks, and the displays are machines of their own in the same
module.  The device may call the wave player back while the opening thread still
queues buffers; `raced` remembers that it did so inside `dsp_write`, where the
ring is no longer kept.  In `Streams` the history `taken` names each object that
was freed under a thread that uses it.  `SrcFirst` and `Filters` are settings of
the configuration.  The audio codecs are modelled by
what they do to the two buffers of a stream (`mbuf` positions, end, size and
growth) and by what they hold when a part of them cannot be had; the library
that codes a frame is external and may fail at every call.

## Runs

| Run | Components | Properties and what they say | Bounds |
|---|---|---|---|
| `sipsess` | `SipSess` | `NoUseAfterFree`, `NoLeak`, `OrderlyEnd` (a dialog ends with its BYE, no exchange is cut off), `OneExchange` (offers do not overlap), `IInv` (the inductive invariant), `CallbackOrder`, `Freed` (a released session is freed) | 3 sequence numbers (two 2xx without ACK and a BYE), 2 INFO requests, 2 failures before a request loops |
| `sip` | `SipTrans`, `SipRequest`, `SipReg`, `SipSub`, `SipNot` | `TransSafe` (served once, a timer behind every wait, CANCEL only where wanted), `Implements` (refines `SipExchange`), `Concluded`, `RequestSafe` (valid pointer, told once, one attempt at a time, at most one more after a cancel), `RequestEnds`, `EventSafe` (renewal goes on, nothing left at the peer, exact references, the end is told), `EventFreed` | two branches; 2 SRV records, 2 addresses a family, 2 transports; 8 failures of a registration (its back-off saturates at 6) and a word of 2^22 ms; 3 failures of a subscription; 3 versions of a state (one under way, one pending, one more) |
| `agent` | `Agent`, `EventLoop`, `Lists` | `AgentSound` (the stack is counted right, registrations and transports use the address in force, the current agent is in the list), `AgentQuits`, `TimersOrdered`, `QueueServed` (messages of other threads are served in order), `ListsSound` (pointers mean the sequence, nothing freed is linked) | 2 accounts, one with 2 registrations, 2 addresses, 2 stacks; 2 descriptors besides the queue, 2 timers, a pipe of 2; 4 elements, two of which share a bucket |
| `calls` | `Calls`, `Sdp`, `SipDialog`, `Presence` | `CallsSafe` (ringing is timed, tones fit the media, a session behind each call), `SdpSound` (the sides agree on media, formats and directions after an exchange; m= lines keep their order), `DialogSound` (requests visit the proxies and reach the target in force), `PresenceSound` | 3 calls, 2 of them incoming; 4 offers, codecs in common in another order, some, or none; 2 forks with 2 and 0 proxies; 2 contacts, 2 watchers, 2 agents |
| `net` | `Tcp`, `SipTransp`, `DnsClient`, `BfcpSock`, `IceChecks`, `NatBd` | `StreamIntact`, `TransportSound` (nothing freed is used, nothing stranded), `DnsSound`, `BfcpSound` (an answer belongs to its request), `PathSound` (the selected pair is valid, checks go on, the NAT is reported as it is), `NetEnds` | queue of 4 bytes and pieces of up to 3; 2 connections, 2 requests, 2 messages held of each; 3 queries on 2 connections and 2 servers; numbers modulo 3; 2 components; a NAT lifetime of 4 |
| `nat` | `StunTurn`, `MediaNat` | `ServersSound` (a transaction ends once, what is kept is refreshed, a channel number means one peer), `EstablishedComplete` (a call goes on when all media are ready, or when a keepalive counted one of them twice), `IceOwned` (every candidate and pair counts exactly its users, nothing is left at the end, what is offered for media is a candidate offered), `NatEnds` | 3 transactions of 3 transmissions; 2 peers and 2 failures; 2 media of 2 components; up to 2 interfaces, 6 candidates (`MaxCand`) and 3 pairs (`MaxPairs`), so that two components have own, mapped or relayed and remote ones, and a check finds a new pair; 2 descriptions (`MaxOffers`), the first starts the checks and the second comes after them |
| `packets` | `Jbuf`, `Rtp`, `Payloads`, `AttrMsg`, `DnsMsg`, `MediaPath` | `JbufSound` (pool balanced, buffer sorted, no overflow), `RtpSound` (losses are what was lost), `MediaSound` (keys are heard once and in order, whole pictures, audio frames in their order and within their buffers, TURN, ICE and SRTP pass on what is not theirs as it was sent), `WireSound` (no decoder leaves its message, what was encoded is decoded) | 6 or 8 sequence numbers, so that they wrap; 17 packets; 3 keys; 2 pictures; 14 codecs, 6 calls of one and packets of up to 5 frames (a size beyond each limit); messages of up to 2 or 3 elements of every size that changes a decision, all sequences of 6 octets (`ForeignLen`) for names, which follow up to 5 pointers (`CompLoop`); 2 datagrams, a request and its response, which the relay forwards and wraps |
| `devices` | `Devices` (with the displays), `Mixers`, `Streams` | `DriversSound` (a wave buffer is never queued twice, but when the device calls back inside a `dsp_write` of the opening thread; a display shows what was made for the picture, the radio plays no title and shows no sound), `MixersSound`, `MediaFits` (no thread of a driver uses what was freed; the threads of a stream lose nothing when it stops or ends, and an encoder, a filter or a mute frame only to the changes of codec that the code does not guard; samples keep their order; devices fit the codecs; a full picture that was asked for is sent) | one device of each driver, 3 wave buffers (the code has 4; `DriversKept` is for any number), 2 windows (one of X11, whose windows share nothing) and sizes, a head of 3 bytes, 2 sources of each mixer and a crowd of 5 viewers, 3 codecs of 2 rates |
| `calls_alert`, `calls_transfer`, `jbuf_order`, `ice_gather` | | violations, see Findings | |

Type correctness is a conjunct of the structural invariant of each component.

The bounds are small because the handlers compare counters with limits only:
what happens at the limit, one below and one above is reached with limits of
two or three, and the paths of an object depend on whether a list is empty, has
one element or more.  Numbers that wrap (`SeqSize`, `RtpSeqs`, `TidMod`,
`Word`, `OffsetMask`) are given moduli that a run passes several times.  Sizes
are chosen so that each comparison in the code falls out both ways.  Deadlock
is not checked: objects reach the end of their life, and counters that bound
the environment run out.

For every property one definition of the model is replaced by a plausible
mistake in the code it stands for (a dropped guard, a missing reset, a swapped
order; `mutants` in `PROJECT.json`), and TLC finds the property violated.

### Fairness

Safety does not depend on it.  Liveness assumes of the code only that the event
loop runs: timers which were started fire (`re/src/tmr`), the handler of an
arrived answer runs, and a call that was made returns.  Of the rest it assumes
what the layer below was shown to give: a request ends with a result because
its transaction has a timer (`TimersRun`, `Concluded`), except an INVITE that
rings and is not cancelled, for which nothing is assumed; DNS queries
(`QueryEnds`) and STUN transactions end because their own timers end them, which
`MediaNat` and `StunTurn` build on; the last transaction of a stack's clients
ends (`PendingDone` of `Agent`).  `Drained` of `Tcp` assumes a peer that reads,
so that the socket becomes writable again and again.  In `EventLoop` the thread
of the loop runs and time passes.  No fairness is assumed of users or of the
peer, apart from the result that a timer guarantees when the peer is silent.
The calls, the packets and the devices have no liveness property.

## Proofs

`SipSessProofs` proves for every number of sequence numbers, INFO requests and
retries (`SipSessAssumption`: positive, except that there may be no INFO):

| Theorem | Says |
|---|---|
| `SessionInvariant` | the inductive invariant `IInv` |
| `TypeCorrect` | the record keeps its type |
| `MemorySafe` | no handler, timer or call reaches a freed session |
| `NeverLeaked` | a live session has a holder that will release it |
| `CallbacksHeld` | application handlers are installed only while the application holds its reference |
| `EndsInOrder` | an established dialog that the peer did not end gets its BYE, no exchange is cut off |
| `OfferAnswer` | offer/answer exchanges do not overlap, a postponed modification keeps a trigger |
| `CallbacksOrdered` | an action property: the application is told at most once that the session is established, while it holds the session and before it is told of the end, and at most once of the end |

None of the safety properties is inductive.  That a release does not free too
early depends on the count being right, so `IInv` says that `nrefs` equals the
number of holders: the application, and after the end one reference each for
the pending request, the list of replies and the list of INFO requests, or for
the BYE in the last stage.  To this it adds which exchanges may be pending
together, what the handlers installed say about the application's reference,
and what a freed record looks like.  The proof states what each shared operator
changes (`...Fields`), what giving back one reference does to a record whose
count is one too high (`MemDeref`, `Leaving`), and then has one lemma per action
(`...Step`).  TLC checks `IInv` in the run `sipsess`.  That each
callback comes at most once is part of `Inv`; for `CallbacksOrdered` there is
besides a lemma for each shared operator that it tells of no establishment
(`Quiet...`), and one for the two that do: the end of an INVITE and an ACK look
at the handlers first, which are gone once the end was told (`TellsHolder`).

The other components of the SIP stack are proved in the same way, each from the
assumptions named in its module, which bound nothing but signs:

| Module | Theorem | Says | For every |
|---|---|---|---|
| `SipTransProofs` | `TransactionsSafe` | `TransSafe`: a request is served once whatever the network does, a transaction that waits has a timer, a CANCEL is sent only where the user cancelled | set of methods and of final answers (`SipTransAssumption`), over UDP and over a connection |
| | `ExchangeImplemented` | `Implements`: every step of both transactions, the network and the users is a step of `SipExchange` or changes nothing of it | |
| `SipEventProofs` | `RequestsSafe` | `RequestSafe`: the user's pointer is valid or cleared, the result is told once, at most one attempt is under way and at most one is made after a cancel (a request without a transaction may be dropped in a lookup, see below) | number of SRV records, addresses and transports, set of address families (`MCSipAssumption`) |
| | `EventsSafe` | `EventSafe`: a registration that is wanted has a request or a timer, is renewed before it runs out, and a released one is removed at the registrar; a subscription or notifier holds exactly the references its owners hold, goes on (unless an answer of another dialog is ignored, see below), is not left at the peer, and its end is told | expiry times, failure limits, loop limit, versions of the state (`MCSipAssumption`, `SipLoopAssumption`) |
| `NetProofs` | `TcpStream` | `StreamIntact`: what the socket has taken and what is queued are together the stream that was handed in, in order and without a gap | size of queue and pieces (`ChunkAssumption`) |
| | `BfcpAnswers` | `BfcpSound`: a request is told of its own answer though numbers wrap, and the peer gets the requests of a connection in order | set of requests smaller than the range of numbers (`BfcpAssumption`) |
| | `AddressesComplete` | `EstablishedComplete`: the call is told of success when, and as soon as, all media have their addresses, once before the peer answers; only a mapping told again while another medium waits is counted in its place (stun.c:74) | finite set of media that is not empty, as a call has its audio stream (`MediaAssumption`), and all modules |
| | `ServersWatched` | `ServersSound`: a STUN transaction ends once and while it is under way has a timer; a mapping, an allocation and its permissions that are kept have a timer or a request that renews them; a channel number means one peer | set of transactions, limits of transmissions and failures, set of peers (`RcAssumption`, `TurnAssumption`) |
| `TransportProofs` | `TransportKept` | `TransportSound`: a held message never refers to a freed connection, a loop over a queue never goes on with a freed entry, messages and keepalives are only on a connection that may still tell them, and no connection is kept for no one (a connection that was flushed under a held message and closed after that is the exception, see below) | set of connections, peers and requests (`TranspAssumption`) |
| | `DnsKept` | `DnsSound`: a handler is called at most once, a connection has exactly the references of its queries and its own, a query that has not ended has its timer and over TCP a connection, and no call under way works on what another one freed | finite set of queries, set of connections, number of servers and transmissions (`DnsAssumption`) |
| | `PathsSound` | `PathSound`: a selected pair is a valid one of its component and is kept alive once that is concluded, success is told only when every component has a valid pair, a list that runs waits for its timer or an answer (aggressive nomination, while requests can be sent); the discovery reports the mapping and the filtering of the NAT, and its lifetime lies between the bounds | set of pairs, nominations, number of requests (`IceAssumption`), set of tests and lifetime (`LifetimeAssumption`) |
| `CallProofs` | `CallsKept` | `CallsSafe`: an incoming call that rings has its time limit, tones fit the media, and a call without a session is an outgoing one that waits for medianat, or whose INVITE could not be sent | finite set of calls, answer modes (`CallsAssumption`) |
| | `DialogsAgree` | `DialogSound`: both ends have the same route set, one the reverse of the other, the next hop is its first proxy or the target, and each fork has at most one dialog, with the proxies of its own path | set of forks, paths of proxies of any length (`DlgAssumption`) |
| | `PresenceKept` | `PresenceSound`: a contact is subscribed to or waits for its next attempt, never both, and shows what its subscription brought; every watcher was handed the present status, and the agents and the socket are kept by exactly those that use them | set of contacts and agents, finite set of watchers (`PresAssumption`) |
| | `MixersKept` | `MixersSound`: the audio mixer does not sleep while it has a source, makes up for no silence, and nobody hears itself; no frame of the video mixer keeps an old tile, the tiles are inside the frame and apart, and a source in the list, or one that shows itself, sees everybody who has a picture | set of sources, packet time and frame size, crowd (`AumixAssumption`, `VidmixAssumption`: sources and crowd have different numbers) |
| | `DriversKept` | `DriversSound`: a buffer of the Windows sound driver is at most once at the device, and a player that closes waits for exactly the buffers that are there; a display draws only things made for the size and mode of the picture (OpenGL ES: of one size), the events of SDL are polled while there is a display, and X11 leaves no shared memory behind unless a reset failed half way; the radio plays every byte of sound and no other however the stream is cut and reconnected, and a title fits its memory | number of buffers and failures (`WaveAssumption`; the player's ring is kept unless the device called back inside a `dsp_write` of the opening thread, see below), sizes of pictures (`DispAssumption`), lengths of heads, intervals, titles and pieces (`RstAssumption`) |
| `OrderProofs` | `JitterBuffer` | `JbufSound`: each frame is older than the next one, the count is right, buffer and pool together are the frames allocated, and with room for one more than the delay none is dropped | delays and range of numbers (`JbufAssumption`) |
| | `TimersInOrder` | `TimersOrdered`: the running timers are in the list once, in the order in which they expire, and the loop does not sleep past the first | set of timers, delays, descriptors and length of time (`LoopAssumption`) |
| | `ReportsExact` | `RtpSound`: whatever is lost, repeated, reordered or wrapped and when a sender restarts, the packets expected of a source are those that were sent (unless it began with number 0) and the lost those that did not come; members, senders and the blocks of a report are counted exactly, and the fraction fits into its byte | range of numbers, permissible gaps and size of the table of members (`RtpAssumption`) |
| | `KeysKept` | `KeysHeard`, a part of `MediaSound`: the peer hears the keys that were pressed, in order, each once and with its end, whichever packets are lost, as long as no press runs into a poll (`keys.raced`; `KeysHeardAlways` shows what happens then) | set of keys, packets of a key and of an end (`TelevAssumption`), both more than the network loses in a row (`MaxLoss < DigitMin`, `MaxLoss < EndMin`; the code sends 9 and 3) |

Why the invariants are stronger than the properties:

- `TransInv`: that a request is served once needs to know which messages may
  still be under way for which state of the client (`ClientReq`, `ClientIdle`),
  that no copy of the request is left when the server's transaction is gone
  (`SeenReliable`, `SeenUnreliable`), and that a response there carries the
  answer the server's user gave (`ResponsesTrue`, `ResultTrue`).  With it
  `StepRefines` has one lemma per action, and the refinement follows from the
  initial state and the steps.
- `ReqInv`: `ReqHeld` ties the user's pointer and handlers to the life of the
  request, `ReqTold` says that a result is told exactly when they are gone, and
  that what waits waits for a lookup or for its transaction.
- `EventInv` is `RegInv /\ SubInv /\ NotInv`.  The count of references is the
  number of holders, as in `SipSess`; besides, what the peer holds is tied to the
  answers under way (`SubKnown`, `NotKnown`), and the timer to the request
  (`SubGoing`).  The theorem is about `SipSpec`, in which one of the five
  components moves; what the others do is a stutter of the three.
- `TcpInv` adds that only an established connection has a queue, and that no
  entry ends behind the last byte that was taken.
- `BfcpInv` says how old the number of an open request can be: less than the
  number of requests made, so the next number is not in use (`NumbersYoung`).
  Every piece in a buffer carries the number of its request (`Numbered`,
  `OwnPiece`), and what the peer holds is part of what was handed in.
- `MnatInv` has one description of a medium for each module and stage: in `ice`
  the count of pending requests is the number of components that wait, which a
  fall back to STUN leaves alone (`Gathering`).  The count of the session is
  that of its media while they are made (`SettingUp`) and of those without
  addresses afterwards, or less once a keepalive counted one twice
  (`CountedDown`); the call is told exactly when it gets to zero (`Telling`).
  A query for a server that is under
  way says that no medium was started (`Asking`): without it a second start
  would take back addresses that the call was told of.
- `JbufInv` adds that the delay is not exceeded between two packets, without
  which the pool could run out.  The order is that of neighbours: the comparison
  of numbers that wrap is not transitive.
- `TimersOrdered` is inductive as it stands: that a timer is in the list once is
  what makes `list_unlink` remove all of it, and sorting what makes the search
  from the head and the one from the tail find the same place.

- `CallInv` says of each call what its state, timer, tones, media and session
  have to do with each other (`CallFits`), which is more than is heard of it, and
  that the list holds exactly the calls there are, each once.
- `DlgInv` says what is in a message under way (`MailOf`): which proxies it has
  recorded and where it goes, so that whoever makes a dialog of it has the path
  of the fork; and which dialogs the caller may have (`Copies`).
- `PresInv` adds that the module has watchers only while it is there.
- `AumixInv` says when the next frame is due: at most a packet time from now,
  and not before a packet time for each frame since the thread woke; a source that was
  stopped has no owner.  `VidmixInv` says of a source in the list that whatever
  is left in its frame is either marked to be cleared or part of what it would
  paint now (`Fresh`).  The lemmas on layouts show that `calc_rows` finds a
  square for every number of tiles, that the tiles of a grid and of a focus are
  inside the frame and apart, and that the number of tiles, which leaves out one,
  leaves out at most one source.
- `WaveInv` says that the device holds its buffers in the order of the ring,
  seen from the place where the next one goes (`InRing`), so that the one it is
  done with is the next to be filled; the callback has one free buffer to fill,
  or stands before one that was refused (`PlayRunning`); and the recorder counts
  a buffer too many for each refused one (`RecInv`).
- `DispInv` has, per driver, which things of a display must belong together
  even while it is drawn in no window (`Chained`), and for X11 what the X server
  and the display know of the segment, each step of setting it up and taking
  it down included (`XAgrees`).
- `RadioInv` labels every byte on the way and every byte that waits in a buffer
  with the state the server was in before it sent it (`Labels`), and says that
  the radio's counters are the label of the next byte it will take
  (`InHead`, `InBody`); then it cannot matter where the stream is cut.
- `StunInv`: the state, the pointer and the owner of a transaction belong
  together (`OwnersAgree`), and a flow has its timer or a probe, not both
  (`FlowProbed`).  `TurnInv`: what is not held has neither timer nor request
  (`OnlyHeld`), and the numbers of the channels are below the next one and
  different (`NumbersApart`).
- `TranspInv` is about the loops over the queue of a connection: they work on
  its first entry, or will take it next (`WalkFits`).  A connection has what its
  stage allows, and its count is that of the messages held and of the stack,
  less the one that a flush took (`ConnsFit`), a message waits in one queue
  (`TxsFit`), and keepalives are on a connection with its timer (`KaFits`).
- `DnsInv`: the list of a connection has each waiting query once, and the count
  is the list and what a call has taken out of it (`TcsFit`); a query waits for
  a connection or a timer or is named by a call under way (`QueriesFit`); calls
  that are nested, as a failure to send inside a close is, work on different
  connections, which are dead, with the head of the list next (`StackFits`).
- `IceInv` adds that a pair in a list has a component, that only such a pair has
  a transaction (`Placed`), and that nothing was selected before the start.  The
  handlers are compositions of functions on one record, so the lemmas say what
  each of them leaves alone: the lists (`Checked`), the place of a pair in the
  valid list (`Moved`), the checks under way (`Watching`).
- `NatBdInv` says what a test knows while it goes on: the mapping test what each
  server it has asked saw, and that this leaves the question open (`MapTest`);
  the filtering test that the NAT filters or an answer was lost (`FilterTest`).
- `RtpInv`: what is kept of a source are the remainders of its stream's numbers,
  and a jump is remembered by the number that would confirm it (`Follows`);
  nothing is expected since the last report when nothing was received
  (`SinceReport`), without which the fraction could be a whole and not fit.
- `TelevInv`: the buffer between the threads, the sender, the line and the
  receiver are each at a place of what a perfect line would tell. What was not
  polled is tied to the keys by a count along the buffer (`Unpolled`), as two
  entries may stand for one key; the line says how many packets of a place were
  sent and lost (`OnAir`), without which an event could be lost altogether.

Only model-checked:

- all liveness, as fairness is outside the prover's reach;
- `AgentSound`, `ListsSound`, `SdpSound` and `IceOwned`, whose models fold over
  sets and sequences, and `MediaFits`, whose buffer is a flattened sequence:
  what a fold computes needs induction over data;
- `WireSound`: `DnsMsg` uses RECURSIVE operators for compressed names and chains
  of CNAMEs, which the prover does not support;
- `MediaSound`, except its part about keys (`KeysKept`): pictures and coded
  sound are put together by folds and flattened sequences, and the paths of
  media datagrams are chains of helpers that TLC visits for all their inputs;
- `DeviceSafe`, a part of `MediaFits`: the table of drivers is a fixed set of
  scripts without constants, so TLC, which visits all their states, leaves
  nothing to prove.

## Findings

- `calls_alert`: `ua_hangup` (ua.c:1475) rejects an incoming call without
  stopping the alert, which goes on every second though no call is left.
- `calls_transfer`: the notifier of a transfer is inherited by the new call
  (call.c:500), while the argument of its close handler stays the original
  call: once that is freed, the end of the subscription writes to it.
- `jbuf_order`: the late check (jbuf.c:208) compares with the packet put last,
  not with the newest: 8, 7, then 6 lets 6 be played after 7.
- `ice_gather`: `call_gather_handler` (ice/gather.c:51) writes to the ICE media
  object after its handler, which closes the call and frees it when gathering
  failed.

## What the code does not guarantee

The properties in the runs are those that hold.  Some were first stated more
strongly; where the code gives less, the weaker form says so (an exception, or
a constant that rules the case out), and the stronger one is kept beside it
under its own name, to be checked by adding it to a configuration:

| Definition | Source | What happens |
|---|---|---|
| `Jbuf.PseqIncoming` | stream.c:153 | while the buffer is filling, an empty header's number 0 is taken for a received packet and a loss is reported that was none |
| `Rtp.LossOfFirst` | rtp/sess.c:554 | the predecessor of a first number 0 wraps, and the stream counts as one cycle further |
| `Payloads.PictureAlone` | avcodec.c:283, h263.c:215, vpx.c:274 | a picture whose last packet is full carries no mark and is decoded with the next one |
| `Payloads.KeysHeardAlways` | telev.c, audio.c | a key pressed while the audio thread polls loses its place in the buffer |
| `Payloads.CodecsSoundAlways` | modules/{gsm,celt,ilbc,amr,l16,silk} | frames of a packet after the first are written over it (gsm, celt); a packet of a size that was refused is taken for one frame (ilbc); a frame is told to be longer than it is (amr, narrow band); only the first of several frames is coded (gsm); the decoder does not come back from an odd size (l16); a decoder alone cannot be made (silk) |
| `Streams.EncoderStopped` | audio.c:877 | `audio_encoder_set` stops the source only when the rate changes, and the thread that sends never: the encoder is freed, and its pointer empty for a while, under a thread that is encoding with it |
| `Streams.FiltersStopped` | audio.c:954 | `audio_decoder_set` stops the player and frees the filters of both directions while the source's thread or the one that sends may be in `aufilt_chain_encode` (audio.c:239) |
| `Streams.VidEncoderStopped` | video.c:768, 562 | `video_encoder_set` frees the encoder, also to make the same one again, while the source's thread may be in it (video.c:206); a second `video_start` frees the mute frame after it started the source |
| `Streams.SilenceRead` | aubuf.c:201 | a read that finds only a part of what it wanted gives that part and leaves the rest of the block as it was |
| `Streams.MuteFrameThere` | video.c:562 | the mute frame is made after the source was started: a muted source may call before it is there |
| `Mixers.ThreadStops` | vidmix.c:168 | with no source in the list and no selfview the count of tiles wraps and `calc_rows` finds no square: the thread does not come back |
| `Mixers.NobodyMissed` | vidmix.c:230 | without selfview the number of tiles is one less than the list, also for a source that is not in it and paints everybody: a last tile outside of the frame is left out by `vidconv` |
| `EventLoop.WantedOnly` | main.c:685 | events are not masked with those wanted: a handler gets one it did not ask for, or one of a descriptor that was closed and opened again in the same round |
| `SipTransp.SockAlways` | transp.c:697 | a flush takes the reference of the stack from a connection that a held message keeps; when the peer or a timer closes it then, `conn_close` and the `mem_deref` after it take the reference of the message, which is left with a freed connection |
| `SipRequest.NeverDropped` | request.c:402, 462, 500 | a request without a transaction (an ACK) whose next server needs a lookup is freed while the lookup is open, and never sent |
| `SipSub.KeepsGoing`, `SipSub.FreedAtLast` | subscribe.c:202 | a 2xx of another dialog returns after the request was cleared: the subscription has neither timer nor request, and one that was ended keeps the reference to itself; `ignored` is the exception |
| `Sdp.LinesStable` | call.c:552, 707, msg.c:487 | an offer is encoded when `call_modify` or `call_hold` is called, also while another exchange is under way; when it is then postponed or refused, its medium lines stay, and an answer has more of them than the offer it answers, which the peer refuses (`crossed`) |
| `DnsMsg.NamesWithin` | dns/dname.c:188 | the room in the buffer of a name is an unsigned number that wraps when the labels so far take 255 octets of it: a label after them is not refused, and is written behind the buffer (`full`) |
| `MediaNat.CompleteAlways` | modules/stun/stun.c:74, 95 | each mapping that a keepalive tells counts its medium as ready once more: one that changes, or comes again after an error response, while another medium still waits lets the call go on with addresses missing (`early`) |
| `IceChecks.ChecklistFailed` | chklist.c | a check list may be Completed though a component has no valid pair |
| `NatBd.TestNotTouched` | natbd/mapping.c | the last result of the mapping test is told, which frees the test, before the test is left |
| `Devices.RingKept` | winwave.c:441 | a device that is done with a buffer before all are queued calls back while the opening thread is inside `dsp_write`: both take the same buffer, which is queued twice, and a count may be lost, so that closing waits for ever or not long enough (`raced`) |
| `Agent.ExitWhenDone` with `ResumeEarly` | ua.c | an application that resumes before the suspended stack is closed ends its loop while transactions of that stack are under way |

Other places that the models pass by and a maintainer may want to look at:

- subscribe.c:224: an accepted REFER has no timer until a NOTIFY with an expiry
  comes; notify.c:171: a NOTIFY that fails with a transport error is not
  repeated.  Nothing in the code promises more, so no property is stated.
- DNS: the encoder does not refuse labels of more than 63 octets; `rdlen` is
  not compared with what was decoded; sibling CNAMEs share a depth count.
- TURN: a channel is used before its binding is confirmed; a deallocation is
  sent once.  MediaNat: STUN error responses are told to nobody.  NatBd: an
  error response in the last filtering test is told as an address and port
  dependent filter (filtering.c:156), though it came through.
- ICE: relayed candidates stay in the offer after `purge_relayed` (icem.c:283)
  released the TURN client; a selected pair whose local candidate was found by
  a check through the relay loses its TURN client in `icem_update`, which looks
  at the type only; in lite mode no default candidate is set; `mismatch` is
  never reset; a component number of 256 in a candidate is 0 after the cast
  (icesdp.c:248) and matches every component.
- Media path: with SRTP, ICE checks and answers sent to the very address of the
  peer's media are protected as if they were media (srtp.c:222), and the peer
  cannot read them; what the answerer sends before the offerer handled the
  answer is played as noise, or taken for RTP when it is multiplexed RTCP; the
  packets of rtpkeep.c leave no room for the relay's header and so never go
  through the relay; `srtp-mand` sends in the clear to a peer without a crypto
  attribute (srtp.c:390).
- BFCP: a TCP piece with less than the 12 bytes of a header closes the
  connection; `bfcp_send` failing inside a handler frees the connection in use.
- NAT discovery: a TCP connection that closes with a request in flight releases
  its test twice.
- SDP: a refused offer may leave an extra m= line behind, which is why
  `LinesStable` speaks of exchanges without a refusal before them.
- Agent: after a resumption the listener of the event socket is not allocated
  again; `dns_refresh` appends servers without bound.
- Devices: a GStreamer error clears `run`, so that the destructor skips the
  join; the OpenSL ES player enqueues a buffer on the stack.

## What is not modelled

`PROJECT.json` lists each part with its reason.  In short: parsing and
formatting of text (SIP headers, URIs, configuration, commands), digests and
hashes and signal processing are functions of their input; registries
of codecs and devices are lists filled at start; system calls, OpenSSL and
libraries behind the codec modules are outside of the repository; the Symbian
and Windows ports implement interfaces whose Linux side is modelled; the Android
activity is empty.  Memory exhaustion is modelled only as a request, reply or
device that cannot be had.  The handshake of ACK transactions
(`sipsess/ack.c`) is covered by the request that cannot be sent; a 2xx that is
repeated to an acknowledged INVITE is not.

## Plan

1. Proofs, next: the rest of `MediaSound`, the receiver of pictures first.
2. An abstract session life (none, live, ending, over) that `SipSess` implements,
   with `Calls` on top of it; `SipSub` against `SipNot` over a lossy network.
