# mongod-proxy in TLA+

Models of the concurrent and failure-prone parts of `mongod-proxy`, checked
with TLC on small instances, and machine-checked proofs (TLAPS) of the
properties that matter most. Paths below are relative to the repository's
crate (`src/serve/mod.rs` and so on); `PROJECT.json` maps every definition to
the lines it models.

## The system

The proxy accepts MongoDB clients and forwards their wire-protocol frames to
one upstream `mongod`.

| Part | Source | State | Operations |
|---|---|---|---|
| accept loop | `serve/mod.rs` `run_until` | `JoinSet`, shutdown future | accept, accept error, shutdown, reap, drain, drop |
| connection task | `serve/mod.rs` `accept_client_inner` | current request, reply stream | read, call, relay, every error exit |
| upstream client | `serve/service.rs` `ProxyClient` | framed socket behind a mutex whose guard the reply stream owns | call, `poll_next` |
| explain layer | `serve/explain/*` | id counter, buffered replies | classify/build, forward, sideband explain, emit, replay |
| hello rewrite | `serve/rewrite_hello.rs` | whether the exchange is a hello | strip topology fields from replies |
| primary selection | `serve/probe.rs` | racing probes, rejections | start, answer, fail, time out, gather |
| failover | `serve/service.rs` | watch channel with the target, interval | startup selection, re-probe round, swap, stop on drop |
| framing | `decoder.rs`, `encoder.rs`, `header.rs`, `ids.rs` | cached header, read buffer | decode, encode |
| messages | `message.rs`, `operation/*`, `op_code.rs` | none | parse, serialise |
| explain model and parsing | `serve/explain/parse.rs`, `wire.rs`, `model/*` | none | document to typed event |
| sink | `serve/explain/sink.rs` | bounded or unbounded channel | `record`, `record_error` |
| connection strings | `uri.rs` | none | parse, route |
| SRV lookup | `srv.rs` | records still to be drawn | resolve, order, shuffle, check the domain |
| constructors, TLS | `serve/service.rs` | connector, target | `new`, `with_tls`, `from_srv*`, `from_uri` |
| log layer, redaction | `serve/log.rs`, `redact.rs` | none | one redacted event per message |

How they interact: `run_until` spawns one task per accepted client. The task
reads the upstream target (which the failover loop may swap at any moment),
dials it, and then alternates between one client frame and that frame's reply
stream. Layers wrap the upstream client: the hello rewrite is innermost, an
explain layer, when stacked, calls the same upstream socket a second time.

What is hard to get right: replies carry `response_to`, but the proxy never
looks at it, so pairing rests on order and on who holds the guard; a request
flagged `moreToCome` has no reply and a reply so flagged has successors; either
end may vanish between any two steps; the explain may fail after the client's
own answer was read; probes complete in any order while elections happen;
`select!` chooses at random among ready branches. Every relayed frame is parsed
and serialised again, so all its nested lengths are derived anew; frames arrive
cut anywhere; the target is read at accept and used at dial; and all connections
share one explain sink.

## Modules

* `ProxyConnection`: one connection, with its client and its upstream. A step
  of the task is the code between two awaits; `pc` is the await it stands at,
  `guard` the holder of the upstream mutex, `reader` the `FramedRead` state (it
  yields `None` once after an error). `ExplainOn` selects between relaying
  frame by frame and the explain layer's drain, explain and replay. A frame is
  a record with an id and a kind, a reply carries the id it answers, so that
  correlation can be stated, and a body value saying whether the topology
  fields are still there. Client and `mongod` are external: they send anything
  the protocol allows, garble a frame, or close at any time.
* `ServeLoop`: `run_until`. `task[c]` is a connection's life from the backlog
  to its end, `connections` the `JoinSet`, `aborting` the tasks that the drop of
  the `JoinSet` has aborted; they run on to their next await.
* `SelectPrimary`: `select_primary`. One probe per list entry; `claims` is the
  set of hosts that would answer `isWritablePrimary`, changed by elections
  (up to two hosts claim, as after a partition). `everClaimed` and `everDenied`
  record what was true at some moment of the current race.
* `Failover`: `from_srv_inner`/`from_seed_list` and `spawn_reprobe_loop`,
  with the race instantiated from `SelectPrimary`. A seed list is the case of a
  lookup that always returns the same list. `due` is the elapsed sleep: when the
  Proxy is dropped as well, `select!` takes either branch. Going back to the top
  of the loop polls `closed()` together with a fresh sleep (`Rest`), so a Proxy
  dropped during a round ends the loop there.
* `ProxyProcess`: `ServeLoop` and `Failover` in one process. They share the
  target: `Accept` reads it into `destination`, `Dials` uses that, the loop's
  `Apply` may fall in between; and `Returns`, whichever way `run_until` ends,
  drops the Proxy. A client may come back (`Reconnect`).
* `ReplyChannel`: what a client may rely on: one exchange at a time, its replies
  in order, nothing after the close. A reply is determined by the request it
  answers, its number and its `moreToCome` flag (`Reply`), so the channel has no
  bound of its own. `ConnectionRefinement` maps `ProxyConnection` to it; the
  explain, its frames and the replay buffer are hidden by the mapping.
* `Results`: `Option` as a set of at most one element, `Result` as a record, `?`
  as `Then`. `Text`: the `str` methods over sequences of tokens.
* `Messages`: header, OP_MSG, OP_QUERY and OP_REPLY. A byte string is a sequence
  of cells, one for each byte; the first cell of a field holds its value, so that
  all offsets and lengths are the code's. A BSON document is one such field, with
  its size, a list of key and value, and whether it is BSON at all.
  `MessageFromBytes` and `MessageWriteBytes` follow the parsers and writers step
  by step, every error included; also the hello rewrite.
* `MessageLog`: the events of `LogLayer` and the redaction of their documents.
* `Framing`: one direction of a socket. `Read` takes any number of the bytes under
  way, `ReadEof` finds the peer gone, `ReadFails` is an I/O error at any point, `Decode` is `FramedRead::poll_next` over `WireDecoder::decode`, `Forward`
  rewrites, logs and encodes. After an error the reader is polled again, as the
  explain path does. `FrameQueue` is its abstract specification: whole frames, in
  order, each delivered or reported, until the queue ends or breaks. What a log line says is a parameter
  (`LogLine`); `RelayLog` puts `Framing` and `MessageLog` together and states what
  the lines may hold, and the runs use `LogEvent` for the parameter.
* `ConnectionUri`: `uri::parse` and `route`, over strings that are sequences of
  tokens (delimiters are tokens). `SrvResolve`: ordering by priority, the weighted
  shuffle, the domain rule; the draw of the generator is any number of its range.
* `Constructors`: every constructor of `Proxy` as the plan it ends up with, then
  lookup, ordering (one draw per step), validation, probing, and later rounds.
  Hosts differ by certificate, by their reply to hello and by where a probe of them
  fails, from the dial to the reading of the reply; a TLS connector is the set of
  certificate classes it trusts.
* `ExplainModel`: classification of a request, building of its explain, and the
  way of an explain reply to an event. What serde accepts is a predicate on
  documents. `ExplainPipeline`: several connections with their id counters, and
  the sink they share, with a consumer that may stall or go away. An id is an option:
  none is left once the counter stands at `MinId` (`i32::MIN`), and the explain then
  fails with `RequestIdExhausted` before it is built. The module takes the
  three algorithms as parameters (`PlanFor`, `Build`, `ReadReply`), so that what it
  promises of order and capacity does not rest on them; `ExplainContent` puts it
  together with `ExplainModel` and states what plans, explains and events say. The
  run gives the parameters the operators of `ExplainModel`.
* `MC...`: instances for TLC.
* `...Proofs`: theorems. `SelectPrimaryProofs`, `FailoverProofs`,
  `ProxyProcessProofs` (which includes `ServeLoop`'s), `ConstructorsProofs`,
  `FramingProofs` and `ExplainPipelineProofs` belong to the module they are named
  after; `ProxyConnectionProofs` holds the invariant of a connection, on which
  `ConnectionProofs` builds.

Definitions whose comment starts with "Mutation" are wrong variants of the
definition that follows them. They are not used by any specification; replacing
the original by one of them must break the property it is listed with.

## Runs

| Run | What it shows | Bounds |
|---|---|---|
| `connection_relay` | without an explain layer the connection implements `ReplyChannel`: replies in order, none lost or mixed (`ImplementsChannel`); a streamed reply is forwarded without waiting for the next (`StreamedReplyForwarded`) | 3 requests, 2 replies per exchange |
| `connection_explain` | with sideband explains: `ImplementsChannel`; replies are those of the client's own requests (`ReplyCorrelation`); the socket is quiet whenever no stream holds the guard (`QuietWhenFree`); an explain travels alone; its ids are fresh down to exhaustion; the sink hears once of every explainable request; every request settles; a failing explain does not cost the client its answer | 3 requests, 2 replies, `MinId` = -3 so that ids run out |
| `connection_streaming` (violated) | with an explain layer a streamed reply is withheld until the terminal reply | 1 request, 2 replies |
| `serve` | `Ok` means drained, no task escapes, finished tasks are reaped, shutdown stops the accepting and `run_until` returns | 3 clients |
| `serve_accept_error` (violated) | an accept error aborts connections instead of draining them | 2 clients |
| `select` | the selected host claimed the role during the race; `NoPrimary` is justified; an answered primary wins at once; timers end the race | 3 hosts, 3 lists (one with a host twice), 1 election |
| `select_order` (violated) | the first SRV record is not what decides | the same, no election |
| `failover` | the target moves only to a claimant of the round (`MovesToClaimant`); a sound round finds a steady primary (`RoundFindsPrimary`); `Converges` | 2 hosts, 3 lists, 2 elections, 2 faults |
| `process` | a client is only sent to hosts that claimed the role (`DialsOnlyClaimants`); once the set has settled new connections go to the primary (`NewConnectionsFollow`); the loop stops with the server (`LoopStopsWithServer`); `TypeOK`, which includes those of `ServeLoop`, `Failover` and `SelectPrimary` | 2 hosts, 1 client that comes back, 1 list, 1 election, 1 fault |
| `wire` | the reader implements `FrameQueue` (`ImplementsQueue`); a complete frame needs no further byte (`PipelinedDelivered`); what goes out re-reads as what came in, byte for byte if nothing in it is dropped, and a hello reply loses exactly its topology fields (`RelayFaithful`); an admitted frame is never too large to be written (`NeverTooLarge`); one log event per message, without credentials and with all else (`LogFaithful`) | 35 frames, each before one of 2 others, cut at every byte; an end or a failing read at any point; maximum length 50 |
| `constructors` | a Proxy has the hosts, the TLS and the service its connection string was written to say, provided user-info has no bare `?` and the database neither `?` nor `@` (`UriHonoured`); SRV records in RFC 2782 order with fair draws (`OrderRespected`); `TargetInDomain`; a probed target can be forwarded to (`ProbedIsForwardable`); a constructor and every round end (`RoundsEnd`) | strings from 3 surroundings and 2 that are not escaped, 7 host lists and 11 option lists, 8 DNS answers, 6 names, 2 rounds |
| `explain_pipeline` | an explain has the operations of its request and nothing of its session (`ExplainDescribesRequest`); a reply is understood as a whole or refused for its first fault (`WholeOrFirstFault`); every node of the plan has the stage, counts, index, direction, filter and key pattern of its document and bounds that are a reading of its text (`PlanMirrorsReply`); ids negative down to exhaustion (`TypeOK`); events correlated, in order and with ids of their own (`CorrelatedInOrder`); never a wait for the consumer (`NeverBlocked`) | every shape of request and of reply with one connection; one connection with 3 requests and `MinId` = -3, so that ids run out; 2 connections with 2 requests each; capacity 2; all four sinks |

Each property of a passing run is listed with one wrong variant of the code that
breaks it. A property with several parts (`UriHonoured`, `PlanMirrorsReply`,
`RaceEnds` and others) thus has one variant, which breaks one of its parts.

Why the bounds suffice: three requests give a fire-and-forget request, an
explainable one and a successor in any order, and two replies are the shortest
stream with a non-terminal frame. Three clients can be dialling, busy and
finished at the moment of a shutdown. In the race, three hosts separate the
first to answer, the winner and a straggler; an election may fall before,
during or after any answer. The failover instance has two rounds and more
around each election and fault. Nothing in the code compares counts beyond
these.

In `wire` every opcode, section kind, flag class and parse error occurs in front of
a frame that follows it, before which the peer may close; two frames are enough for a cached header or
a left-over byte to reach its neighbour. The maximum length 50 is the length of
the longest frame, so the envelope's upper end is met. `process` has one client:
connections do not share state except the target, and the one client is accepted
before, during and after the swap. In `explain_pipeline` two connections of two
requests overflow a channel of two. There no request has two document sequences of
one identifier, which the protocol rules out: `ExplainDescribesRequest` says nothing
of them.

Fairness. The runtime polls woken tasks, so steps of a task are weakly fair;
`select!` chooses at random, so a branch that stays ready is taken. Clients, the
upstream and failures are never obliged to act, except where a property says
so: `RequestSettles` and `AnswerSurvivesExplain` assume that a live upstream
answers, `ShutdownReturns` that peers finish (`PeersFinish`: a drain is bounded
only by the connections' own liveness, as the code's documentation says),
`RaceEnds` that timers fire, and `Failover`'s `FairSpec` that a probe
which is not hit by one of the boundedly many faults is answered.
`connection_streaming` assumes that explains are answered, and leaves the exhaust
stream free to idle. `process` assumes the same as `Failover` of the loop, its
timer and the probes, and nothing of clients, of the accept loop or of the owner.
`NeverBlocked` assumes that the server answers or fails, and nothing of the
consumer. `RoundsEnd` assumes that lookups and probes end, as their timeouts make them. In
`Framing` and `Constructors` weak fairness is written with the action's guard in
the place of `ENABLED`, with which it coincides there and which TLC evaluates much
faster. The peer of `Framing` owes nothing.

## Findings

1. `drain_stream` (`serve/explain/layer.rs`) withholds streamed replies, against
   the comment in `serve/mod.rs:338-341`.
2. An accept error aborts in-flight connections, against the documentation of
   `run_until` (`serve/mod.rs:188-189`).
3. `srv.rs:11-13` and `336-339` describe use of the first record; all records
   race.

Smaller disagreements between documentation and code, met on the way and not
turned into runs:

* `model/event.rs:133-142` says that multi-operation write batches are not
  explained. That holds for batches in document sequences; a batch given inline
  (`updates: [...]` in the body) is explained, with all its operations.
* `build.rs:65-67` names findAndModify next to update and delete;
  `is_multi_op_write_batch` looks at the latter two.
* `resolve` documents a minimum of two labels for the name (`srv.rs`); nothing
  enforces it.
* `op_msg.rs:129` says a message has at least one section; a body of nothing but
  a checksum parses to none.
* The documentation of `enable_logging` says `info`; `log.rs` logs at `debug`.
* `uri.rs:118-121` says that user-info and database are "dropped without being
  inspected". The query is cut off at the first `?` (`uri.rs:138`) and the user-info
  at the last `@` before it (`uri.rs:145`), before the database is cut off
  (`uri.rs:152`). An unescaped `@` in the database or `?` in the user-info therefore
  moves the host: `mongodb://a/db@x` is taken to name the host `x`. Such strings are
  among those of the `constructors` run, and everything but `UriHonoured` is checked
  of them; `UriHonoured` has the escaping as its condition (`Escaped`).
* `plan_details.rs:159-161` says that a literal bound keeps the text the server wrote.
  `IndexBoundRange::parse` splits at the first `", "` (`plan_details.rs:225`), so a
  lower bound that is a string containing it is cut short. A text with several commas
  has several readings (`Readings`); `BoundsKept` says that the plan has one of them,
  with the brackets of the text, and not that it is the one the server meant.

## Proofs

Every inductive invariant below was also checked by TLC, on the instance of the
run that belongs to its module. Each module states its inductive invariant first,
then one lemma per conjunct or per action, then the theorems.

`ProxyProcessProofs`, first part, for `ServeLoop` alone and every set of clients:
`ServeTypeCorrect`, `NoTaskEscapes` (`NoOrphan`) and `OkMeansDrained`
(`DrainedOnOk`). `DrainedOnOk` is not inductive: that nothing is in flight when the
`JoinSet` is empty needs `NoOrphan`; that nothing was aborted needs
`AbortsOnlyOnLoss` (only an accept error or a dropped future aborts) and that the
backlog is gone needs `BacklogClosed`. Their conjunction `ServeInv` is inductive,
with one case per action.

`ProxyConnectionProofs`, for every bound on requests, replies and explain ids
and for both values of `ExplainOn` and `RewriteOn` (`ConnectionAssumption`):
`ConnectionTypeCorrect`, `SocketQuiet` (`QuietWhenFree`) and
`RepliesCorrelated` (`ReplyCorrelation`). None of them is inductive, since the
proxy pairs replies with requests by position only. The inductive invariant
`IInv` adds to `TypeOK`:

* `Control`: which `pc` goes with which holder of the guard, and that no explain
  is attempted once the decoder has failed;
* `Outgoing`: a request that expects a reply is the last one in the socket and
  belongs to the stream that holds the guard;
* `Incoming`: only the last unread frame can end the exchange, and then the
  upstream owes nothing. `Outgoing` and `Incoming` give `QuietWhenFree`;
* `Pending`: the unread frames of an exchange are the replies that follow the
  ones already taken, except that the last may be garbled;
* `Delivered`: what was written to the client, followed by the replay buffer, is
  a prefix of what was sent. It gives `ReplyCorrelation`; a relay or drain step
  keeps it because of `Pending`, and `Pending` is kept by an answer because of
  `Outgoing` and `Incoming`.

There is one lemma per conjunct, with one case per action.

`ConnectionProofs`, first part, under the same assumption: `ExplainIsAlone`
(`ExplainTravelsAlone`), `ExplainIdsNeverReused` (`ExplainIdsFresh`) and
`SinkHearsOnce` (`OneRecordPerExplainable`). `ExplainInv` adds to `IInv`:

* `Emptied`: once a reply that ends the exchange is on its way, the upstream has
  handled all it was sent, since it handles requests in order. `IInv` alone allows
  a fire-and-forget request to be in the socket when the explain is written;
* `IdsDescend`: the counter is at or below every id reported so far, and strictly
  below them while the id it stands at belongs to the request being served;
* `SinkComplete`: the sink holds the explainable requests served so far, in order,
  and the plan says whether the current one is to be reported.

`ConnectionProofs`, second part, under the same assumption:
`ConnectionIsReplyChannel`, that a connection implements `ReplyChannel`. The channel takes a request only when
the one before it is answered to the end and delivered, and this is what `IInv` does
not give. `ChannelInv` adds `Addressed` (the replies not yet given to the client are
all to the current request), `Owing` (as long as the upstream owes a reply, the last
one announced it), `Ending` (a terminal reply that arrived is the last one sent,
even when the upstream has closed since) and `Exchanged` (once the stream gave up
the guard, everything sent was taken and the request is answered to the end). The
simulation (`Simulates`) has one case per action; most steps do not show (`Hidden`),
the others send, answer, deliver (`Delivers`), close (`Closes`) or take a request,
which the channel allows because it has settled (`Settles`).

`SelectPrimaryProofs`, for any hosts, non-empty candidate lists (a host may occur
twice) and number of elections (`SelectAssumption`): `SelectionIsJustified`
(`SelectionJustified`). `RaceInv` says that the history variables cover the present
(`HistoryCurrent`), that an answered probe reports a role its host had during the
race (`AnswersTrue`), that a gathered probe has its reason (`GatheredReasoned`), that
one rejection is kept per gathered probe (`RejectedCounted`) and that a race ends
with a winner or with every probe gathered (`EndsForAReason`). An answer is read
after it was given, and an election may fall in between: this is why the property
speaks of the race and not of a moment.

`FailoverProofs` (`FailoverAssumption`): `FailoverTypeCorrect`, `TargetMovesToClaimant`
(`MovesToClaimant`) and `RoundsFindPrimary` (`RoundFindsPrimary`). The race's lemmas
are instantiated and cited; the loop adds its types and `SelectProbes` (a round whose
result is awaited has candidates). A fault-free round with one steady primary cannot
end in `NoPrimary`, because `GatheredReasoned` would then have that host denied.

`ProxyProcessProofs`, second part (`ProcessAssumption`, which is `FailoverAssumption`), for any
clients that come back any number of times: `ProcessTypeCorrect`,
`OnlyClaimantsDialled` (`DialsOnlyClaimants`) and `ServerSoundInProcess`, which
carries `NoOrphan` and `DrainedOnOk` over to the composition. `ProcessInv` is the
invariants of both halves with `OnlyPrimaries` (whatever can become the target has
claimed) and `Routed` (every accepted connection was given a destination). The
interleaving that matters, a swap between accept and dial, is harmless because
`destination` was copied from a target that satisfied `OnlyPrimaries`, which no
election takes back.

`ConstructorsProofs`, for any certificates, DNS answers, host conditions and number
of rounds (`ConstructorsAssumption`: certificates belong to non-empty names):
`ProbedTargetsForward` (`ProbedIsForwardable`), `SrvTargetsInDomain`
(`TargetInDomain`) and `BuiltProxyServes`, an action property: a built Proxy keeps a
target, its plan and its connector through every later round. `ConstructInv` says
which stages go with which plan (`Staged`), that an SRV plan's connector is built
before anything is probed (`Connected`), that targets were handshaken with by the
probe (`Probed`), with the connector that forwarding uses, and that what is probed
passed the domain test (`Screened`). `SrvTargetsInDomain` assumes `[]TypeOK`: that
the test means "strictly under" needs names to be sequences of labels, and the names
come out of the parser and of `SelectSeq`, whose results the prover cannot type.
TLC checks that `TypeOK` on the `constructors` run.

`ExplainPipelineProofs`, for any connections, scenes, sinks and capacity, and any
`Build` and `ReadReply` (`PipelineAssumption`: the capacity is positive, the
least id negative, and `PlanFor` yields at most one plan for a request of a scene): `PipelineTypes` (`TypeOK`)
and `PipelineOrder` (`CorrelatedInOrder`). `CorrelatedInOrder` is about what was
recorded; to keep it, the event about to be recorded must be newer than all of its
connection. `PipelineInv` therefore adds to the shape of the state:

* `Bounded`: the channel of a `Sender` is within its capacity, the other sinks keep
  none;
* `Counted`: the id counter of a connection and the ids prepared are between `MinId`
  and -1;
* `Current`: while a connection is between request and record, what it has prepared
  names its last request, has the command of that request's plan, and carries the id
  the counter stands at, or none, and then it is an error and is not sent;
* `InOrder(Recorded)`: every recorded entry is `Correlated` (it is about a request
  that was sent, before the current one if there is one, and has an id, which was
  given out before); and of two entries of one connection the later has the larger request
  and the smaller id.

Consuming moves an entry from the channel to what was received and leaves
`Recorded` alone; dropping the receiver cuts its tail, which keeps an order; a full
channel or a closed one leaves it as it was. One lemma per action.

`FramingProofs`, for any streams, frames, reads and envelope (`FramesAssumption`: a
frame holds at least a header and, when that header parses, is as long as it says):
`FramesWhole` and `ReaderIsFrameQueue` (`ImplementsQueue`), the refinement of
`FrameQueue`. The decoder knows bytes and the queue frames, so `FrameInv` says that
the bytes split off are exactly those of the first `Taken` frames, and that a cached
header is the header of the frame that comes next, of which at least the header has
arrived. From it, `DecodeAnswers`: whatever part of the next frame is in the buffer
and whatever follows it, the decoder's answer is about that frame (no answer yet,
its header refused, or taken whole). A read that fails leaves all of this alone and
ends the queue (`FailureBreaks`). The simulation then has one lemma per kind of
answer and per action. The lemmas below it are about the concatenation of the
frames: that the buffer begins with the next one (`BufferStarts`), that prefixes
grow (`PrefixGrows`), what `FlattenSeq` of one more frame is (`FlattenAppend`).
These are inductions on the number of frames; they are made with `Least`, that a
non-empty set of numbers has a least element, and the set of numbers for which the
claim holds, since this needs no operator parameter. The parsers stay closed in these
proofs, except that a header is a function of the first 16 bytes (`HeaderLocal`) and
that `Message::from_bytes` is header, then body (`FromBytes`).
`MessagesDeliveredOnce` draws the conclusion in one state, from the queue's steps
alone: there is an increasing map from the messages delivered to the frames taken
that gives each message its frame and leaves out exactly the frames that do not
parse (`DeliveredOnce`). It is proved and not listed with the run, where
`ImplementsQueue` already covers it.

The type invariants of `ServeLoop`, `ProxyConnection` and `Failover` are proved
rather than listed with their runs.

Only model-checked:

* liveness under fairness, and `ENABLED`: `RequestSettles`, `Converges`, `RoundsEnd`,
  `NeverBlocked`, `PipelinedDelivered` and the others named under Fairness;
* what recursive definitions compute, as parsing, redaction and plan trees do:
  `RelayFaithful`, `NeverTooLarge` and `LogFaithful` of the wire run,
  `ExplainDescribesRequest`, `WholeOrFirstFault` and `PlanMirrorsReply` of the
  explain run, and `UriHonoured`. The operators are RECURSIVE, or their result rests
  on an induction over a document that is not a count of elements;
* `OrderRespected` and `TypeOK` of `Constructors`, which rest on what `SelectSeq`
  returns: its definition is closed to the provers.

## Not modelled

* BSON itself, serde, the tokio runtime, `FramedRead`, channels, DNS and rustls are
  external: they are modelled by how the code uses them. In particular the TLS
  handshake is reduced to whether the connector trusts a certificate class.
* Builder methods that choose a layer (`layer`, `enable_logging`,
  `enable_explain`): they change a type, not a state. Their effect is `ExplainOn`,
  `RewriteOn` and the log of `Framing`.
* Texts: error messages, their previews (`explain/util.rs`), log levels, `Display`.
* Errors of the writers other than `MessageTooLarge`: a message that was parsed has
  documents that serialise and identifiers without a NUL.
* Memory and the size of buffers; `lib.rs` and the fixtures.

The documents of `ProxyConnection` stay reduced to a body value and a rejected frame
to `garbled`: what happens inside a frame is `Framing`'s subject, and both meet in the
notion of a frame that is accepted or reported.
