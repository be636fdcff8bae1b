# Zyre in TLA+

Zyre (`src/`) gives applications on a local network peers that find each other,
groups they join and leave, messages to a peer (WHISPER) or a group (SHOUT) and,
on request, an elected leader of a group. Every process runs a node: one actor
thread with a ROUTER inbox, one DEALER mailbox per peer, and a UDP beacon or a
gossip actor for discovery. There is no server: all that holds between two nodes
holds because of the order in which their handlers ran. That is what these
modules are about.

## 1. Inventory

| part | state | operations | made correct by |
|---|---|---|---|
| node actor, `zyre_node.c` | peers, peer_groups, own_groups, status, port and endpoint, beacon, gossip | API commands (`zyre_node_recv_api`), messages (`zyre_node_recv_peer`), beacons, gossip tuples, the reaper | the handshake settles; nothing points to a removed peer; one mailbox per endpoint; memberships are exact; ENTER and EXIT alternate |
| peer, `zyre_peer.c` | connected, ready, mailbox, sent and wanted sequence, status, evasive and expired times | connect, disconnect, send, refresh, messages_lost | gaps are noticed, and seen only when something was lost |
| group, `zyre_group.c` | raw pointers to its peers, contest, leader, election | join, leave, send | members are live peers |
| election, `zyre_election.c` | current active wave (caw), father, erec, lrec, leader | reset, supporting, complete | one leader, the same everywhere, who contests, in the end |
| API, `zyre.c` | a pipe to the actor, the inbox of events | one command per call, some with a reply | request and reply stay paired |
| event, `zyre_event.c` | one decoded event | take apart the frames of an event | every event the actor posts is decoded |
| codec, `zre_msg.c` (generated) | one message | encode, decode | decode undoes encode; lengths are checked |
| tools and examples: `perf_local`, `perf_remote`, `zpinger`, `ztester_*`, `chat`, `minimal` | counts of peers and answers, whom to answer next, their actors | read events, answer, start and stop nodes | counts fit what was sent, answers are not answered, each comes to its end |
| self tests in `zyre.c`, `zyre_event.c`, `zre_msg.c` | where the script is | calls, sleeps, expected events | the expected order is the only one |
| bindings, api, builds, packaging | none of their own | generated wrappers | - |

Interaction: the application talks to the actor over a pipe and gets events from
a second socket; actors talk to each other only by ZRE messages from a DEALER
mailbox to a ROUTER inbox. Beacons and gossip tuples only introduce peers (and,
with port zero, remove them).

What is hard here: two nodes discover each other at any time, from either end or
both; a HELLO may meet a peer that is unknown, connected, ready, purged or
half-open; messages of a mailbox that was destroyed reach the inbox before those
of its successor; timers expire while an answer is under way; mailboxes fill up;
TCP connections break; processes stop, die and come back on the same endpoint
with a new uuid. Between an application and its own node there are two bounded
pipes that block, commands without a reply, and events that are taken apart by
position; the node's thread serves timers only when its sockets are quiet. `PROJECT.json` lists the hazards line by line.

## 2. Modules

### ZyreNode

A network of nodes: `zyre_node.c`, `zyre_peer.c`, `zyre_group.c` without contests.

* `node[n]` is the `zyre_node_t` of n. A node is one thread and its handlers do
  not interleave, so a handler is one action; functions that handlers share
  (`RemovePeers`, `RequirePeer`, `Send`, `JoinPeerGroup`...) are operators from
  the record of a node to the record they leave. Peer objects are spread over
  the record: sets of uuids for the flags, functions for the counters.
* `mailbox[e]` of n holds what n sent to endpoint e and the receiver has not
  read. It is one FIFO for all mailboxes n ever opened to e: the inbox is
  created with ROUTER_HANDOVER and every mailbox carries the same identity, so
  the mailboxes follow each other, and they differ only in which tail is cut off
  (`Stale`, `Discard`: linger is zero) when the next one begins. A ROUTER that
  hands an identity over drops what it had queued of the old connection, which
  is such a tail as well.
* `entered` is not in the code: a peer is in it from its ENTER event to its EXIT.
* `air` holds beacons that outlive their sender, `published` the gossip tuples.
  Beacons of running nodes need no state: they repeat every second.

Actions and handlers:

| action | code |
|---|---|
| Start, Stop, Destroy | START, STOP, `$TERM` or the death of the process |
| Join, Leave, Whisper, Shout, RequirePeerCommand | branches of `zyre_node_recv_api` |
| RecvHello, RecvIgnored, RecvLost, RecvData, RecvPing, RecvJoin, RecvLeave, RecvGoodbye | `zyre_node_recv_peer`, by the path taken |
| RecvBeacon, RecvLateBeacon, RecvGossip | `zyre_node_recv_beacon`, `zyre_node_recv_gossip` |
| Reap | one pass of `zyre_node_ping_peer` over the peers |
| Discard, Drop | libzmq: a mailbox closed with messages in it, a broken TCP connection |

A failed `assert` (status of JOIN and LEAVE) is life `"aborted"`: NDEBUG is
undefined in the build, so the process goes. The removal of a peer leaves out what the
draft API adds to it, the UNPUBLISH of its gossip tuple (`zyre_node.c:932`).

Properties, beside the type invariant:

* `NothingLost`: without transport faults no receiver ever sees a gap.
* `StatusAssertHolds`: the status assertion never fails.
* `ViewCatchesUp`: the groups a node shows for a peer differ from those the peer
  is in exactly by the JOINs and LEAVEs (or the HELLO) still under way, and so do
  the two counters. It holds at every moment, not only when all is quiet.
* `KeepsPromise`: ZyreNode implements ZyrePresence, see there.
* `NeverIgnored`: what comes over a mailbox that is still open is not ignored.
* `OneMailbox`, `NoDanglingPeer`, `AnnouncedFirst`: see section 5.
* `Converges`, `Forgets`, `HandshakeEnds`: two running nodes end up ready to each
  other, gone ones are forgotten, HELLOs end.

Discovery, API calls and faults are counted by `Budget`; a full `MaxQueue` only
delays a sender in the model (a bound, not the code's behaviour, which is `Hwm`).

### ZyreElection

One group with a leader to elect: `zyre_election.c`, the contest, leader and
election fields of `zyre_group.c`, and the branches of `zyre_node.c` that start,
serve, abort and finish an election. The members answer every change of the
group with waves of ELECT; everybody supports the lowest challenger heard of,
echoes to the peer it was heard from (the father) once all peers of the group
have sent that challenger, and the challenger that has all echoes sends LEADER,
which everybody repeats once and which ends the election when all have sent it.

* `node[n]` has the peers and the one group of n; `election` is the
  `zyre_election_t` and `running` says that `group->election` is not NULL. An
  election without a wave (`caw` is NULL) exists: `zyre_group_require_election`
  makes one for a LEADER that comes too late.
* uuids are numbers, as only their order matters (strcmp).
* `mailbox[m]` of n is the FIFO from n to m. Links are reliable here and a node
  greets a peer once: what else a link can do is the subject of ZyreNode, which
  in turn has no elections. The two modules share the handlers of JOIN, LEAVE,
  HELLO and the removal, each with its half of the effects.
* `group->leader` and `election->father` are raw pointers that outlive the peer.
  `Pointed` lets a dangling one stand for any peer or for none.
* `announced` is not in the code: the last LEADER event the application got.

| action | code |
|---|---|
| SetContest, Join, Leave | branches of `zyre_node_recv_api` |
| Die | `$TERM` or the death of the process |
| Discover, Remove | beacon or gossip; the beacon with port zero or the reaper |
| RecvIgnored, RecvHello, RecvJoin, RecvLeave, RecvElect, RecvLeader | `zyre_node_recv_peer` |
| Discard | what a dead process had not sent |

Properties, beside the type invariant:

* `Consent`: when nothing is under way all members have announced the same
  leader, and have one if two of them contested from the start.
* `CountsWithinGroup`: no vote is counted twice or in a later election, so that
  the equality tests of `zyre_election_erec_complete` and `_lrec_complete` are
  not jumped over. This is what breaks when elections overlap.
* `ElectionsEnd`: under fairness the waves die out and no election stays open.
* `OnlyContendersLead`: who does not contest is never elected.

### ZyrePresence

What an application may rely on, without messages, endpoints or timers: ENTER
and EXIT alternate, a JOIN or LEAVE event tells the next change the peer made to
its groups, and a view may lag behind its peer but is never ahead of it nor
beside it. A peer that says HELLO again is renewed (EXIT and ENTER in one step),
and then nothing is unlearnt.

ZyreNode implements it (`KeepsPromise`, run node_beacon). The refinement mapping
takes `up` from the nodes that live, `own` and `version` from the node's groups
and status counter, and `view[r][s]` from `entered`, the groups r keeps of s and
the counter r keeps of s (`ViewOf`). Every action of ZyreNode that moves messages
only is a stutter. The mapping holds while no mailbox is full or purged and the
counters do not wrap: a full mailbox or a purge makes a second ENTER without an
EXIT, which is why node_beacon has neither (section 4). Under these conditions it
is proved for every network (`PromiseKept`, section 5).

### ZyreActor

One node as its application sees it: all of `zyre.c`, the decoder of
`zyre_event.c`, and of `zyre_node.c` the poll loop, every command and query, the
events, and the timers.

* The application is a thread that posts a command (`pipe`), or posts one and
  waits for its reply (`calling`, `replies`), or takes an event (`events`, `seen`).
  The pipes hold `Hwm` entries and block the writer, which is how the two can wait
  for each other (`Blocked`). `half` is a command without its last frame: what a
  WHISPER or SHOUT of an empty message leaves on the pipe.
* The node is the other thread. A handler computes what it leaves and what it has
  to write (`todo`); the writes then go out one by one (`Flush`), since each may
  block; nothing else of the node runs meanwhile.
* The poller returns the first of its readers that is ready, in the order of the
  code: a command is taken before a message, and the reaper runs only when nothing
  is ready for an interval. `ReapPeers` walks the hash table in `Order`; removing
  the entry at the cursor skips the rest of its bucket, as `zhash_next` does.
* A peer is kept by what the node has of it: unknown, known or ready; `open` while its
  mailbox is connected; `met` once the node has its headers. Neither of these follows
  from the other. Whatever sends something may find the mailbox of a peer in
  `limits.full` full (EAGAIN) and disconnect it: the peer stays in the table and in its
  groups, is not ready any more, and nobody is told. `RequirePeer` disconnects whoever
  has the endpoint (`limits.place`) of the peer that comes. A HELLO of a peer that was
  disconnected finds it in the table and makes it ready, without a mailbox: it is
  half-open, and its address is the empty text. How full a mailbox is, and what is in
  it, is the subject of ZyreNode.
* Time is counted in ticks, a deadline is kept as the ticks left. `limits.prompt`
  says that the clock waits for whoever has work to do.
* `asked` remembers what the application asked for and whether it has kept to the
  documented order of calls (`careful`); `view` is what a program that believes
  its events notes down. Neither is in the code.
* A failed `assert` is recorded in `failed` and ends the process.

| action | code |
|---|---|
| one per call of the API (Whisper ... Destroy, Uuid ... Dump) | the functions of `zyre.c` |
| Return, TakeEvent, GetMsg | `zstr_recv` of a reply, `zyre_event_new`, `zyre_event_get_msg` |
| RecvApi | `zyre_node_recv_api`, one operator per command |
| RecvPeer, Discover, StartBeacon | `zyre_node_recv_peer`, `_recv_beacon`, `_recv_gossip` and what they tell the application |
| ReapPeers | the walk over `zyre_node_ping_peer` |
| Flush | `zmsg_send` to a pipe |
| Say, AnswerPing, Die, Tick | peers and the clock |

Properties, beside the type invariant:

* `Paired`: the reply a call returns with is the one to that call, and it is under
  way exactly once while the call waits.
* `ReadsItsWrites`: a query takes in every command posted before it.
* `ViewFollows`: events that are written, being written and taken apart add up to
  the peers that were announced and have not been removed since, with their headers,
  endpoints and groups; every EXIT undoes ENTER and JOINs. Every ready peer is among
  them. A peer that was disconnected without an event is still among them too, and when
  it says HELLO again a second ENTER comes without an EXIT, after which the view shows
  it as it is now: this is what the code does (section 4), and all an application can
  rely on.
* `CarefulNeverAborts`: no assertion of the node fails for an application that
  keeps to the documented order of calls and sends no message without frames.
* `PollsWhatItHas`: the poller refers to no actor that was destroyed.
* `LivePeerKept`, `SilentRemoved`: who answers in time is not given up, who is gone
  is removed, whatever the timeouts and whoever shares its bucket.
* `Answered`: a call returns, unless both threads wait for each other.

### ZreMsg

The codec octet by octet, `zre_msg.c`: the object and its setters, `zre_msg_dup`,
`zre_msg_send` and `zre_msg_encode`, `zre_msg_recv`, `zre_msg_zpl` and
`zre_msg_new_zpl`, over one link from a DEALER to a ROUTER on which strangers send
malformed multiparts too. `Base` stands for 256: buffers, lengths and numbers have
the widths they have in C, in that base. `FrameSize` (summed up first) and `Body`
(what is put) are separate definitions as they are separate code. The cursor is
the needle and the ceiling; a read past the ceiling fails and the rest of the
multipart stays on the wire for the next call. `SelfTest` is `zre_msg_test`: an
object is filled, sent twice and received twice into itself, and the next type is
filled into what was received.

The tree (`Zpl`, `NewZpl`) keeps what makes storing and loading two different things:

* `zre_msg_zpl` hands a header's name to `zconfig_putf` as a path (zre_msg.c:1642). A '/'
  (`Slash`) in front is dropped; behind any other the value goes to a child of a child,
  and `zre_msg_new_zpl`, which reads the children of the section and no further, finds
  the parent without its value. `Section` puts the headers one after the other as
  `zconfig_put` does. That a section without a value is read as the empty text is
  czmq's doing and taken from there.
* An entry of a tree that was not stored by `zre_msg_zpl` can be missing (`Null`) or a
  text of another kind: `Word` has a wrong end (for a number letters, for pairs an odd
  length), `Junk` is even in length and not hexadecimal, `Broken` is hexadecimal and
  no frames, `Blank` is empty. `BytesFromStr`, `LoadNumber`, `LoadContent` and
  `DecodedContent` say for each what the code makes of it: BYTES_FROM_STR takes what
  its variable `uint` held for octets that sscanf did not find (any of `Memory`),
  unless its assert ends the process (`Abort`); strtoll stops at the end of an empty
  text; the result of `zmsg_decode` is stored unseen, NULL included.

Properties, beside the type invariant: `FrameIsFilled` (nothing is written past
the frame, nothing is left unwritten), `ControlArrives` and `RoundTrip` (what is
received is what was sent, in a new object and in a used one), `NothingSwallowed`
(a malformed multipart costs no message behind it), `StoredAsItWas` (what is stored is
what is loaded, but for headers with a '/' in their names, and these take no other
header with them unless it has the name of the same entry) and `SpoiltTree` (what is
loaded of a tree with any one entry in any of these states: nothing, or no process any
more, or a message with all other fields, the headers apart, as they were stored).

### ZyreClients

The programs that come with Zyre over the service of a node: `perf_local` and
`perf_remote`, `zpinger`, `chat`, `minimal`, `ztester_beacon` and
`ztester_gossip`, and the self tests of `zyre.c` and `zyre_event.c` as scripts of
calls and expected events. The service (first part of the module) is the node
with groups, mailboxes that keep the order and events in a queue; here nobody
fails and sequence numbers are right, as ZyreNode is about those. A behaviour is
one program with its processes (`role`); `app[n].at` is where it has got to.

* A command takes effect at the call: pipe and events are the only ties between
  a client and its node, so a command that waits is a client that calls later.
* A sleep lasts until what the sleeper sent has arrived (`minimal`) or the network
  is calm (the self tests): the programs count on it.
* A node is EVASIVE once per refresh; a node destroyed loses, per peer, all or
  nothing of what is under way. `perf_remote` runs first (perf_remote.c:19).
* `perf_local` takes whoever enters for a remote (perf_local.c:90), so it runs with
  nodes of `perf_remote` only (`Apart`); the self tests run alone (`Alone`).

Properties, beside the type invariant: `AssertsHold` (the order the self tests
expect is the only one), `GreetersAreMembers`, `NothingMiscounted` (what
`perf_local` counts and what is under way is what it sent, times the remotes),
`ProgramsEnd` and `ConversationEnds`.

## 3. Runs

`Budget` bounds the events a run counts; everything else is free. The runs of
ZyreNode use two nodes and one group.

| run | budget, instance | checked | shows |
|---|---|---|---|
| node_beacon | UDP; 3 joins or leaves, 1 message, 1 stop or death, 1 wrong expiry | NothingLost, ViewCatchesUp, KeepsPromise | without transport faults the handshake, in any order from both ends and with a wrong expiry in it, never loses count, and the application sees what ZyrePresence promises |
| node_settle | UDP; 2 joins or leaves, 1 stop or death, 1 PING, counters that wrap, fair | TypeOK, StatusAssertHolds, NeverIgnored, Converges, Forgets | nodes end up ready to each other, and forget the one that goes |
| node_gossip | gossip; 2 joins or leaves, a message, REQUIRE PEER, PING, fair | Converges | one introduction each is enough, whatever crosses it |
| node_faults | gossip; a third uuid on n2's endpoint, Hwm 2, 1 stop or death, 1 broken connection, 1 failed connect | NothingLost, OneMailbox, NoDanglingPeer, AnnouncedFirst | the purge and every partial failure leave consistent tables |
| node_storm | 1 wrong expiry, fair | HandshakeEnds | violated, finding 1 |
| node_loss | 2 joins or leaves, 1 wrong expiry, 1 broken connection | StatusAssertHolds | violated, finding 2 |
| election_elect | 4 nodes, two contest; 4 joins one by one, no ELECT overtakes a JOIN, fair | CountsWithinGroup, Consent, ElectionsEnd | elections that do not overlap count right, agree and end |
| election_churn | 2 members that meet; 1 contest, 1 join, 2 leaves, 1 death at any time | TypeOK, OnlyContendersLead | overlapping elections, stale messages and dangling pointers elect no bystander |
| election_startup | 3 contenders that are members meet one by one | Consent | violated, finding 3 |
| codec | base 16; 2 setters, 2 sends, 1 stray multipart, 1 copy or reload; or the self test of 2 types in turn | all of ZreMsg | what is sent arrives, octet by octet, and what is stored is loaded, also from trees with one bad entry |
| actor | 2 peers, 1 group, pipes of 2; thirteen scenarios: life cycle, commands, talk, noise, a full mailbox, one endpoint for two, elections that meet a full mailbox, four of reaping, two of reaping with a full mailbox | all of ZyreActor, fair | an application and its node, with timers |
| clients | 3 processes, one program per behaviour | all of ZyreClients, fair | every program and self test ends, with the right counts |

Mutants: each property is violated when one definition is replaced by its variant
(`Support_ToFather`, `RecvHello_JoinFirst`...) next to it; `PROJECT.json` pairs them.

Bounds. Two nodes are enough for whatever concerns a pair, and all of the
handshake does: a node's record for one peer is touched by the messages of that
peer, except through the purge, for which `Successor` puts a third uuid on n2's
endpoint. One group suffices as groups do not interact (several groups in a HELLO
are joined one by one, one status for all). In node_settle `StatusMod = 2` makes the status
wrap within the budget; `SeqMod = 8` is above the numbers a run reaches between two
HELLOs (every HELLO restarts at 1); the equality test that is the only use of a
sequence number does not see the width. `Hwm = 2` is small enough to be hit,
`Hwm = 8` is never hit with `MaxQueue = 5`.

Elections need four nodes: with three a newcomer, a challenger and one other member
reach every branch of the wave, but an ELECT that overtakes a JOIN does no harm, as an
echo sent twice makes up for the one that is missing (section 4); two suffice for churn,
where what matters is the crossing of messages, and keep all departures and deaths
within reach. `Patient` makes changes of the group wait until the last one has
settled. `Prompt` says how long messages take: no ELECT that answers a JOIN reaches a
member before the JOIN itself. TCP does not promise that, as the two come over different
connections; section 4 says what happens otherwise.
`Contender`, `Late` (nodes that have met nobody yet) and `Joined` (members before
they met anybody) choose the scenario.

ZyreActor: a pipe of two entries is full as soon as two events of one handler
wait; two peers are what sharing a bucket of the hash table takes, and an
application has one thread. Intervals are 1, 1 and 3 ticks, so that PING, silence
and expiry fall into three passes of the reaper; a timeout of 0 and a negative one
are among the arguments. Scenarios keep what does not interact apart (the timers
do not meet the life cycle) and leave all orders free within each. `full` names the one
peer whose mailbox may be full, at any message sent to it; `place` puts both peers on
one endpoint or each on its own; the inbox holds one message (`InboxBound`).

ZreMsg: base 16 puts the cut of a text, the wrap of a number and the length of a
header's name within reach of frames of some twenty octets. Texts are one octet longer
than a buffer, in lists also one octet long; octet 9 stands for '/', and among the
headers are a nested name, the name of its section, and a name that begins with '/'. Two
sends with a stranger between them meet every alignment of what a failed read leaves;
two types of the self test in turn make every type follow every other.

ZyreClients: two remotes are the smallest number for which the answers of one may
overtake the greeting of another, two messages the smallest that both loops of
`perf_local` repeat. A tester toggles two actors three times: start, stop, start.

Deadlock is not checked: all nodes may be stopped or dead and the budget spent.

Fairness (`FairSpec`). The actor's loop serves every socket that stays readable
(RecvPeer, RecvGossip), a running node's beacon is repeated each second
(RecvBeacon), and when traffic stops the poller expires and the reaper runs
(ReapSilent). Nothing is assumed of the API, of faults, or of expiries that are
not due for ever. ZyreElection assumes the same: messages are received, beacons
introduce, the dead are removed (one of these things happens somewhere while any of
them is due); nobody has to join, leave or die.

ZyreActor: the node's thread runs, the application takes replies it waits for and
reads its events when it does not wait, a live peer answers PINGs, time passes
(strong fairness of Tick, since the clock is only held up while somebody works).
ZyreClients: something is done as long as there is work, the tester's main thread
goes on, and an actor that has both events and `$TERM` waiting takes `$TERM` at last,
as zpoller_wait looks at the pipe first. Users and chance owe nothing.

Timers. `Silent` says when the timers of a peer run out whatever the speed of
the nodes: nothing is under way and a PING would get no answer that is heeded.
Every other expiry is a wrong suspicion and costs `suspect`.

## 4. Findings

1. **HELLOs without end** (`node_storm`, `zyre_node.c:1087`). A HELLO from a peer
   that is ready removes that peer and requires it again, and a peer that is
   required is sent a HELLO. With one HELLO too many under way, after one of two
   nodes has wrongly expired the other, each HELLO triggers the next: EXIT and
   ENTER alternate on both sides.
2. **The status assertion** (`node_loss`, `zyre_node.c:1206`, `1234`). A lost HELLO
   of a second mailbox is not noticed if what follows is in sequence with the
   first, and a JOIN then fails `assert (zre_msg_status (msg) ==
   zyre_peer_status (peer))`: the receiver aborts.
3. **No leader after start-up** (`election_startup`, `zyre_node.c:1316`). Three
   contenders join, then discover each other. A discovery restarts the election
   while ELECTs of the last one are under way; they name a challenger and no
   round, so they are counted in the new one. `erec` passes the number of peers,
   the test for equality fails for ever, and the group is left without the
   common leader the comment of `zyre_set_contest_in_group` promises.

Seen while modelling, without a run of its own:

* an ELECT that overtakes a JOIN breaks elections even when nodes that know each other
  join one by one and one of them contests. The member it reaches does not count
  the newcomer: it echoes too early, does not send the newcomer its vote, and echoes
  once more when the JOIN and the newcomer's vote have come. The newcomer waits for
  ever, the count of the other jumps over the size of its group. Four nodes are
  needed; `Prompt = FALSE` and `Contender = {1}` in MCZyreElection_elect.cfg show it
  for both CountsWithinGroup and Consent;
* the lowest id does not win (`zyre_node.c:1287`; `zyre_election.c:17` says it
  does): the member that joins has no wave yet and supports whatever challenger
  comes first, even when it contests itself and its id is lower;
* a gossip tuple of a process that is gone disconnects the live peer that has its
  endpoint now (`zyre_node.c:828`); the stale HELLO makes the live one answer, and
  ENTER comes a second time without an EXIT;
* a mailbox that is full (EAGAIN, `zyre_peer.c:268`) is destroyed and its peer
  stays in the table, not ready: what that peer sends is discarded until the
  timers remove it, although README.md:54 says no messages are lost under load;
* STOP leaves the gossip actor in the poller: a stopped node goes on connecting
  to nodes that gossip tells it of, and a stop and start cycle with gossip leaves
  it a stranger to those that removed it (the TODO at `zyre_node.c:312` asks);
* a START after STOP with beacons never configures the new beacon, as the port is
  still set: the node stays deaf;
* a WHISPER or SHOUT queued for a process that is gone is delivered by the one
  that took its endpoint, and a SHOUT that crosses the receiver's LEAVE is
  delivered although the group is not one of its own any more;
* with gossip a peer is introduced once: a connect that fails when the tuple arrives, a
  removal after a gap and the tuple of a process that is gone are never repaired, and
  leave the two nodes unknown to one another;
* three contenders, the leader leaves, everything else waits: the two that are
  left can end up each announcing the other as leader. Both restart, their waves
  cross with that of the one that left (it still serves elections), and LEADER is
  repeated with the own wave in it instead of the leader received;
* the leader dies, one member removes it and challenges before another has: the
  other counts the dead in its group, discards its vote at the removal, and the
  election does not end;
* a node that contests and has not joined starts elections on HELLO
  (`zyre_node.c:1153` does not ask for membership, JOIN and LEAVE do); the members
  do not have it in their group and overcount;
* a sole contender that joins last is not elected, as only members challenge;
* `group->leader` survives the own LEAVE and the leader's removal, and so does
  `election->father` when we do not contest: both are followed later;
* the leader leaves while we are no member, we join again and it goes: an
  election starts in an empty group and waits for ever;
* a HELLO that is lost (broken TCP connection) can make two nodes expire each
  other in turn.

Of the node and its application (ZyreActor):

* START twice with beacons fails an assertion (`zyre_node.c:239`); gossip with a
  port set and then START fails `assert (!self->endpoint)`, which contradicts the
  comment there; `SET PORT 0` without gossip fails line 271; REQUIRE PEER before
  there is an endpoint hands NULL to `strcmp` (line 734). `asked.careful` says who
  avoids them;
* a WHISPER or SHOUT without frames leaves its command unfinished on the pipe
  (`zyre.c:536`); the next command becomes its content, and if that was a call its
  reply never comes: `zyre_destroy` hangs. `zyre.c:42` has "zero or more frames";
* a full event pipe and an application that waits for a reply: both wait for ever.
  An application that does not read its events cannot safely query or destroy;
* with a timeout of 0 the interval of the poller is 0 and the reaper spins; atoi
  takes negative ones as well, which make every peer overdue at once;
* the reaper runs only when the poller expires, although the comment above the
  loop (`zyre_node.c:1527`) says once a second: under constant traffic nobody is
  pinged or expired. `SilentRemoved` therefore supposes pauses;
* deleting at the cursor of the hash table skips the rest of its bucket until the
  next pass: a peer may be told silent later than its timer says;
* EVASIVE and EXIT events come for peers that have never ENTERed;
* a peer that EAGAIN or a purge has disconnected stays in what the events have told
  the application, and in `zyre_peers` and the groups; its address is empty
  (`zyre_peer.c:309`). Its next HELLO gives a second ENTER without an EXIT, and it is
  ready again without a mailbox, so that nothing is sent to it until the timers of one
  of the two have run out (`zyre_peer.c:255` sends only when connected);
* PEER HEADER answers with an empty text where the documentation says null.

Of the codec (ZreMsg):

* zre_msg_recv returns 0 for a frame that ends too early, as the GET macros leave rc as
  it is (zre_msg.c:73), where its comment (line 852) promises -2; zyre_node_recv_peer
  then handles a message that is filled in part;
* the names of headers have one octet of length and are not cut: 256 octets and
  more shift all that is behind (`LengthsFit` is the precondition of RoundTrip);
* group names of 256 octets and more are cut in JOIN, LEAVE and SHOUT but not in
  HELLO, so the two ends disagree about them;
* `headers_bytes` stays when the headers are taken out, and a message sent then has
  octets nobody wrote; no content arrives as one empty frame; `zre_msg_zpl` of a
  message without content fails an assertion;
* a header whose name has a '/' in it is lost between `zre_msg_zpl` and
  `zre_msg_new_zpl` (zre_msg.c:1642, 424);
* BYTES_FROM_STR checks that the length is even and nothing else (zre_msg.c:215): text
  that is not hexadecimal becomes whatever was in memory, or fails the assertion;
* an empty text passes for the number 0 (zre_msg.c:363);
* content that `zmsg_decode` refuses gives a message with content NULL (zre_msg.c:471,
  525), where other unusable entries give none, and `zre_msg_zpl` of that message
  fails its assertion.

Of the programs (ZyreClients):

* `perf_local` waits for ever when a remote or an answer is lost; with
  `max_node` 0 it divides by zero;
* the actors of the testers answer SHOUTs and none ever sends a first one;
  a timeout of `zpoller_wait` is taken for an interrupt, so actors end by
  themselves while main counts them as running;
* `chat` stops its node before it sleeps, so the goodbye of the beacon can overtake
  the last SHOUT; on an interrupt `zpoller_wait` returns NULL, which neither branch
  of its loop handles;
* `minimal` gets by because ENTER and JOIN events make up for the SHOUTs lost
  before the peers met.

## 5. What is proved

`ZyreNodeProofs` proves with TLAPS, for any finite set of nodes and any groups,
endpoints, widths, high-water mark and budget:

* `TypeCorrect`: Spec => []TypeOK. No counter leaves its width.
* `NoDanglingPeers`: Spec => []NoDanglingPeer. `zyre_group_t` keeps raw pointers;
  no removal, purge, repeated HELLO or full mailbox leaves one behind.
* `OneMailboxPerEndpoint`: Spec => []OneMailbox.
* `EnterComesFirst`: Spec => []AnnouncedFirst.

They follow from one invariant, `IInv`: the type invariant and, of each node's
record, that connected, ready, entered and every group lie in the peers table,
that ready peers and members have entered, and that two connected peers have two
endpoints. `ready` is in it because membership is granted only to ready peers,
`connected` because a purge must find the mailbox it replaces. The proof has a
lemma per helper (Disconnect, Send, RemovePeers, RequirePeer, EnterPeer, Hello,
JoinPeerGroup, LeavePeerGroup) that it keeps the invariant of one record, and a
step per action that the record it writes came out of such helpers. Assumptions:
`NodeAssumption` (Node is finite, for the cardinality in the budget of Reap),
`EndpointAssumption`, `WidthAssumption`, `BudgetAssumption`.

The second part of the module goes on from there, under the same assumptions:

* `NothingIsLost`: Spec => []NothingLost. As long as no connection has broken,
  `zyre_peer_messages_lost` never finds a gap.
* `StatusAssertion`: Spec => [](NoDrop => StatusAssertHolds), and with
  `Budget.drop = 0` `StatusAssertionHolds`: Spec => []StatusAssertHolds. The assertion
  that ends JOIN and LEAVE fails only after a connection has broken; run node_loss
  shows that it may fail then.

Both properties speak of the message at the front of a queue, which was in the middle
of it before and at its end when it was sent. The invariant `LInv` adds to `IInv` what
a queue is, how its sender stands to its end and its receiver to its front:

* `Stream`: each message has the number after the one before it, and a JOIN or LEAVE
  the status after the last one named, or it is a HELLO and starts anew;
* `EndsWith`: the last number in the queue is the sender's `sent_sequence` and the last
  status named is its `status`, while the mailbox is open;
* `Begins` and `Through`: a receiver that heard the sender's HELLO finds the next number
  and status at the front, and when it has read the queue it stands where the sender
  does;
* `OneBound`: no two nodes read from one endpoint, which `Start` guarantees and without
  which one of them would take the other's messages.

A lemma each says what is left of this when a message is sent, when a new mailbox puts
its HELLO behind the rest of an old one, when the front is received and when libzmq
throws away what is stale. Every helper then `Extends` the mailboxes of its node
(whoever could follow them still can) and `Keeps` what the node knows of its peers, both
of which compose; each handler's step puts them together. The theorem would fail if a
purge did not come before a new mailbox, if HELLO were not counted, or if the status were
stepped for some of the peers only: what a JOIN needs is that it goes to every
connected peer.

`ZyreViewProofs` goes on from `LInv`, for networks with `OwnRoom`: every node has an
endpoint of its own and no mailbox exceeds its high-water mark (`MaxQueue <= Hwm`).
This is not for convenience. Where a new node takes the endpoint of one that is gone,
or a mailbox overflows, the mailbox is purged, its peer is no longer ready and what it
sends is ignored (section 4): TLC refutes ViewCatchesUp there. The runs node_beacon and
node_settle are such networks.

* `ViewsCatchUp`: Spec => [](NoDrop => ViewCatchesUp). Nothing else is assumed: views
  are right but for what is under way through crashes, restarts, peers that expired
  or were refused, with UDP and with gossip.
* `MessagesAreHeard`: Spec => [](Calm => NeverIgnored). `Calm` says that no connection
  broke, the host refused no socket, no peer was removed that is alive and, with gossip,
  nobody has left. The last is the tuple that stays: a node that said GOODBYE is met
  again by those the tuple reaches late.
* `PromiseKept`: Spec => KeepsPromise, the refinement of ZyrePresence, when there are
  fewer changes of groups than a status has values (`Budget.group < StatusMod`). It
  needs no NoDrop: a gap in the numbers makes the receiver forget the peer, and it
  enters again with a HELLO that is as true as it was when it was said.

The three have an invariant each on top of `TidyAll` (what shape the tables and the
messages have) and, for the first two, `LInv`:

* `VInv`: `Views`, for every pair: what the receiver shows, taken through the
  messages in the mailbox, `Leads` to what the sender is. CaughtUp is a function
  recursive over the queue; what one message makes of a view (`After`) is
  composed along it by induction on the place in the queue, which uses that < is well
  founded on Nat (`LeastElement`, `Climb`).
* `GInv`: `Greets`, for every pair: whoever is open to a peer that has not heard it has
  a HELLO in front, and late beacons are of nodes that were started before and met.
* `RInv`: for every node there is a history, the groups it had by its status, with which
  every HELLO, JOIN and LEAVE under way and every view agrees, and the status numbers
  along view and queue do not fall. The views of ZyrePresence are then never ahead, and a
  message that is handled tells the next change of its sender.

The steps are few because every handler has one of a handful of shapes: it changes the
groups and tells every peer, ends the node, greets and says one kind of thing, or reads
one message (`ApiShape` and the lemmas after it); the three invariants are
proved over the shapes. The refinement maps each shape to steps of ZyrePresence (`AsChange`,
`AsEnd`, `AsLearn`, `AsExit`) or a stutter (`AsNothing`).

`ZyreElectionProofs` proves without further conditions, for any finite set of node
numbers, contenders, scenario and budget (`NodeAssumption`, `BudgetAssumption`):

* `ContendersLead`: Spec => []OnlyContendersLead.
* `TypeCorrect`: Spec => []TypeOK.

OnlyContendersLead is not inductive: an announcement comes from a LEADER message,
which comes from somebody's wave, which comes from an ELECT message. The invariant
`IInv` therefore says of every node that its wave, its announcement and every
message it has under way (`Naming`) name a node of `Contesting`. Contesting only
grows (`CleanMonotone`). Each function has a lemma that its result is an `Heir` of
the record it was given, that is clean and the same node; each handler's step
composes them.

Its second half is about elections that do not overlap. Its statements suppose
`Orderly`: the nodes know each other and are in no group at the start (`Late = {}`),
join one by one (`Patient`) and stay (no leave or death in the budget), and no ELECT
overtakes a JOIN (`Prompt`). Neither the code nor ZeroMQ guarantees any of this: nothing
makes a join wait for an election, and messages of different connections have no
order. What the module has here are therefore conditional results, lemmas on how an
election goes when it is left alone, and no claim about zyre as it is; there
TLC refutes both properties where nodes meet as members (finding 3), where a member
leaves and where an ELECT overtakes, and Consent where a member dies (section 4).
election_elect is such an orderly scenario.

* `Phases`: Orderly => (Spec => []CInv).
* `VotesCounted`: Orderly => (Spec => []CountsWithinGroup).
* `ConsentReached`: Orderly => (Spec => []Consent).

The invariant `CInv` says in which `Phase` of an election the group is. Votes that
cross cannot be told apart by looking at a node, so each phase describes queues and
counters together. j is the newcomer, w the lowest challenger of those before it:

* `Idle`: nothing is under way and all members have announced the same node.
* `Unopposed`: j has joined, and none of the others contests.
* `Spreading`: the wave of w is under way. `Line`: in a queue JOIN comes first, then
  votes for lower and lower challengers, and the one for w, once cast, is the last.
  `Tally`: a node that supports w has counted exactly those whose vote for w was read;
  one that still supports somebody else (`Stray`) has counted only members that
  supported the same challenger, and never w, so that its count is never complete: this
  is the extinction of all waves but one. `Tree`: the fathers of those who support w
  form a tree with root w, said without a number for the depth: any part of
  it has a node whose father is outside, and a node that is nobody's father inside.
* `Elected`: w had all votes, therefore everybody supported w and had echoed; LEADER is
  under way, and `lrec` counts those it was read from (`Heard`).

A vote is ignored, counted, echoed, adopted, or decides (`VoteIgnored` ... `VoteDecides`);
each has a lemma that Spreading goes on or turns to Elected (`SpreadIgnored` ...
`SpreadDecided`). That the phases do end is half of Consent, as it speaks of quiet states:
while w's wave spreads something is under way (`SpreadUnsettled`), because a set of
members that have not echoed has one all of whose children have, by `Tree`, and who
has all votes has echoed. That w's last vote means everybody's is the same
argument (`AllEchoed`).

`ZyrePresenceProofs` proves, for any nodes and groups and any natural number of
changes:

* `ViewsAreReal`: Spec => []NeverAhead, by an invariant that adds the types and
  that a peer not known has told nothing. With `PromiseKept` it holds of the nodes:
  what an application shows of a peer is never ahead of the peer.

`ZyreActorProofs` proves, for any peers, groups, names, timeouts, pipes of any size
and budgets (`NumberAssumption`, `ValueAssumption`, `BudgetAssumption`):

* `TypeCorrect`: Spec => []TypeOK. The pipes never hold more than their high-water
  mark, whatever the application calls and whatever peers say.
* `PollerSound`: Spec => []PollsWhatItHas.

That a node with a port listens unless told to stop relates the node to what its
application has called, and there is a pipe between the two. The invariant
therefore says of every command in the pipe that it fits its handler and that a
STOP is there only after the call, and keeps apart what concerns the application
(`AppOK`), the node (`NodeOK`, `Listening`, `PeersOK`, `MembersOK`) and the world
(`WorldOK`); most actions touch one of these. What handlers leave to be written
(`todo`) is not in it: the results that follow say what it may hold.

The second part of the module needs `NullAssumption` besides, that NULL is no command
and no reason to abort, as the code has it: a pointer that is set is not NULL.

* `CallsGetTheirReply`: Spec => []Paired.
* `RepliesKnowWhatWasPosted`: Spec => []ReadsItsWrites.
* `OrderPreventsAborts`: Spec => []CarefulNeverAborts.
* `EventsTellTheTables`: Spec => []ViewFollows.

The forty calls and handlers are first brought to a few shapes (`NextShape`): the
application writes a command and notes what it asked for (`Writes`, `Notes`), the node
reads one (`Handled`), does something else of its own (`NodeStep`), writes what it has
to write, or the world moves. Each result has an invariant over these shapes:

* `Pairs`: the application is in one `Phase`. It is `Idle`, its command is the last in the
  pipe (`Sent`), its reply waits to be written, behind nothing but the STOP event
  (`Worked`), its reply is the only one in the pipe (`Replied`), or it is `Lost`, by an abort
  or by a message without frames. Two facts make this inductive: posts never come
  between a call and its return, and each handler of a call leaves one reply
  (`CallsAnswer`) while no other does (`PostsAreSilent`, `NodeStepNews`).
* `CatchesUp`: the last command about a matter (a group, the name) that is still in
  the pipe agrees with what was asked, and without one the node does (`Follows`, which
  a read and a write preserve). A reply that was taken of an empty pipe is then true.
* `Orderly`: while calls are in order, what is in the pipe relates what the
  application believes to what the node has (`InStep`): GOSSIP UNPUBLISH only behind a
  GOSSIP, no SET PORT behind one, REQUIRE PEER only with an endpoint the node already
  has, and the reply under way tells the truth (`Truthful`), since the application goes
  by it in its next calls. The one abort left is that of a bind that fails.
* `Follow`: the application's view, taken through what is on its way, `LeadsTo` what the
  tables say (`Shown`). It is about a function recursive over the sequence of events;
  that such a function exists and is one is proved once (`BuiltSteps`, `BuiltOnce`) and
  then how it goes along two sequences in a row, past the first event and up to the last
  (`LeadsThrough`, `LeadsPast`, `LeadsShort`). Every handler has a lemma that its events
  lead from what the tables said to what they say. The reaper's is by induction over the
  peers it visits. What the tables say (`Announced`) is who was met, not who is ready: a
  disconnection takes `ready` and `open` away from peers without an event, and leaves
  `Shown` as it was, and a second ENTER writes down what is there already. `Fitting`
  relates the two: who is ready has been met, who has been met is in the table, and the
  groups hold nobody else. `OneGroup` goes with it: messages name one group at most, as
  the model's peers send them, so that a HELLO announces no second JOIN.

`ZyreTimeProofs` goes on from this invariant:

* `LivePeersKept`: Spec => []LivePeerKept. A peer that answers, on a node that serves
  its sockets in time, is never expired by the reaper.

It needs `BucketAssumption`. The reaper's walk skips the rest of a bucket of the hash
table when it removes a peer, so that one that is due to be asked may be passed over
again and again while others of its bucket are removed. Whether this ends before it
expires itself depends on how many share the bucket: an interval for each of them,
on top of the time until it is asked, has to fit into the expiry. With the timeouts of
a new node (1000, 5000 and 30000) that is so for up to 25 peers to a bucket. TLC shows
that the bound is sharp: with intervals, evasive and expired timeouts of 1, 1 and 2 or
2, 3 and 6 ticks and two peers, or of 1, 1 and 3 and three peers to one bucket, a live
peer is expired. The invariant (`OnTime`) has for each ready peer that is alive: it has been
asked, or a message of it is in the inbox, or it is `Timely`, that is the passes since
it was due are fewer than the peers of its bucket that were ahead of it and have gone.
A pass either asks it or removes one that is ahead (`Ahead`, `Since`).

`ZreMsgProofs` proves every property of the codec that a run checks, for any base of
at least 16, any texts, lists, hashes, content and routing ids, any multiparts of
strangers and any budget. Assumptions: `RadixAssumption`, `InputAssumption`,
`BudgetAssumption` and `EntryAssumption` (the states of an entry that no message is
stored in differ from those it is stored in and from each other, and neither NULL nor
an abort is a message).

* `TypeCorrect`: Spec => []TypeOK.
* `FramesFit`: Spec => []FrameIsFilled.
* `ControlsArrive`: Spec => []ControlArrives.
* `MessagesReturn`: Spec => []RoundTrip, for lists of any length.
* `NothingIsSwallowed`: Spec => []NothingSwallowed.
* `StoringKeeps`: Spec => []StoredAsItWas.
* `LoadingSpoilt`: Spec => []SpoiltTree.
* `FrameFilled` and `ControlRoundTrip`, about the operators alone: what is summed up for
  a frame without lists is what is put into it, and what is read from it is what was
  put, whatever was in the object that receives it.

They share one invariant, `Sound`. It says of the objects that no two headers have one
name (`Object`), and of the wire (`Wired`) that its last multipart is closed, that a
message begins only where the frame before it ends a multipart, and that wherever one
begins, the frames from there on are those that zre_msg_send put. TypeOK alone says
nothing of the kind, and what zre_msg_recv leaves of a malformed multipart is in the
way of the next call: `DropWired` shows that what is left is a wire again and
`EndOfMultipart` that the content is taken up to its last frame and no further.
NothingSwallowed then counts beginnings of messages (`Balanced`): a call takes one at
most, and it takes it from the front.

An octet, a number and a text have a lemma each for how they are put and how they
are read, in terms of a cursor in a frame known up to its beginning and rest. The
rounds of the loops over groups and headers are functions recursive over the number
of items; the facts about them are shown by induction on the place in the list, which
uses that < is well founded on Nat (`LeastElement`, `Climb`): how long the list's octets
are (`LengthsAdd`), and that the k-th round reads the item that the k-th round put and
leaves the octets behind it (`Tails`, `GroupsKept`, `HeadersKept`). A header is kept only
because its name has not been there, which is why `Object` is needed. What arrives is
then compared field by field with what was sent and with what was in the object
(`Differs`, `Filled`).

Storing and loading need `Object` too: headers whose names have no '/' go into different
entries of their section, each behind the ones before it, so that the section is the
list of headers (`FlatSection`); and a header with a name of its own is kept whatever the
others' names nest (`FlatHeader`), by induction over the headers put. The loading is taken
field by field. `Loaded` says of what there is after some of the fields that each of
them is as `Expected`, the spoilt one as `Instead` says, and the rest as in a new
object, or that the spoilt one has ended the loading, and as what; `On` adds the section
it is read from. Each field takes one such state to the next (`FieldsLoad`,
`StepLoaded`), each type is a sequence of fields, and StoringKeeps is the case that
no entry is spoilt. `EntriesDiffer` tells the spoilt entries from the stored ones.

The precondition of RoundTrip, `LengthsFit`, is what the format can say: a name of a
header has one octet of length, and counts and long texts four.

`ZyreClientsProofs` proves, for any number of processes, any choice of a program for
each of them (the self tests alone on nodes 1 and 2, `Alone`, and `perf_local` with
`perf_remote` only, `Apart`), and any number of messages, rounds, iterations, lines,
moves and actors (`Bounds`):

* `ClientTypes`: Spec => []TypeOK.
* `Greeters`: Spec => []GreetersAreMembers.
* `Measurements`: Spec => []NothingMiscounted.

The service is a dozen functions on one node, and what they mean to another node is
little: what it is sent (`MouthKept`, `Greets`, `Cuts`) and what it has heard (`EarKept`,
`Takes`). Each function has a lemma in these words. The invariant `Inv` says of the
`Channel` from a process that whispers as a member (`Speaker`) to any other: a HELLO is
first or nowhere, there is no LEAVE, and whatever is said has a HELLO or JOIN with GLOBAL
in front of it or finds the speaker known as a member (`Granted`); if something was heard
of it, a HELLO on its way brings GLOBAL again. Of those that do not whisper it says that
no WHISPER of theirs is anywhere (`Silence`), and of a speaker's program that it
whispers only behind its `zyre_join` (`Stage`). The actors of a tester whisper whether
they are members or not, hence the exception. A step of one node keeps this if it is
`Fair` (`OneNode`); taking a message changes two (`Delivered`). That a script ends with
its last line, and that a line to be read at will is never the last, is by
concatenation (`ScriptFacts`).

Measurements adds to `Inv`, for a `perf_local` that has not ended, what it and its remotes
can have said to each other (`Company`: nobody leaves and nobody goes) and what it
counts (`Tally`):

* `Greetings`: each remote owes one greeting at most, none before it has heard of
  `perf_local`, and a remote whose greeting was counted is in GLOBAL for `perf_local`.
  That is why the SHOUTs reach all remotes: `hello` is the number of remotes that are
  welcome, and once it is complete, all are. It needs the invariant of Greeters.
* `Counted`: the peers counted are ready remotes, as many as there are remotes.
* `Books`: what was counted and the `Load` of all remotes are what was sent; between
  the measurements there is no load of the other kind, which is why zeroing both
  counters loses nothing.

What is under way is spread over the mailboxes and queues of all nodes. It is summed as the
cardinality of a set of pairs, of a remote and of a number up to what it holds (`Pairs`,
`Total`), so that sums over any number of remotes follow from theorems about finite
sets: one remote with one less is one less in all (`TotalMore`), one more for
every remote is their number more (`TotalAll`). An answer leaves `Load` as it is
(`RemoteMoves`), and so does whatever moves a message on (`StillTally`); only `perf_local`
adds to it (`WhisperTally`, `ShoutTally`) or takes from it, by counting (`RecvTally`).

Only model-checked: `AssertsHold`, and liveness, which the prover cannot do. AssertsHold
is about four fixed scripts on two nodes: the run covers all their interleavings, and
a proof for more processes would say the same, as the others have no program.

## 6. Not modelled

* CURVE: keys, certificates, the refusal of HELLOs and beacons without a key.
* The choice of an interface and an address; names and values of headers are opaque,
  but for the '/' in a name in ZreMsg.
* The UNPUBLISH of a removed peer's gossip tuple, which is draft API.
* Malformed messages in ZyreNode: no node sends them, and the codec's answer to them is
  ZreMsg's. `zyre_node_recv_peer` drops only those for which zre_msg_recv returns -1 or
  -2; a frame that ends too early gives 0 and is handled as a message, with the fields
  that could be read. Foreign beacons.
* Beacons that arrive late only reach nodes that were listening when they were
  sent; a node that starts later has a new socket.
* Elections over unreliable links, and several groups with elections.
* Printing and logging: `zyre_dump`, `zre_msg_print`, `zyre_event_print`.
* The tests of `zyre_node.c`, `zyre_peer.c`, `zyre_group.c` and `zyre_election.c`:
  calls of single functions on objects without a network.
* Bindings and API models: generated wrappers, one per call, without a state.
  Builds and packaging do nothing at run time.

## 7. State of the plan

Done: every component with a state of its own, its runs and hazards. Proved: every
safety property of ZyreNode, the refinement of ZyrePresence among them, of ZyreActor and
of ZreMsg, `OnlyContendersLead` of ZyreElection, and all of ZyreClients but
`AssertsHold`. `Consent` and `CountsWithinGroup` are false of the code; what is proved
of them is conditional (section 5).

Left, in this order:

1. What is left of Consent when members leave: which departures let an election end.
2. CURVE, once the handling of keys in `zyre_node.c` is stable: today it is draft.
