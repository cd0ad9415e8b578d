# A TLA+ development for netchan

This directory holds TLA+ models of netchan and of the libraries and programs
around it, the configurations that check them with TLC, and proofs of the main
invariants of the core that TLAPS checks. Every definition of a model is a
translation of code in this repository; `map` in `PROJECT.json` gives the lines.

## The system

netchan is a sans-I/O transport library: a connection object is fed datagrams
(`netchan_feed`), asked for datagrams to send (`netchan_send_next`), told the
time (`netchan_service`) and polled for events (`netchan_poll`). Nothing in it
runs concurrently inside one process. What makes it hard is the other end: two
objects driven by two independent loops, over a network that loses, duplicates,
delays and reorders, with fixed-size buffers everywhere. nc_crypto wraps its
datagrams, nc_auth runs on one of its channels, and the auth example stacks all
of them on an event loop and a directory of text files. microchan is a smaller
protocol of its own.

| Component | State | Operations | Interaction | What makes it correct |
|---|---|---|---|---|
| channel data path (`src/netchan.c`) | outgoing ring, sequence numbers, window, receive queue, reorder buffer, reassembly slots, buffer pool, event ring | write, send DATA, retransmit, receive DATA, ACK, WINDOW_UPDATE, read | DATA, ACK and WINDOW_UPDATE frames; pool and event ring shared by all channels of a connection | order, at most once, nothing forgotten before it arrived, no lost buffer, no wait without end |
| connection (`src/netchan.c`) | state, two ids, retry count, time stamps, control buffer, events | connect, accept, disconnect, close, feed, send, service, poll | CONNECT_INIT, CONNECT_ACCEPT, DISCONNECT, PING, PONG frames | the two ends agree; a session ends once; vanished peers are noticed |
| channel open and close, migration (`src/netchan.c`) | channel table and pool, channel state, next id, peer address | chan_open, chan_close, CHANNEL_OPEN, CHANNEL_CLOSE, feed from a new address | opens the data path; credit comes with WINDOW_UPDATE | both ends agree on the channels; traffic follows the peer |
| microchan | one Go-Back-N window for all channels, receive queues, handshake and timers | connect, write, read, feed, send, service | its own packets | every reliable channel is a FIFO |
| nc_crypto | handshake state, nonce counters, replay window | handshake, seal, open | a decorator around datagrams | no datagram opened twice, both ends use the same keys, the peer is the one asked for |
| nc_auth, nc_auth_ia | conversation state, methods left, tries, forms, token | feed, supply, submit, cancel, resume, verdict | messages on a reliable channel; callbacks into the application | one verdict, the same at both ends; every method that was begun ends |
| keystore | passwd, authorized_keys, known_hosts, host key and identity files | look up, append, create | called by the auth programs | what was promised is found again |
| auth example | stages of the link, prompts, the server's callbacks | datagram, tick, key typed, need, verdict, signal | composes the five above | layers start in an order that loses nothing; a login ends |
| iox event loop | descriptor table, timer heap, signal table and pipe | add, change and remove, poll, dispatch | calls the programs, which call it back | a round calls what is due and still wanted; timers ring in order |
| discovery beacon, transports, IDL, other examples, monocypher | - | codecs, wrappers, vendored code | - | outside this development |

Hard behaviours, in the order of the danger they pose: cumulative ACKs that are
stale or duplicated; sequence numbers that wrap; fragments of several messages
interleaved; one pool shared by four kinds of slots; frames that are sent once
and never repeated (CONNECT_ACCEPT, PING, CHANNEL_OPEN, the first
WINDOW_UPDATE); a cancel that crosses the verdict it cancels; objects that start
again while the datagrams of their past are under way; callbacks that change the
table they are called from; events and control frames dropped when their buffer
is full; results of helper calls that nobody looks at. `hazards` in
`PROJECT.json` lists them with their lines and the properties aimed at each.

## Modules

`NcChannel` - the data path of one open channel. `tx` is the `netchan_chan` of
the end with role 0 together with the pool and event ring of its connection,
`rx` that of role 1. `dnet` and `fnet` are the packets ever sent in the two
directions: nothing leaves them, so loss is a packet never received again,
duplication a packet received twice, reordering any choice. `MaxAge` bounds how
many writes a packet may outlive: 16-bit sequence numbers are only safe under
such a bound (the code relies on it without saying so), and it is what makes
the wrap run meaningful. A message is the index of its write, its length is
counted in fragments; `written`, `log` and `passed` are history. One action per
call: `Write`, `SendData`, `Service`, `RecvFeedback`, `PollSender` at the sender,
`RecvData`, `SendFeedback`, `Read`, `PollReceiver` at the receiver.
`Service(expired)` takes any non-empty set of expired timers, so no assumption
about the backoff is made. `frag_total` is a byte, and `FragAssumption` says that no
message has as many fragments: the cast at `netchan.c:1619` then loses nothing. `netchan_send_next` puts a feedback frame and a DATA
fragment in one datagram when both are pending; the two directions of one
channel never are, so the model splits it by role.

`NcConn` - a client and a server connection object. Time stamps are ages in
ticks, saturated where their timer expires. `netchan_feed` puts a datagram's
frames in `inbox`, and one action per frame handler empties it; no other call
of that end is enabled meanwhile (`Ready`), as in the code. One action per call
and per timer of `netchan_service`. `Timely = TRUE` is a world in which a tick
passes only when every driver has sent, fed and serviced all it can: it is used
for the claims about timers (`NoFalseTimeout`, `NoHalfOpen`) that make no sense if a
driver may sleep past a timeout. `Timely = FALSE` allows any delay.

`NcLifecycle` - the channel tables of two connected ends: `netchan_chan_open`,
`netchan_chan_close`, the frames that answer them, the pool of channel objects
and the control buffer. A datagram holds the control frames, the ACKs due and
then data of any of the channels that may send, in the order of `netchan_send_next`;
data is reduced to its channel. Channels are reliable, which need credit and are
acknowledged, or unreliable, which do without both.
The client's address may change, and `validate_migration` decides on the first
frame of what comes from the new one.

`Microchan` - both ends of a microchan connection: the handshake, one Go-Back-N
window for all reliable channels, the receive queues and every timer of
`mc_service`, which may run out whenever it is armed. `Fifo` is what it
promises; `KeepsPromise` is the refinement, with the lanes being the reliable
channels of each direction, `sent` what `mc_write` took and `got` what `mc_read`
returned. `log` is history, the reliable records of an end over all its channels;
its length is what the age of a datagram is measured in. `LifetimeAssumption` says
that no datagram outlives about half of the sequence numbers: the comparison of
`seq_after` takes an older ACK for a new one, and the code relies on the network
for it.

`NcCrypto` - an initiator and a responder object, either of which may be
initialised again. A key is the transcript it is derived from, so two ends have
the same key exactly when they saw the same HELLOs, identity and pre-shared key.
The window is a set of bit numbers, `CounterMax` stands for the last counter.
Only the responder has an identity and only the initiator verifies one, as in the
programs of this repository; `nc_crypto_init` would take both at either end.

`NcAuth` - the client and server machines of nc_auth.c and nc_auth_ia.c, one
action per call and per message. The applications answer as they like; `app` is
what the server's callbacks have been told, which is what `Accounted` is about.
`Callbacks` is which of the optional interactive callbacks the server's application
registered, any of `begin`, `submit` and `resume`; `cancelled`, by which the account
is kept, is taken as registered.
Forms and answers are abstract: whether they can be encoded (`UNFIT`) and decoded
is a choice. `err` records why a machine refused a message.

`Keystore` - the files of keystore.c as operators. A file is a sequence of lines
as their readers take them apart, and a line may be cut anywhere by a full disk
(`Cuts`), after which the next append runs into it. A name is written as it is and
read back as the first word of its line (`FirstWord`), and a line that begins with
`#` is a comment: a name of several words (`Split`) or with a leading `#` does not
come back, and one that does is `Plain`. Names have no line breaks, and a name cut
short is taken for nobody's.

`AuthLink` - the auth example: it extends `NcAuth` and `Keystore`, and has the
link of `auth_link.c` at both ends, the prompts of `auth_client.c`, the callbacks
of `auth_server.c` with `--adduser`, and the files. A callback of the event loop
is a few steps (`phase`) in which its end does nothing else. `srv_submit` is two of
them: it asks whether the name is taken, and appends the line once the password has
been stretched (`phase = "enrol"`), or fails to; `--adduser` may append in between.
`hist` keeps which entries a full disk has spoilt (`harmed`) and which names
`--adduser` wrote during their registration (`raced`). What lies below is
what the modules above show of it: nc_crypto is ready or not, netchan sends its
frames once and, once a channel is known at both ends, delivers its messages in
order. `chan_send` of `auth_link.c` gives up after 64 tries; a login has a handful of
messages under way, far below the window, and the model's channel always has room.
The need and verdict callbacks run where `settle_need` and `settle_auth`
run them, after every step of the login. `DemoAssumption` ties the two programs to
the sets that `NcAuth` is parameterised with: the methods that `srv_methods` offers
and the masks that the command line asks for are among them, the server puts up the
form of a registration, and `Undecodable`, which stands for text that is no hex, is
no password and no key.

`Iox` - the event loop. `loop.at` is the place in `iox_loop_run`; `poll` returns any
`revents`, POLLHUP and POLLNVAL included, which count as ready whether or not they
amount to an event; the pipe of the signals takes `PipeCap` bytes. The
application acts in callbacks, and there in any way, and before the loop runs, when
it arms its first timers one by one (`SetUp`). `compact` is a turn of its loop at a
time. The two loops of pq.h that move an entry through the heap are one definition
each: the hole passes the places above (`SiftUp`) or below (`SiftDown`) as far as the
loop's condition holds at each of them, and what it passed moves by one. `Alarm` is
what the timers promise: each rings once, never before its deadline, and none rings
while an earlier one is due; `KeepsTime` is the refinement, from the heap of pq.h.

`NcChannelProofs`, `NcConnProofs`, `NcLifecycleProofs`, `NcCryptoProofs`,
`MicrochanProofs`, `IoxProofs`, `NcAuthProofs` (which goes on to `AuthLink`, on the
invariant of the login) - the theorems and their proofs. `NumberLemmas` - the arithmetic they share: remainders and serial numbers,
and the least natural number with a property. `MC*` - the modules TLC is run on.

Operators whose comment starts with "Mutant of" are faulty variants of the
definition that follows: replacing the definition by one must make TLC report
the property they are listed with in `PROJECT.json`. They are not part of the
model.

## Runs

All runs say `CHECK_DEADLOCK FALSE`: calls are the application's choice and the
bounds on them are reached, so the system may stop.

| Run | Shows |
|---|---|
| `NcChannel_reorder` | Two messages of one or two fragments, one reassembly slot, pool of 3, short reads. Byte count, reorder buffer and reassembly stay consistent and no buffer is lost. Under fairness of sending and servicing, every message is released or the channel dies. The same with `ChanType = "UNRELIABLE"`. |
| `NcChannel_wrap` | Ten messages with eight sequence numbers, three outstanding, packets up to three writes late and in any order, so that the reorder buffer fills. Order, at-most-once, and no message released before the receiver passed it, hold across the wrap. |
| `NcConn_async` | Arbitrary delays, loss, one duplicate, two retries. Acceptance precedes connection; the server's session ends once. Under fairness of timers, attempts end and vanished peers are noticed. |
| `NcConn_timely` | Drivers never late, nothing lost: no false timeout, with the PINGs of both ends crossing. |
| `NcLifecycle_open` | Each end opens a channel, reliable or not, in a pool of one; one fault, one move. Pool exact, ends agree on type and roles, a sender has a receiver; without faults both decide alike; the server follows a client that writes. |
| `Microchan_gbn` | Window of 2 in 6 sequence numbers, started just before the wrap; two records in a datagram, queue of 1, one rare event. FIFO refinement, sound window, no message held for ever. |
| `NcCrypto_session` | Three objects at two ends, window of 2 bits, four counters. No datagram opens twice, the window is exact, what opens belongs to the session. |
| `NcAuth_login` | Two tries, two interactive methods begun, two forms, with and without the interactive callbacks. Agreement, every begun method accounted for, guesses bounded, registrations real; a verdict is reached and the client hears of it. |
| `AuthLink_demo` | Two sessions over the same files, one fault of any kind, two host keys, every command line and identity file. Nothing dropped between the layers, a session that is up is real, every login ends. |
| `AuthLink_accounts` | Two sessions over one passwd file with the names "ann" and "ann lee", `--adduser` appending at any moment of a registration, one full disk, crash or failed write. Promised accounts of one word work, and passwords that work go on working. |
| `Iox_loop` | Two descriptors, two signals over a pipe of two bytes read one at a time, seven timers in a heap, two calls in callbacks. Rounds are faithful, only what is watched is called, timers keep their promise, everything is served. |
| `NcChannel_ack_zero` | Expected violation: before message 0 has come, any DATA frame is answered by an ACK of 0, and message 0 is released unreceived (`netchan.c:941`). `findings` quotes what the repository says. |

Other disagreements between the code and what the repository says of it, which another
property or constant of these configurations shows:

- `PassedDelivered` as an invariant of `NcChannel_reorder.cfg` with
  `RecvSlots = 2`: a reliable message that finds the queue full is dropped and
  acknowledged (`netchan.c:871`).
- `ChanType = "STREAM"` in the same file violates `Settles`: STREAM messages are
  never retransmitted (`netchan.c:1486`; README.md:191 calls it "a reliable byte
  stream").
- `ClientMovesOn` as a property of `NcConn_async.cfg`: a late CONNECT_ACCEPT
  revives a closed or closing client (`netchan.c:656`; states.dot has no such edge).
- `MaxLoss = 1` in `NcConn_timely.cfg` violates `NoFalseTimeout`, since one lost PING
  or PONG ends the keepalive (`netchan.c:1472`), and `NoHalfOpen`, since a lost
  CONNECT_ACCEPT is not repeated and the client gives up on a server that is connected
  to it (`netchan.c:635`).
- `NothingToCancel` as an invariant of `NcAuth_login.cfg`: a token for a server without
  a resume callback fires `cancelled` though nothing was running (`nc_auth_ia.c:1099`;
  nc_auth.h:301 says "not at all if nothing was running").
- `EnrolledWorks` as an invariant of `AuthLink_accounts.cfg`: an account of two words is
  promised and never works (`keystore.c:373`; auth_server.c:151 has the client
  authenticate "with the credential it just enrolled").
- `FullPipePending` as a property of `Iox_loop.cfg`: a pipe full of one signal loses
  another (`iox_signal.c:34`; the comment above it says "signal is already pending").

Others were met while modelling, and the properties are stated around them:

- netchan: a message acknowledged but not yet read no longer counts against the
  sender's window. A NETCHAN_EV_DATA dropped by a full event ring leaves a message
  that a loop with one read for each event does not pick up. An abandoned
  reassembly of an unreliable channel is completed by another message once the
  sequence number has come round. A CHANNEL_CLOSE that overtakes its OPEN leaves
  the peer's channel open for ever (`Converges` assumes no fault), a repeated OPEN
  closes a channel that works, and a client that moves before it has a channel is
  never followed (`Follows` asks for one).
- nc_auth: a cancel that crosses the server's verdict is refused, and the server
  ends as DENIED without a word to the client (`server.err = "CANCEL"`, which
  `Orderly` and `Informed` except); nc_auth.h calls cancelling harmless.
  `cancelled` fires once for each method begun, where the header says at most once
  per conversation, and once more for a token that a server without `resume` refuses
  (`untaken`, which `Accounted` counts). A method whose next form cannot be encoded
  ends without the application hearing of it (`UNTOLD`, which `Accounted` excepts).
- microchan: a reliable message for a channel that is not open is consumed and
  acknowledged. Nothing sends PKT_FIN. A closed client that gets a late SYNACK
  answers it, which leaves the server connected until its idle timeout.
- nc_crypto: a HELLO of an earlier session that reaches a new responder first
  fixes it to keys that nobody has; only a restart helps. That is lack of progress,
  and no property here promises progress.
- auth example: a client whose server never answers says HELLO for ever, and a
  lost CHANNEL_OPEN leaves the login hanging (`LoginEnds` excepts both). No write of
  the keystore looks at fclose, so a promised account may be missing after a full
  disk, and the next line runs into the one that was cut (`hist.harmed`); --adduser
  and a registration of the same name may both be told that they succeeded, and the
  first line wins (`hist.raced`); a name with a blank or a leading `#` is registered
  and does not come back (`Plain`). `PromisesKept` names all three.
- iox: a handler may be called with events that `iox_fd_mod` took away earlier in
  the round; a signal that finds the pipe full is lost (`Served` asks that the pipe
  took it); signal slots are never used again; `iox_loop_stop` before
  `iox_loop_run` is forgotten.

Bounds. The constants of the code (64 slots, 5 attempts, 2^16 sequence numbers,
64 window bits) are scaled down so that each limit is reached within a few steps:
a ring is full, a pool empty, an event dropped, a window closed, the last attempt
spent, in the same behaviours as reordering and duplication. Ratios that matter
are kept and stated as assumptions: the reorder buffer divides the sequence space
and is at most half of it (`ReorderAssumption`), MC_WINDOW divides 2^16
(`MicroAssumption`), and `Microchan_gbn` lets a datagram outlive as many writes as
`LifetimeAssumption` allows. `EvSlots = 1` makes a ring of no capacity: it stands for a
ring that is always full, and keeps the liveness run small; `NcChannel_wrap` has room
for one event. `NcConn_async` has no PINGs (`Opaques = {}`);
`NcConn_timely` has. `NcChannel_wrap` has three messages outstanding in a reorder
buffer of four, so that what comes early is held, released in order or refused on
either side of the wrap, and one attempt: packets stay on the network, so a second
transmission would be the same packet again. `Microchan_gbn` begins one number before
its wrap. Rare events (`MaxRare`, `MaxFaults`) are counted together, so that each kind happens in some behaviour at any point;
the protocols without history longer than a window do not gain from a second one.
`AuthLink_demo` has two sessions because the files carry over exactly once, and
host keys that can change between them; `AuthLink_accounts` has two names of which
one begins with the other as a word, two passwords, one host key and no application
data, and leaves the order of its steps unconstrained by fairness. The pipe of `Iox_loop`
takes two bytes, which is the least that holds both signals or is full of one. Its
seven timers are the smallest heap in which the entry that replaces a removed one belongs above it.

Fairness. `NcChannel`: the driver keeps calling `netchan_send_next` and
`netchan_service`, as the loop of the top-level README does, and time passes.
`NcConn`: time passes, due timers are serviced, and a datagram that was fed is
parsed to its end. `Microchan`: what is due is sent and armed timers are serviced.
Nothing is assumed of the network or the application in these three.
`NcLifecycle`: the oldest datagram is received (losses are faults, and `Converges`
has none), control frames are sent, and a writer that may send again and again
does (strong fairness: an ACK may be all that a particular call finds to send).
`NcAuth` runs on a session that delivers, with a player who answers and an
application that resumes what it parked. `AuthLink`: some step of the two loops
or the player happens while one is enabled, the client's socket is read in the end
(strong, because the server's callbacks may come between) and netchan delivers
what it retransmits; that is less than two independent loops guarantee. `Iox`: one
thread whose callbacks return, and time passes.

## Proofs

All theorems hold for every value of the constants that satisfies the ASSUMEs of
the module, the real sizes included. Every inductive invariant below was checked
with TLC before it was proved.

`NcChannelProofs`: `TypeCorrect` (`Spec => []TypeOK`) and `PoolSafe`
(`Spec => []PoolConserved`). `PoolConserved` alone is not inductive: an ACK gives
back one buffer per active entry, so the proof needs to know that a free slot at
`out_tail` is really inactive, that is, that active entries lie in the ring
segment (`TxGood`); at the receiver it needs that the run taken out of the reorder
buffer occupies as many slots as it has messages (`RxGood` and the lemmas on
`RunSlots`). The inductive invariant is `Good == TypeOK /\ TxGood(tx) /\ RxGood(rx)`.

`NcChannelProofs`, second half: what the data path delivers, in four layers.

- `FlightCountedHolds` and `ReorderWindowHolds`, from `Counted`. The count of bytes
  in flight is kept modulo `FlightMod` (2^32); `Window < FlightMod` is what keeps it
  exact, and the window field of the code is itself 32 bits wide. The reorder buffer
  needs that a stored number is ahead of `recv_seq` by less than the buffer *before*
  the run at its head is taken out, and that the run takes out every message up to
  the first gap.
- `Written` ties every entry and every packet, past ones included, to the write its
  number stands for. From it `IntegrityHolds`, under `Fresh`: either messages are not
  fragmented or the numbers have not all been used. Without `Fresh` it is false in
  the code: a late duplicate of a fragment leaves a reassembly slot that nothing
  frees (`netchan.c:892`), and a message 2^16 writes later is completed with it.
- `KeptUntilPassedHolds`, under `Horizon`: no packet outlives half of the sequence
  numbers, and the ring takes at most half of them (64 of 65536). `InStep` says that
  `recv_seq` is the count of passed messages, that write `m` waits in slot
  `m % OutSlots`, that what is held lies below what was written, and that every ACK
  ever sent names the count its sender had then. The last is where the exception of
  number 0 comes from: an ACK of 0 says both "nothing" and "number 0".
- `OrderedOnceHolds`, under `Horizon` and `Fresh`: the log is increasing and below
  the count of passed messages, and what is held will come in its place
  (`InOrder`). `NcChannel_wrap` is an instance of both hypotheses that wraps, and so
  is the code with messages of one fragment.

`NcConnProofs`: `ConnTypeCorrect`, `AcceptedFirstHolds`, `ServerGoneOnceHolds` and
the action property `ServerMovesOnHolds`. The inductive invariant is
`Inv == TypeOK /\ ServerOK /\ ClientOK /\ NetOK`. `AcceptedFirst` speaks of the
client only; it is inductive once it is known that every CONNECT_ACCEPT frame,
in the server's control buffer, on the network or in the client's inbox, carries
the server's id and exists only after `netchan_accept` (`NetOK`, `ServerOK`).
`ServerMovesOn` is the half of states.dot that holds: `ClientMovesOn` does not.

`NcLifecycleProofs`: `SlotsExactHolds`, `MatchedHolds`, `AcceptedByPeerHolds`, for
every pool, identifier space, network and number of faults. The last two speak of
the tables; what makes them inductive is that each frame, in a control buffer or
under way, tells the truth about its sender for ever (`FrameOf`): an OPEN is of a
channel that its sender holds with that type and direction, credit is of one that
it receives on. That is stable because nothing frees a channel (`Grows`). A datagram
is a sequence of frames, so one step is an induction over it (`CountedUp` of
`NumberLemmas`).

`NcCryptoProofs`: `WindowExactHolds`, `SessionsBoundHolds` and the action property
`OpenedOnceHolds`, for every width of the window and every number of restarts. The
inductive invariant adds to each object that its transcript names its own ephemeral
key (`ObjectOK`), that every datagram under a key of its end was sealed by an earlier
object or has a counter it has used (`SealedBy`), and that what was opened at its end
was opened by an earlier object or in its session (`OpenedBy`). That no earlier object had the same key rests on ephemeral keys being
fresh, which `NcCrypto` assumes of the entropy source.

`NcAuthProofs`: `AgreementHolds`, `AccountedHolds`, `GuessesBoundedHolds`,
`RegisteredIsRealHolds`, for every number of tries, methods and forms. The first
needs the whole shape of the conversation: whose turn it is (`Turns`), what may be
under way in each direction (`Heard`, `Greeting`), and which server will not speak
again because a cancel for an ended method awaits it (`Doomed`). A cancel may cross
every message of the server, and each such crossing is a case of `Turns`.
`AccountedHolds` is for every set of callbacks: the calls of `cancelled` out of the
blue are exactly the tokens that nobody took, and a server with no method under way
has an application with none.

`NcAuthProofs`, the example: `NothingDroppedHolds`, `UpTogetherHolds`,
`PromisesKeptHolds` and the action property `PasswordsKeptHolds`, for every set of
users, keys and passwords and every number of sessions and faults. None of the four
is inductive: a message is not dropped because the handshake of the layers below was
in order when the channel opened, and a client is up because of an exchange that is
over. The invariant `LinkInv` has a part for each layer.

- `Conversation`: until the client has its verdict the two machines and the messages
  satisfy the invariant of `NcAuth` above, and every step of the link is one of its
  steps or leaves it alone; afterwards only application data is under way.
- `Shaken`, `ServerUp`: what each stage of a link says of the other end. Nothing can
  reach the server's channel before its login has begun, because it begins in the
  call that accepts the connection; a server that has said OK is up or has stopped.
- `Asking`, `Filling`: the terminal asks what the login needs, and a form that is
  sent is complete.
- `Files`, `Credentials`, `Trusted`: until a disk is full every line is whole, and a
  new line only ever comes behind the lines that count (`CheckPassword` takes the
  first word of a line and the first line of a name). A line that was cut spoils the
  entry it was to hold and the next one, and those are `harmed`. What was promised or
  used is otherwise found again.
- `Enrolled`, on top of `LinkInv`: the two ends take turns, and while a password is
  stretched the server is up, its login has begun, and a one-word name that was free
  is free still or `raced`. That is what lets the line appended later count although
  the question was asked earlier. The theorems follow from both.

`MicrochanProofs`: `WindowSoundHolds` and `KeepsPromiseHolds`, that `Spec` implements
`Fifo`. The state has 16-bit numbers only, so the invariant `Inv` says that there are
counts behind them: how many records each end has released (`B`), has sent (`U`) and
its peer has passed (`R`), with `B <= R` and all within one window of the log. A
datagram carries records among the last `Window` that were written when it was sent,
and an ACK of a count that its receiver had not exceeded by more than a window
(`PacketOK`); under `LifetimeAssumption` the number of such a record or ACK means what
it meant then, or is refused. That is what makes the ACK of another turn of the
numbers harmless. On each channel what was read and what is queued are then the first
messages written, which gives the refinement: a reliable `mc_write` is a `Put` of
`Fifo`, an `mc_read` of such a channel its `Get`, and every other step stutters.

`IoxProofs`: `RoundFaithfulHolds`, the action property `CallsWatchedHolds`, and
`KeepsTimeHolds`, that `Spec` implements `Alarm`, for every table, set of delays and number of calls. The invariant `Inv` has
two parts that do not need each other.

- `LoopInv`. What a round owes is not to be seen in `hist` alone: the entry that is
  due may have been removed, or the table may have grown behind it. So `InRound` ties
  the reports to the entries (each is what `EventsFromPoll` makes of the `revents` of
  one entry, and registrations differ), says of the entries before `i` that those
  still active have been called, and that `n` is the number of entries from `i` on
  with any `revents`, the unheard ones included; that makes it sound to leave the loop
  when `n` is 0. An entry that is called is active, and the active entries are what is
  watched (`Table`), which is `CallsWatched`. `Kept` says when an entry that waits to be removed may be in the
  table: while a round is under way, and behind the place that `compact` has reached.
- `Timing`: the heap is ordered, its identifiers differ, none has rung, and the time
  that `iox_timer_dispatch` goes by is not ahead of the clock. An ordered heap has its
  least deadline at the root (`RootFirst`), which is why a timer that rings has no
  earlier one pending. `SiftedUp` and `SiftedDown` show that a sift of a heap with a
  gap fills it and keeps the order; each goes by a permutation of the places, so that
  no entry is lost or doubled (`Rearranged`). Every step of `Iox` arms a timer, takes
  one out, lets time pass or leaves the heap alone (`ClockStep`), and each is a step of
  `Alarm`.

What stays with TLC: the liveness properties and the fairness they need;
`NoFalseTimeout`, which holds for the drivers, the lossless network and the timers of
`NcConn_timely`, not for every choice.

## Plan

1. `NcChannel`, `NcConn` and their proofs - done.
2. `NcLifecycle`, `Microchan` with `Fifo`, `NcCrypto`, `NcAuth`, `Keystore`,
   `AuthLink`, `Iox` with `Alarm` - done, model-checked.
3. Proofs of the invariants of `NcChannel`, `NcLifecycle`, `NcCrypto`, `NcAuth`,
   `Microchan`, `AuthLink` and `Iox`, of `ServerMovesOn` and of the refinements of
   `Fifo` and `Alarm` - done.
4. Candidates for further modules: the frame parser of nc_ws, the server table of
   the discovery demo, the other end of `CONNECT_REDIRECT`.

Out of reach of the prover and left to TLC throughout: liveness under fairness and
`ENABLED`. Induction over data is done by hand where it is needed: the library's
induction theorems cannot be instantiated here, but a set of naturals without a
least element is empty (`LeastNatural`), and that proves what a recursive function
computes (`AncestorsDef` and `Lineage` of `IoxProofs`, for the places above a place
of the heap).

## Not modelled

Byte layouts: the control buffer counts frames, forms and answers are abstract,
and the first 730 lines of nc_auth_ia.c, which encode them, are left out with the
discovery beacon and the IDL, as codecs without protocol state. Statistics, the
exponential backoff's actual times, 32-bit wrap of millisecond clocks.
CONNECT_REDIRECT, which only reaches the application as an event. microchan's
event queue and the reopening of a closed channel. Ciphers, hashes and entropy,
which nc_crypto and the keystore call as functions. The transports and monocypher.
`components` in `PROJECT.json` gives the reason for each.
