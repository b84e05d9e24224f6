# Verification of SphincsplusSM3

TLA+ models, TLC runs and TLAPS proofs for the threshold variant of
SPHINCS+-SM3 in this repository: `TSS/src` (the threaded build), and
`TSS/network` (the networked build and its web front end). `ref/` holds the
single-signer scheme the threshold variant was derived from; the parts that the
two share are modelled once, with the single signer as a session of its own kind.

## 1. Inventory

Participants are a trusted third party (TTP, number 0) and players 1..n. In
the threaded build every participant is a thread and n = SPX_D, the number of
layers of the SPHINCS+ hypertree; in the networked build it is a process.

| Component | Source | State it keeps | Operations |
|---|---|---|---|
| Message queue | `TSS/src/thread/ThreadSafeQueue.c` | head, tail, the nodes' next fields, a mutex, a condition variable | Push, Pop (Destroy and Empty have no caller) |
| Messages | `TSS/src/thread/communication.c` | none of its own: one queue per participant | pack, send to one, broadcast (to the players but the sender, never to the TTP), receive |
| Key generation, threaded | `round.c` 20-83, `logic.c` 4-29 | share, random list, blinded shard, public key, barrier | exchange shares, barrier, agree on pairwise random values, blind, collect, publish the key |
| Signing, threaded | `round.c` 86-249, `logic.c` 31-57 | signed message so far, root, loop counter, addresses, barrier | presign (Lagrange share, R, FORS seed), sign a layer, pass root and shard on |
| Verification | `round.c` 252-264, `TSS_sign.c` 230-312 | none | rewind the signed message, verify what was assembled |
| Secret sharing | `TSS/src/crypto/SSS.c` | polynomial, share, secret | evaluate, aggregate, Lagrange factor, recover |
| Signature primitives | `TSS/src/signature`, `TSS/src/utils` | addresses, stack of a tree hash | WOTS chains, checksum, Merkle trees, FORS, addresses |
| Hashing | `TSS/src/hash` (but for the type of a counter the same in `ref/src/hash`) | hash state with its count of bytes, the seeded state | absorb blocks, finalize with padding, MGF1, thash, the message's two hashes |
| Single signer | `ref/src/signature/sign.c` | none | sign, verify |
| Random bytes | `randombytes.c`, `rng.c` | a file descriptor; the expander's counter | read, expand, DRBG |
| Thread pool | `TSS/network/threadpool` | task list, counter, idle, quit, mutex and condition variable | init, add task, thread routine with a two-second timed wait, destroy |
| Connections | `TSS/network/connection` | listening socket, pool | listen for a number of connections, connect with retries |
| Networked rounds | `TSS/network/handler`, `TSS/network/round` | the round context shared by the handlers of one participant, barrier | the same protocols over one TCP connection per pair and phase |
| Web front end and programs | `TSS/network/Web`, `data`, `keygen`, `sign`, `verify` | global prime, threshold and barrier of a process; files of keys and signatures | key generation, signing and verification on request or from the command line |

How they interact. The threads share nothing but the queues, a barrier, and
read-only tables (`prime`, `threshold`). `main` creates the key generation
threads, joins them, re-initialises the barrier for the signers, selects the
signers, creates the signing threads, joins them and lets the first signer
verify. In the networked build each participant runs a listener whose pool runs
one handler for each connection; handlers share their participant's context,
and the TTP's handlers meet at a barrier with a thread that computes the
result.

Where it is hard.

* Messages have no type. A receiver knows what a message is only from its
  position in the queue, so the correctness of both rounds is a matter of
  orders: of sends, of receives, and of the barriers between them.
* Condition variables and their wait sets: lost wakeups in the queue; in the
  pool, threads that were woken or have timed out but are still counted idle.
* Counts: loops that skip the sender, rounds that skip a receive, a barrier
  entered from two places, connections that fail but are counted.
* Buffers whose length is that of a number: leading zero bytes are dropped.
* State shared by handlers, by requests, by phases of the networked build; files
  that one process writes while another reads them.

What makes each component correct. The queue: the list is intact whenever the
mutex is free, order is FIFO, no wakeup is lost, it implements a channel. Key
generation: shares are not mixed with anything else, the blinding cancels, all
players hold the same key, nothing is left over, everyone ends. Signing: all
sign with the same R and seed, each layer signs the root of the layer below at
its own address and only once, the signature is complete at every signer, what
the first one verifies is accepted, everyone ends. The pool: counters tell the
truth, tasks run once and in order, nothing runs after destruction, handlers
that need each other get threads. Primitives: what SM3 absorbs is what the
standards say for every length and parameter set; a signature verifies, opens
only what the digest selects, signs each layer once and covers nothing else; no
two hashes share an address. Front end: a request works with its own
parameters, a session that nobody disturbs leaves valid signatures in its
files, and every request is answered unless a participant cannot come.

`PROJECT.json` lists the components with what is left out of each, and the
hazards with the properties that stand against them.

## 2. Plan

In this order; all but the last proofs are done.

1. `ThreadSafeQueue` and `FifoChannel`: everything else relies on the queue.
2. `KeygenRound` over channels.
3. `SignRound` over channels, with verification, and `HypertreeChain`, what it
   implements.
4. `ThreadPool`.
5. `ShamirSharing`: evaluation, Lagrange factors and recovery over a small
   prime against the definition.
6. The primitives: `Address`, `Bits` and `TreeHash`, on which stand `Fors` and `Wots`,
   and `Hypertree` on `Wots`: who signs which layer where, for all divisions of
   SPX_D - 1 layers among t signers, and verification of what was assembled.
7. `Connections`, and on it `NetKeygen` and `NetSign`: handlers, streams that
   merge and split what is sent, the listener's backlog, the shared context,
   on what the pool promises.
8. `FrontEnd`: requests, workers, the globals they share, and the files, on
   top of the networked rounds.
9. `SM3` and `Session`, and `Signature`, which composes them with `Fors` and
   `Hypertree`: a signature from its message to its verification.
10. Proofs, done: `ThreadSafeQueueProofs`, `ThreadPoolProofs`, `KeygenRoundProofs`,
    `SignRoundProofs`, `NetKeygenProofs`, `NetSignProofs`, `FrontEndProofs`,
    `PrimitiveProofs`.

The rounds use a queue as a sequence with one atomic append and one atomic
take. That is justified by the run `queue` and the theorem
`QueueRefinesChannel`: the linked list implements `FifoChannel`.

## 3. Modules

**`FifoChannel`** is the abstract queue: the sequence of what was sent, and
how much of it was delivered. A message is delivered some time after it is sent.

**`ThreadSafeQueue`** is the queue itself. A pc per thread walks through Push
and Pop, one action per assignment or call: `PushLock`, `LinkNode` (lines
29-33), `SetTail`, `Signal`, `PushUnlock`; `PopLock`, `Wait`, `Relock`,
`ReadHead`, `Unlink`, `PopUnlock`. The wait set is the set of poppers asleep,
signalling wakes any one of them and wakeups may be spurious, as POSIX allows.
`sent` and `delivered` record the history. Several poppers per queue are
allowed, although the threaded build has one, since nothing in the code
depends on it. Memory is not reused: the code never frees a message.

**`KeygenRound`** has one pc per player, one action per message. Numbers are
formal sums over the values that the participants drew (who drew it, for
whom), so that an equation between numbers holds for every draw, and a message
that is summed up in the wrong place shows. The modular reduction does not
matter to sums. `shortSeed` is the case of a joint secret with a leading zero
byte, in which the TTP's key pair is made from bytes behind its buffer.

**`SignRound`** has one pc per signer and one action per message or push. A
signed message is the sequence of its parts; a signature is a record of who
made it, the address (the digest's R and the number of tree levels shifted
away) and what it signs. So a wrong address, a wrong root or a message taken
for another kind shows in the value. n = SPX_D and t = n - 1 as in `params.h`,
so every signer has one layer. Signers that are not selected only collect
broadcasts. When all threads have been joined, `Verify` is the first signer's
`vrfy_round_player`: it walks through the layers of what that signer holds, each
against the root of the one below, with the tree's index as shifted so far, and
compares the last root with the public key; `main` fails if that fails.
`HypertreeChain` is the abstract session: layer after layer, each
over the root of the one before.

**`ThreadPool`** has one action per critical section, since all its state is
under the mutex, plus the running of a task. The wait set holds idle threads
and the destroyer, who share one condition variable. A timed-out thread has
left the wait set but not the count of idle threads, as in the code. `meet`
tells the handlers that meet at a barrier (the TTP's) from those that do not.
An accept may fail. Assumed: `threadpool_init` finishes its unlocked counting
before the first thread's two seconds are over.

**`ShamirSharing`** runs the functions of `SSS.c` in the order of a key
generation and a signing session, with numbers modulo a small prime. The loop
of `evaluate_poly` is a recursive function with the loop's two variables;
`BN_mod_inverse` is the number whose product is one. Draws come from a small
set. Who sends what when is left to the round modules.

**`Address`** is the 32-byte hash address with its overlapping fields (byte 17
is chain or height; byte 21 is the low byte of the node's index and the
position in a chain); setters keep the names of `address.c`. **`Bits`** has shifts
and powers of two, as loops that halve and double. **`TreeHash`** has
`treehashx1` and `compute_root`. A hash value is the term of its address and
inputs: nothing collides, and two values are equal just if they were computed
alike. `treehashx1` is a recursive function of the number of leaves added, with the
stack, the path, and the address that it leaves behind.

**`SM3`** is all of hashing but the compression function: a digest is the term
of the bytes that were absorbed, padding and length included, so two digests are
equal just if the same bytes were absorbed in the same order. `sm3_inc_blocks`,
`sm3_inc_finalize`, `mgf1_SM3`, `seed_state`, both variants of `thash`,
`gen_message_random` and `hash_message` keep their names. The padding and HMAC
and MGF1 of the standards stand beside them at the module's end.

**`Session`** holds what a signature is about: the parameters, the message's
length, what the digest selects, the number of signers t, with t = 0 for the
single signer of `ref/`. **`Fors`** signs and verifies tree by tree. The
digest is its bits, any of them. The address array that the code reuses from
tree to tree is a variable. **`Wots`** has digits, checksum, chains,
`merkle_sign` and `wots_pk_from_sig`. **`Hypertree`** is a whole signing session
without its messages, and the verifier: each participant finds its position from
the digest by itself (`tss_gen_addr`, `tss_gen_ttp_addr`, the verifier's loop),
and signs or checks one layer per step; the single signer walks all layers.
Since hash values are terms, the bytes of a root, which are what the next layer
signs, are chosen when the root is first computed, and any other value has
other bytes. **`Signature`** composes these: the digest's bits go to FORS, the FORS
key is the first value that the hypertree signs, and the verifier takes the
same way with what it computes itself.

**`Connections`** is what the networked rounds see of TCP: a participant has a
listener or not, a listener has a backlog, and closing it resets the
connections that are still there. A connection is named by its client, the
phase the client makes it for and its server, but only the client knows the
phase: the server accepts whatever is first. Nothing is lost or reordered on
an accepted connection, but `recv` may return any non-empty beginning of what
is in the stream. Accepting and the exchange of ids are one step. A client is
bound to its listening port, so that a second connection to the same server
can be refused for a while after the first; that is one of the refusals.

**`NetKeygen`** has a pc for each main thread and one for each handler. A main
thread listens for the lower players, then connects to the higher ones and to
the TTP. As a number is known by who drew it for whom, the tables of a player
show whether both ends of a connection, whose code differs, end with the same
numbers. A shard is the player's secret with the numbers that it adds and those that
it subtracts. At most one number is zero, and a zero number is sent as no bytes.
Of a stream `recv_bignum` is assumed to take a number whole.

**`NetSign`** is a session with its four phases: shares to the TTP, the root
from signer to signer, the exchange of shards between each pair, the top
layer's shard from the TTP. Signers are numbered by their place in
`threshold[]`, their number t varies, and with t = 1 the root goes to
`threshold[1]` as it was left. A message's units are layers of the signature,
so a shard may be received in parts, at layer boundaries, and a buffer holds
`BUFFER_SIZE` layers. Handlers of one signer share `sm` (the pointer, as a
number of layers), the memory behind it and `smlen`; each read and each write
of these is a step, and the compiler may reread the pointer or not. A client
whose connection was reset goes on with the next phase as the code does, or
ends by SIGPIPE when it sends. `trouble` is a history variable that no action
reads: it records at whom R and seed were merged, a shard was received short,
two handlers raced, a connection was reset, or connecting was given up.

The signing round calls the key generation's copies of the connection functions
for the exchange and the top layer, with its own context cast: what they use
(`party_id`, `port`) is laid out alike in both (`net_context.h`).

`NetKeygen` and `NetSign` take from the pool that each connection gets a thread and that
`threadpool_destroy` waits for the handlers (`CompletesInTime`,
`NobodyOutlivesPool`; `pool_lost` shows what it takes to break the former).

**`FrontEnd`** is what people start. A request is one participant of one session; a
process is a gunicorn worker, which serves one request after another, the one
flask server, which serves all at once, or a program started for one request.
Each process has its `prime`, `threshold` and `barrier`, which requests set step
by step and never clear. Keys and signatures are files: truncated when opened for
writing, complete when closed; a key is written at once, a signature in two
buffers. A round is one step (`Meet`) that takes place when all its participants
are there and reach each other, which depends on the ports in the key files and
on `threshold`. A participant whose retries are used up calls `exit` and takes
its process with it, and all requests that run there; gunicorn also ends
workers that take too long. Two requests in one process, or at one file, that
meet are `troubled`: what becomes of their numbers is open. It is open as well
when n = SPX_D, which all APIs accept for key generation: the last address and
port are then outside their arrays.

## 4. Runs

| Run | Instance | Checks |
|---|---|---|
| `queue` | 2 pushers, 2 poppers, 3 messages | `TypeOK`, `LockHeldInside`, `ListIntact`, `FifoOrder`, `NoLostWakeup`, refinement of `FifoChannel` with its liveness (`ImplementsChannel`) |
| `keygen` | 3 players, TTP | `SharesUnmixed`, `BlindingCancels`, `KeysAgree`, `QueuesDrained`, `Terminates` |
| `sign` | 4 layers: 3 signers of 4 players, TTP, every choice of signers | `PresignedAlike`, `SignaturesRight`, `SignedMessageComplete`, `VerifiesUnlessOvertaken`, `Terminates`, refinement of `HypertreeChain` (`SignsInTurn`) |
| `sign_final` | the same | violated: `FinalShardLast` |
| `pool` | 3 connections, at most 3 threads | `CountersExact`, `TasksInOrder`, `NobodyOutlivesPool`, `NoTaskForgotten`, `CompletesInTime` |
| `sharing` | 4 players, 3 signers, modulo 11, coefficients 1 and -1 | `SharesOnOnePolynomial`, `SameSecret` |
| `signature` | 3 FORS trees of 8 leaves: all pairs of two indices, alone; 4 layers of 4 leaves with 0 to 3 signers beside the TTP; all six parameter sets, message lengths at the edges of blocks for three of them | `MessageHashed`, `NodesHashed`, `SignatureVerifies`, `AllLayersSigned`, `SignsNothingElse`, `OpensSelectedLeaf`, `AddressesDiffer` |
| `web` | up to 4 participants, 3 workers, 8 scenarios | `OwnParameters`, `SignatureSaved`, `RequestsAnswered` |
| `pool_lost` | 2 connections | violated: `AllTasksDone` |
| `netkeygen` | 3 players, TTP, each single number zero or none | `KeyAgreed`, `NoConnectionReset`, `KeygenEnds` |
| `netsign` | 1 to 3 signers, TTP, 5 layers, buffers of 3 layers, `threshold[t]` zero or a player that does not sign | `CompleteUnlessTroubled`, `ServedInPhase`, `SessionEnds` |
| `netsign_length` | the same | violated: `AggregatedWhenServed` |

Each run asks a question of its own; the type invariant is checked where
pointers have something to get wrong (`queue`), and every property has at least
one mutant in `PROJECT.json`, a plausible slip in a definition that makes TLC
find the property violated.

Bounds and why they are enough.

* Queue: with three messages a push meets an empty list, a list of one and a
  longer one; with two threads on each side a wakeup can go to the wrong
  popper, be stolen, or come while the other popper is between test and wait.
* Keygen: three players are the least with which a player stands between a
  lower and a higher one (all three branches of the blinding) and with which
  the barrier keeps two apart.
* Signing: three signers are a first, a middle and a last, which differ in the
  code, and a player that does not sign.
* Pool: three threads allow one to be running, one woken and one timed out.
* Sharing: three signers give a product of two factors with differences of both
  signs.
* FORS: three trees show an offset that is not a power of two; a byte
  has 16 values there, so that indices (up to 23) fill more than one.
* Networked rounds: with three participants besides the TTP one only connects,
  one only listens, and one does both; the last of three signers has two
  handlers at a time, which is what it takes to race; four layers below the top
  leave a remainder for the last of three signers, whose shard then has two
  units and can be split; a root is one unit, R and seed are two. The attempts
  to connect are not counted: giving up is possible whenever there is no
  listener, which covers every value of `MAX_RETRIES`.
* Hypertree: three layers below the top divide among one, two (with a
  remainder) and three signers, or none; digits of two bits and three checksum
  digits leave two bits of the checksum's byte empty, as four are with the
  code's parameters; the trees' numbers have a different digit on each layer.
* Messages: those lengths up to 130 bytes are taken that, behind one of the
  prefixes, end at or beside a block's end or the 56 bytes that leave room for
  the length: rests of every kind, behind no, one and two whole blocks.
* Web: each scenario of `MCFrontEnd` has what it takes for one hazard - two
  sessions in the same workers, with one signer and with two; a signature while
  its key is made again; fewer workers than participants; all at once in one
  server; too many players; ports that have changed; keys of two generations;
  the command line. A worker's timeout is only the first thing that goes wrong.

Deadlock is checked except for the pool, the networked rounds and the front
end, where the code really may stop: a handler that waits for bytes nobody
sends or for a process that has exited, a TTP that waits in `accept` for a
participant who does not come.

Fairness. Threads are scheduled: every step that stays possible is taken
(weak fairness per thread). In the queue a mutex is granted eventually to a
thread that keeps asking (strong fairness on the lock steps); nobody has to
push. Spurious wakeups, timeouts and failing accepts are never required; in
the pool handlers return (once their barrier is full). In the networked rounds
main threads and handlers are scheduled, what is sent arrives (a `recv` that can
return does), a listener that is opened accepts what is in its backlog, and
connecting is tried again; in `NetSign` not for ever, since a client whose server
never listens again exits after `MAX_RETRIES` attempts. In `FrontEnd` something
happens as long as anything can (weak fairness of the whole): each step is a
processor's, one of a bounded number of retries, or the end of a worker's time.

What three runs refute.

* `sign_final`: the last signer sends its root to the TTP before it broadcasts
  its shard (`round.c` 177-179; all others do it the other way round), so the
  TTP's top-layer shard may be queued first at another signer, whose signed
  message then has its last two layers swapped. `SignedMessageComplete` shows
  that this is all that can go wrong.
* `pool_lost`: `idle` counts threads that will take no signal any more, so a
  task can be left in the list when the pool is destroyed. `CompletesInTime`
  shows that it takes a timed-out wait.
* `netsign_length`: two handlers of one signer both read `ctx->smlen` before
  either has added its shard (`sign_handler.c` 339), so one shard is in the
  message but not in its length, by which `client.c` line 65 finds the
  message's beginning. The same handlers move `ctx->sm` back and forth without a
  lock. `CompleteUnlessTroubled` shows that a signer whose handlers did not
  overlap is right, whatever happens to others, but for one thing: a connection
  that is reset. It is spoilt for others as well, from four signers on. When signer
  2 closes the listener for its root with the shard call of signer 0 in its
  backlog, signer 0 is reset and goes on to signer 3, which still waits for its
  root and takes the call for it; signer 3 then signs a wrong root, and signer 1,
  of which nothing is recorded, ends with those layers. So the property asks that
  nobody was reset, which the run with up to three signers would not need.

`netsign` also names what else can keep a session from ending or a signature
from being whole, since its properties fail without the exception: R and seed
received as one (the second `recv` then waits for ever), a shard received in
parts, a connection accepted by nobody, a signer of a session of one that sends
its root to a stale address. `netkeygen` names one: a number that is zero. `sign`
names one for the signature that is verified: the overtaking of `sign_final` at
the first signer; and a joint secret with a leading zero byte, from which key
generation and signing make keys with whatever lies behind the buffer.

`web` names these, in its notion of a disturbed request or a broken session: two
requests at once in the one process of `python3 app.py`, whose globals they
share; a session of one signer in a worker that has served a larger one, which
sends its root to `threshold[1]` as that one left it; fewer workers than
participants; ports that differ between key file and request; a key file that
is empty because its writer was ended, which loads without an error; n =
SPX_D. Refused parameters are answered with NULL, which is 0, the same as success;
the properties ask only that all participants of a session are refused alike.

## 5. Proofs

`ThreadSafeQueueProofs` proves, for any finite sets of threads and any set of
messages, from `QueueAssumption` (the sets are disjoint where they must be and
NULL is no message) only:

* `TypeCorrect`: `TypeOK`, inductive as it stands.
* `MutexHeld`: `LockHeldInside`, inductive with `TypeOK`.
* `ListAlwaysIntact`: `ListIntact`, which says nothing inside a critical
  section, follows from `ListInv /\ NodesInv`: at each point of Push and Pop
  the list is whole or half linked (`HalfLinked`: the new node hangs off the
  last one, the tail still points there), and a node belongs either to one
  pusher or to the queue.
* `DeliveredInOrder`: `FifoOrder`; the node that is unlinked is the oldest.
* `QueueRefinesChannel`: every step is a `Send`, a `Deliver` or a stutter of
  `FifoChannel`.
* `WakeupsSuffice`: `NoLostWakeup`, with the mutex and the list invariant.

`ThreadPoolProofs` proves, for any number of connections and every `max_threads`
that is not smaller, from `PoolAssumption`:

* `PoolCountsItsThreads`: `CountersExact`. The caller and the threads wait on one
  condition variable, so every step is brought to one form first (`Moves`: one goes
  on, some of those who wait wake).
* `TasksRunInOrder`: `TasksInOrder`, from `TasksInv`. That nobody runs the next task
  already follows from its number: tasks are numbered through from those that
  were started to those on the list.
* `PoolOutlivesThreads`: `NobodyOutlivesPool`.
* `SomebodyComes`: `NoTaskForgotten`. It is not inductive, since one thread on its way
  takes one task; `EnoughComing` says that while anybody waits there are as many
  threads on their way as tasks.
* `TasksDoneUnlessLate`: if no wait has timed out, every task was run when the
  pool is destroyed (`EndsInTime`). `pool_lost` shows that one late thread
  loses a task; this theorem says that nothing else does.

`KeygenRoundProofs` proves `SharesUnmixed`, `BlindingCancels`, `KeysAgree` and
`QueuesDrained` for every number of players, from `PlayersAssumption`. None of
them is inductive: they rest on what every message in every queue is.
`KeygenInv` says it: nobody has two messages in one queue (`OneOfEach`), the
barrier of round.c:66 keeps the players `Together`, so that a message that waits is
`Expected`, the one that its receiver will take it for (`PlayerMail`, `TtpMail`; the
former is the theorem `EveryMessageExpected`), and what was sent and does not wait
is in the sums (`PlayerState`, `TtpState`). A sum of many messages is stated by its
coefficients, not by folding; the lemmas `SharesAdd`, `BlindOne` and `SumAdd` say that
one message more is one coefficient more, and `SumOfAll` that with all shards every
random value is added once and subtracted once.

`SignRoundProofs` proves `PresignedAlike`, `SignaturesRight`, `SignedMessageComplete`
and `VerifiesUnlessOvertaken` for every SPX_D >= 3 and every choice of the signers,
from `LayersAssumption`. They speak of what signers have, which rests on what waits
for them, in which order, and on how far each signer is. `SignInv` has these parts:

* `InTurn`: a signer signs only when the ones below have passed everything on.
* `Together` and `Presigned`: nobody is past the barrier of logic.c:38 while another
  is before it; so R and the seed come first in every queue.
* `Lined`: a signer's message followed by its queue is one line: R, the FORS
  signature, and layer after layer, but for the last two, which the last signer
  and the TTP broadcast at the same time (`LastTwo`); a root that waits is the last
  of the line and the one below the receiver's own layer (`Rooted`).
* `Counted` and `TtpState`: the loops' counters agree with the line.

It also proves `SessionImplementsChain`: the threads implement
`HypertreeChain`, step by step (`Chain!SafeSpec`, the safety part of
`SignsInTurn`). From `InTurn` a step signs at most one layer more (`OneMore`) and nobody
signs when a lower layer is missing, so there is always an n such that exactly
the first n layers are signed (`Depth`); the refinement mapping, which is a set
of signatures put in order, is then `Chained(n)`, and a step stutters or extends it.

`NetKeygenProofs` proves `NoConnectionReset` and `KeyAgreed` for every number of
players, from `NetKeygenAssumption`, which says who connects to whom. Where a connection is
follows from where its client's main thread is, so `NetKeygenInv` (the theorem
`Connected`) says of every two participants what their connection has carried so far and
where its handler is: it is idle, called, met, or at one of the four messages of a
swap, in which the two sides are never more than one message apart, or swapped. Then
a listener's conn_numbers is the number of those that it has still to accept
(`NotOpen`), which is why nobody is in the backlog when it is closed, and the
tables of a player that is done hold what both ends drew. What the players send to the
TTP are then the right shards, and in their sum the blinding cancels (`Blinded`,
`RightKeyCancels`): of what one player has drawn for another, the higher of the two adds
it and the lower subtracts it.

`NetSignProofs` proves `ServedInPhase` and `CompleteUnlessTroubled` for every number of signers, from
`NetSignAssumption`. Only phases keep a root from being taken for a shard there, and a
reset ends that, so `NetSignInv` is an invariant about runs without one (`Undisturbed`):

* `CallerInv`: a signer has been let in wherever it has been, in the order of the
  phases, and has called nobody in advance.
* `TtpInv`: conn_numbers counts the signers that have not presigned (`NotPresigned`);
  R and the seed are sent to nobody before all have (`HandlerInv`).
* `RootInv` and `ExchangeInv`: a signer has the root from below exactly when it is past
  listening for it, and no lower signer has swapped shards with it before.
* `ListenerInv`: who waits at a listener that accepts, calls in its phase (`Waiting`).

The last is the point: that a caller which is ahead cannot be let in early.
The lemma `CallsIn` shows it from the others, phase by phase. A signer that calls q
to exchange shards has exchanged with all that are between (`PastRoot`); so the one below
q has passed on its root, and q has received it and listens for shards. A reset, in
turn, can happen: `trouble` records it, and the property says nothing after it.

`CompleteUnlessTroubled` is about the memory that a signer's handlers write, so it needs
what comes before: which handlers run, and what they read. `CompleteInv` (the theorem
`SessionProgresses`) says, again of runs without a reset:

* `PlacesInv`: which handler runs at which listener. Those of a signer q that listens for
  shards are of the signers below q, and `toAccept[q]` is the number of those it has
  not accepted (`Missing`), so q goes on only when all have been served.
* `StreamsInv`: streams hold whole messages of one sender, because a client sends a
  shard once and only after it was accepted; a root on a stream is the one that the
  receiver starts from, and the TTP's answer is the top layer.
* `ShardInv`: a shard is complete before it is sent.
* `SignerInv`: if nothing is recorded at q, at most one of its handlers is between
  line 333 and line 339 of `sign_handler.c` (`MessageInv`). So `sm[q]` is where that
  handler has moved it and 0 otherwise, the register of a handler is what it has loaded,
  `smlen[q]` is q's own layers and those of every handler that has added its own
  (`Added`), and `mem[q]` has the layers of all with whom q has exchanged (`Holds`).

The last is said signer by signer, so overlapping handlers at one signer do not spoil
what is proved of the next: what q sends is its own shard, which no handler writes.
That a signer's length is right when it asks the TTP (`SPX_D - 1`) follows from the
places of the signers, which divide the layers below the top among them.

`FrontEndProofs` proves `OwnParameters` and `SignatureSaved` for any scenarios,
any number of workers and every SPX_D, from `FrontEndAssumption`, which says what
the page and the server let through. Two invariants:

* `FrontInv` (the theorem `AloneAndProvided`): a request that no other has met is
  alone in its process from its start to its answer, so the globals that it has come
  to set are its own: prime, threshold and barrier, one after the other.
* `SavedInv` (the theorem `WrittenAsMade`): memory holds what the last round of that
  process made, a round's result stands when all of its participants have left it
  (`ResultInv`), keys of one generation are the result of one round, and a file has
  as much of its signature as its writer has written, even where a second writer
  has it open (`FileInv`, `Rivals`).

`PrimitiveProofs` proves `SharesOnOnePolynomial` and `SameSecret` for every prime
above the number of players, every number of players and every threshold
(`SharingAssumption`). The prover has no induction rule that takes a predicate, so
`NatSetInduction` and `SubsetInduction` are stated with the set of the numbers, or
subsets, that have the property, and follow from the well-foundedness of the order.
From them:

* Folds (`FoldLast`, of `SumFunction` and `Product`): what a fold computes does not depend
  on the order in which it takes the elements, so one can be taken out anywhere.
* The field: a number other than 0 modulo the prime has an inverse (`InverseIs`).
* Interpolation: `Weighted(T, v)`, the sum over a set T of points of v(k) and the
  Lagrange factors of T at zero, is the secret for v = 1 (`WeightsSum`) and loses a
  point with each power of x (`WeightedTimes`, `WeightedWithout`).
* Horner's scheme: `evaluate_poly`'s loop with its two variables is the scheme
  (`JointLoopIs`, `HornerIs`), and interpolation takes one coefficient off it at a time (`DealtSum`).

`SharingTurns` is the inductive invariant: everybody's shares, sums, summands and the
recovered number are the functions of the drawn polynomials that `Dealt`,
`JointShare` and `Summand` say, as far as the turn has come.

The same module proves `SignatureVerifies`, `AllLayersSigned`, `OpensSelectedLeaf`,
`SignsNothingElse` and `AddressesDiffer` for trees of every height, any number of layers,
signers and FORS trees, digits of 1, 2, 4 or 8 bits and every digest, from `WotsAssumption`,
`ForsAssumption` and `HypertreeAssumption` (among them: the number of a layer and the
height of a FORS tree fit into their bytes). The argument, from the bottom:

* Loops. Every recursive function of the models is a chain of rounds: `First` and
  `Round` say by the kind of the loop what it starts with and what a round does,
  `LoopIs` that the function has the value `After` each number of rounds.
* Numbers: `ShiftShift`, `ShiftBelow`, `BitIs`, `Carry` for indices that are halved and
  counted up; `DigitPlace` and `LengthsAre` for digits of messages.
* Trees: `Node` is the node that a tree has at a height and an index by definition. After n
  leaves the stack of `treehashx1` holds the left children on the way to leaf n, and
  the path what has been met of it so far (`TreehashIs`); `compute_root` finds the
  root from a leaf and the nodes beside its path (`ComputeRootIs`), even when the
  address that it starts with has a height and an index from an earlier tree (`SameTree`).
* Chains: a verifier ends the chain that a signer has begun (`GenChainIs`), whatever the
  last hash has left in byte 21. So `VerifyLayerIs` gives back the root of the tree from
  what `MerkleSignIs` shows.
* Positions: `AtLayer` says of a participant's indices and addresses that they are those
  of layer n. `tss_gen_addr`, `tss_gen_ttp_addr`, the signers' loop and the verifier's
  loop keep it (`GenAddrIs`, `AscendAt`); the top has one tree (`TopTree`).
* Shares: with SPX_WOTS_AVG = (SPX_D - 1) / t each signer starts where the one before
  ends, and the last one ends below the top (`LevelsAre`).

`SigInv` (the theorem `SigInvHolds`) puts this together. Its part `ForsInv` says which
trees are opened and which roots computed; its part `HyperInv` that the first n
layers are signed (`Reached`), where n follows from phase, signer and counter, and
that the verifier's root is the one that the signer of the next layer has signed. That
the verifier also finds the bytes that were signed rests on `ValuesDiffer`: no
two layers have the same root, since their addresses differ.

Two more theorems need only a little of `SigInv`:

* The checksum (`EarlierValue`). A number is decided by its digits, and one none of whose
  digits is smaller is not smaller (`DigitsOrder`). The checksum's digits are those of
  what the message's digits leave of their chains: shifting the number to the left by the
  bits that are missing to whole bytes, cutting it into bytes and these into digits gives
  the same digits as cutting the number itself (`ChecksumDigits`), and none is lost since
  it is small enough (`LeftBelow`). So if no chain of the other message is shorter, it leaves
  no more (`LeftOrder`) and no less, hence has the same digits and the same bytes
  (`BytesDecided`).
* FORS's addresses (`AddressesCount`). Node j of tree t at height h has the number
  j + t * 2^(SPX_FORS_HEIGHT - h) among all the nodes of that height (`ForsNodeIs`,
  `Blocks`), so the addresses at one height are as many as its nodes (`RangeIs`), and those of two
  heights, or of secrets and nodes, have none in common (`RangesDiffer`). `LowerIs` adds them up.

Last, it proves `MessageHashed` and `NodesHashed` for every length of the message, every value of at
most a block and every number of FORS trees (`SessionAssumption`: the parameters fit
together as the headers' do); its lemmas `SimpleIs` and `RobustIs` are about any number of
blocks of a node. Sequences are compared element by element:
`Consists` says which parts a sequence has, `ConcatAssociates` and `Cut` that it does
not matter where it was cut.

* Padding (`FinalizeIs`). What `sm3_inc_finalize` makes of the rest of a message, in one
  block or two, are the bit, the zeros and the length that the standard asks for
  (`PaddedRestIs`, `ZerosAre`), and bytes shifted by 53 to 5 and by 3 are the length in bits
  shifted by 56 to 0 (`EighthByte`). `BlocksAre` carries the count along from block to block.
* A part of the message put aside (`AbsorbAfterIs`): where the prefix and the first bytes
  of the message fill blocks they are absorbed, the rest follows, and SM3 of the whole comes out.
* MGF1 (`MgfIs`): whole pieces joined and a part of the last one (`FlattenIs`) give each byte
  that the standard numbers.
* The digest (`DigestUsed`): the indices, the tree and the leaf take their bits from
  different bytes (`UsesJoin`) and each bit once, so they are as many as the parameters say.

TLC checked each of the invariants on threads and networks on a small instance before it was proved
(`SignInv` for SPX_D = 3 and 4, `NetSignInv` for up to three signers), where all
reachable states satisfy it.

Only model-checked:

* Everything under fairness (`ImplementsChannel`'s liveness part, `Terminates`,
  `SignsInTurn`'s liveness part, `CompletesInTime`, `KeygenEnds`, `SessionEnds`,
  `RequestsAnswered`), which the prover does not treat. Every invariant that a passing run
  checks is stated by a theorem.

## 6. Not modelled

* Random bytes. `randombytes.c` hands out the operating system's bytes, and the
  models draw names; what its loop does after a failed read (the unsigned
  count of -1 moves the pointer back) is left out. `rng.c` is the generator that
  the known-answer tests prescribe; no threshold program links it.
* SM3's compression function, and with it the shifts by 32 and more of `rotl`:
  out of TLC's reach.
* Of the networked rounds the FORS part of a message (`Signature` has it) and
  socket errors other than refused and reset connections; numbers and roots are
  received whole.
* Of the front end the pages, the download of files and `/api/verify`, which
  change nothing, and the layout of the JSON files. Of the command line's programs
  the barrier of `verify.c`, which nobody waits at, and the list of signers in key
  generation and verification, which nothing there reads.
* `crypto_sign` and `crypto_sign_open` of `ref/`, which put the message behind the
  signature and take it off again, and the functions that return sizes.
* `ThreadSafeQueue_Destroy`, `ThreadSafeQueue_Empty` and `treehash` of
  `utils.c`, which have no caller.
* Benchmarks, known-answer drivers, printing, and `malloc` failures, which the code
  ignores throughout.
