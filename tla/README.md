# A TLA+ model of Hierophant

Hierophant is a prover network one can run oneself. The *Hierophant* process
accepts proof requests over three front ends (SP1's gRPC prover network,
RISC Zero's Bonsai REST API, an OpenVM REST API), keeps a registry of
*Contemplants* (GPU workers connected over websockets) and gives each request to
one of them. A contemplant proves, and answers status polls; everything the
Hierophant learns about a proof it learns because a client polls.

This directory models the parts of both processes that hold state and change it
concurrently, model-checks them with TLC on small instances, and proves the
central safety properties of six of them, and both refinements, with TLAPS for
every instance.
Paths below are relative to `src/`, the workspace of the repository.

## Inventory

| part | code | module | state of the model |
|---|---|---|---|
| worker registry | `hierophant/src/worker_registry` | `WorkerRegistry`, abstract: `RegistryView` | every handler that touches workers, queue or waiting polls |
| proof router, status conversion | `hierophant/src/proof` | `ProofRouter` | modelled |
| artifact store | `hierophant/src/artifact_store` | `ArtifactStore`, abstract: `ArtifactWindow` | modelled |
| Bonsai front end | `hierophant/src/bonsai` | `RestJobs` | sessions, snarks, uploads; not: downloads |
| OpenVM front end | `hierophant/src/openvm` | `RestJobs` | modelled |
| SP1 front end | `hierophant/src/api/grpc`, `hierophant_state.rs` | `Sp1Jobs` | proof requests and status; not: programs, nonces |
| websocket endpoint | `hierophant/src/api/websocket.rs` | `ContemplantLink` | without the close after a wrong version |
| HTTP endpoints, configuration, start-up | `hierophant/src/api/http.rs`, `config.rs`, `main.rs` | none | thin wrappers and read-only views |
| proof store | `contemplant/src/proof_store` | `ProofStore` | modelled |
| executors, GPU residency, demotion | `contemplant/src/proof_executor`, `worker_state.rs` | `Contemplant` | without proving itself and time estimates |
| connection loop | `contemplant/src/main.rs`, `api/connect_to_hierophant.rs`, `message_handler.rs` | `ContemplantLink`, `Contemplant` | without the shutdown signal |
| OpenVM worker client, verifier | `openvm-worker-proto`, `hierophant/src/openvm/verify.rs` | `OpenVmWorker` | modelled; a frame is one step |
| OpenVM worker process | `openvm-worker` | `OpenVmWorker` | life cycle, key caches, answers, panics; not: what the SDK computes |
| rate model | `contemplant/src/rate_model.rs` | none | floating-point least squares |
| wire types | `network-lib` | `ProofStore`, `WorkerRegistry` | statuses, progress order, capabilities |
| demo programs | `fibonacci`, `*-fibonacci` | none | sequential client scripts |

The magister (the service that rents instances) is not in the repository; it
appears as an endpoint in a registration.

`PROJECT.json` lists the hazards of the code at the line where each bites, with
the properties that would notice; it also maps each definition to its lines.

## The modules

### WorkerRegistry

One task owns the registry and handles one command at a time, so each command
handler is one action with the handler's name. The senders of the commands are
unconstrained: any registration, status answer, completion or poll may come at
any time. What holds here holds for every set of clients and contemplants.

* `workers` maps peer addresses to worker states (process, capabilities, job,
  progress, strikes, whether the socket is open). The clock is reduced to the
  comparisons the code makes: `late` holds the limits that have passed for the
  worker (heartbeat, proof, progress, execution report, start-up grace).
* `pending` is the queue of requests no worker could take. Draining it awaits one
  channel send per entry, so a drain takes one `drain_step` per entry and the
  sockets may close in between; `still` is `still_pending`, `loop` remembers what
  the handler does once the drain is over.
* `awaiting` and `poll` are the two ends of the oneshot channels of status polls.
  A poll may time out at any moment while its answer is on the way.

A registration takes over the entry of the same instance under another address
(`StaleKeys`), and the assignment with it if it is the same process (`Carried`).
`trim_workers` is part of the handlers that call it.

`RegistryView` is what the front ends may rely on: a request is unknown, queued or
with a worker, and moves only between these in certain ways. A submission places one
request and may come with the loss of others, as the handlers trim workers first; the
view alone does not say that a loss is never taken back. `EntersBySubmission` does: a
request comes to the queue, or past it to a worker, by a submission of its own only.

### ArtifactStore and ArtifactWindow

Two rings of uris with an index each, the set of uris valid for upload, and the
set of files. A save takes the slot, deletes the file of its former owner, and
writes; the write or the deletion may fail as `Failures` allows, and a failed
write may leave a truncated file. `ArtifactWindow` is the promise: the store remembers
the last `Max` saves of each trimmed type, attempts included, and what a save deletes
is the file that the oldest of them names. An artifact whose write failed can be saved
again; it then has two slots and goes with the older one, before the ring has turned
once. `FullTerm` says how long an artifact stays, counted from the save that took its
oldest slot.

### ProofRouter, RestJobs, Sp1Jobs

`ProofRouter` puts the router on top of the abstract registry view and adds what a
front end can be told: lost, assigned, unexecutable, or a proof.

`RestJobs` covers the two REST front ends. Their status handlers have the same
shape: check the recorded failure, check the stash, ask the registry, verify,
release the worker, stash. Each of these ends at an `await`, so each is a step,
and several calls interleave. A client may go away, which drops its handler
between two steps. Images and programs carry a version, as they may be uploaded
again under the same id; a proof is verified against what is there by then. A client
may also upload a receipt under the id of a session (`handle_receipt_put`): the status
handler finds it in the stash and answers SUCCEEDED while the worker goes on proving,
and a snark may be made from it. `stash` tells such a receipt (`"uploaded"`) from one
that a handler has verified.

`Sp1Jobs` covers `request_proof`, the background task that downloads circuit
artifacts before a Groth16 or Plonk request is routed, its `pending_artifacts`
marker, and `get_proof_request_status` with the artifact store it saves to. Each of
the two circuits has artifacts of its own. The disk may fail when a proof is read or
written, and a failed write may leave a file; `faulted` are the calls that met this.

### ProofStore and Contemplant

`ProofStore` is the ring of statuses. `Contemplant` extends it with the dispatch of
requests, the hot backend and its eviction, one task per proof, backend deaths,
respawns and demotion, and the connection loop with the end of the process. The
dispatcher and the proving tasks run on one single-threaded runtime, where a task may
be set aside at every await; a step of the model ends where a task waits for a
backend, for a blocking thread or for the lock of the SP1 prover, so that the write of
a prover that was built again and the clone of its handle are two steps. The SDK may
panic while it builds one, which ends the task. A failed Magister check leaves the
receive task of the connection behind (`link = "stray"`), and it may still take up a
request. The registry's
side is the single operator `get_proof_request_status` and the worker's
assignment. `Configs` are the sets of provers a contemplant may be configured
with, `serves` the ones it still offers; `Evictions` says whether the registry may
evict the contemplant while it proves.

### ContemplantLink

One contemplant and the Hierophant, over as many websockets as it takes. The
reconnect loop (`at`, `cur`) dials, checks with the Magister, serves and pauses. A
connection has a send task, a receive task and a heartbeat timer. The response
channel belongs to the process, and its receiver is behind a lock: `lock` is the
queue of the send tasks for it, as a tokio mutex is fair. On the other side each
socket has a handler with a bounded channel, and the registry's single loop waits
when the channel of the worker it writes to is full (`blocked`), which holds up
every handler that wants something of the registry.

When the Magister check fails, `connect_to_hierophant` returns and leaves the tasks
it has spawned behind. Such a connection keeps its place in `lock`, keeps sending
heartbeats and keeps answering, while the loop dials the next one. A registration
replaces the entry in the registry; a heartbeat of a connection without entry
closes it. If the registration of an abandoned connection is read after the one
that replaced it, the abandoned one is the registry's entry for good, and the one
the loop serves waits for the lock: `Recovers` therefore asks for a working
connection, not for the current one.

### OpenVmWorker

The worker subprocess and the client that starts it, for both of its users: the
Hierophant's verifier, which tries three times, and a contemplant, which tries once
(`parent`). The lock of the client covers one look at the child, so calls
interleave: one may find the child another has started, and kill it when its own
connection breaks. `child` is the process as the client can tell (none, starting,
bound to its socket, exited); `app_pk` and `agg_pk` are the key caches of the
running child, lost with it; `settled` is a history variable, the keys that
finished requests have used. Deaths and failed starts are bounded by `MaxHiccups`,
and each call counts the ones it `met`.

## Runs

| run | instance | distinct states | what it shows |
|---|---|---|---|
| `registry_queue` | 3 addresses, 4 processes (2 of one instance), 3 requests of different needs, queue of 2, heartbeats that stop | 326,981 | single assignment, exclusive queue, no idle capacity beside a servable request, one entry per instance, order, reconnects, no request comes back by itself; the registry implements `RegistryView` |
| `registry_polls` | 2 addresses, 1 process, 2 requests, 2 polls, queue of 1, start-up grace | 213,751 | waiting polls are of known requests; a poll hears of a loss only if there is one; polls return |
| `artifact_store` | 4 proofs for a ring of 3, 2 inputs for a ring of 1, a program; writes may fail | 122,688 | the disk is bounded, the budget is used in full, what goes is the file of the oldest save: the store implements `ArtifactWindow` |
| `rest_serial` | session and snark, or an OpenVM job, two versions of each program, one call, disconnects, uploaded receipts | 46,667 | no job is both failed and stashed, what is stashed was verified and its worker is free, no failed job is queued, jobs settle |
| `sp1_jobs` | a Groth16, a Plonk and a plain request, any artifacts there at the start, one call, a disk that may fail | 1,780,584 | no loss reported while routing, or once saved by a disk that works; the right circuit is there when needed; markers go away |
| `contemplant_serial` | 2 SP1, 1 OpenVM, 1 RISC Zero request, all provers or SP1 alone, 2 deaths, ring of 1 | 318,874 | serial proofs, assigned requests stay known, no prover is evicted between warming and taking it, progress never goes back, OpenVM keys leave the GPU, demotions reach the registry, tasks settle |
| `contemplant_link` | 2 sockets, every queue with room for one, 2 status requests on their way, 2 failures | 112,025 | once failures stop the registry knows the contemplant by a working connection, keeps hearing heartbeats, and answers leave the response channel |
| `openvm_worker` | 2 calls, 1 app config, 3 tries, 2 deaths or failed starts, a verifier that may panic | 356,388 | a lone verification is given up only after three failures, warm keys are not generated again, every call returns |

`VerdictsAgree` and `LostIsReal` are about clients that make one call at a time,
`SerialProofs`, `ProverWarm` and `KeysOnlyWhenHot` about contemplants that are not
evicted while they prove, `TaskSettles` about tasks that do not panic,
`HeartbeatsFlow` about fewer polls than fill the link, `LoneVerifySurvives` about
verifications without another beside them. Those are limits of the code, not of the
model: with two calls `rest_stash` refutes the first, and `openvm_hiccup` shows what
becomes of the last.

Runs that are expected to fail show where the code departs from what it says of
itself (`findings` in `PROJECT.json` quotes the lines):

* `rest_stash`: two concurrent polls of one session can leave it FAILED for good
  with a verified receipt in the stash.
* `contemplant_parks`: a contemplant without capabilities exits instead of parking.
* `openvm_hiccup`: with two verifications at a time, one death of the local worker
  can use up all three tries of one of them, as the other kills each new child. The
  router then drops the contemplant that sent the proof.
* `openvm_panic`: when the proving thread of a worker panics, its connection stays
  open without a terminal frame, and the call never returns.

Smaller departures that the models contain and no run singles out:

* the queue's time to live is looked at only when a worker is freed or registers;
* the limit on execution reports applies only when the wall clock has gone
  backwards (`worker_state.rs:186` against `config.rs:67`);
* an image replaced while it is proved costs an innocent worker its place;
* a receipt that a client uploads under the id of a session is taken for the session's
  own: the session is SUCCEEDED, its worker stays busy until the proof timeout, and a
  snark may wrap the upload;
* a failed write of a proof can leave a truncated file that the next SP1 status call
  answers as fulfilled;
* a contemplant whose SDK panics while a prover is built never sets the status of that
  request;
* an undecodable SP1 proof does not drop its worker;
* the SP1 prover built at start-up is not evicted by a first OpenVM request;
* a contemplant evicted while proving is given a second proof once it reconnects,
  where `proof_executor/mod.rs:22` says proofs are serial;
* tasks left behind after a failed Magister check make two connections live, where
  `connect_to_hierophant.rs:112` says exactly one is;
* `openvm-worker/src/prove.rs:38` says every proof after the first skips key
  generation; the app key is generated for every app proof, and once more for the
  first aggregated proof that finds the aggregation key cached.

### Bounds

Two starts of one instance and two others are the fewest with which a
reconnect, a restart and a foreign worker can meet; three requests with nested
needs make a drain skip one entry and serve a later one; a queue of two is full
while a third request arrives. A ring of three tells a skipped slot from a wrapped
index, a ring of one wraps at every save. A status ring of one is full with every
second request. `MaxStrikes` and the death limit are 1 or 2 instead of the
configured values: the code only compares with them. Symmetry is used for addresses
in `registry_queue`, where no liveness is checked.

In `rest_serial` a behaviour uses one of the two REST front ends (the action constraint
`OneSurface`): they share neither state nor workers in the model, so jobs of both at
once would only multiply the states.

Two calls of the OpenVM worker are what it takes for one to kill the other's child.
The tries are the code's three; two deaths or failed starts, with panics and expired
grace periods beside them, are enough for a call to run out of them.

The link has two sockets, one that is left to itself and its successor; a name is
used again once nothing of its connection is left. Its queues hold one message
instead of 100, and `MaxPolls` is 2. That bound matters: with as many status
requests on their way as all queues together hold (five in this instance), the
registry waits for a handler's channel, the handler for the socket, the contemplant
for its response channel, and its send task for a socket that is read by a handler
that waits for the registry: nothing moves. In the code this takes more than 300
unanswered status requests of one contemplant plus what the sockets buffer.

Deadlock is checked except in the SP1 run (once all requests of the instance are
refused nothing is left to do) and the contemplant runs (the process may exit).

### Fairness

* Registry: the event loop continues a drain it has begun (weak), a poll's timer
  fires (weak), and the command a poll ends with is handled although others keep
  coming (strong: the commands are in a first-in-first-out channel). Nothing is
  assumed of clients or contemplants.
* REST jobs: a handler that can go on does, the client keeps polling each job
  (strong) and goes away before the answer only finitely often, a worker that keeps
  a proof finishes it and at some point answers in time. The registry's limits
  justify the last two: a worker that does neither is evicted.
* SP1: the download task runs. Downloads may fail any number of times.
* Contemplant: its tasks run, the connection loop retries, and `main` returns once
  the loop has ended. Nothing is assumed of requests.
* Link: tasks run and timers fire (weak). Strong fairness is assumed where somebody
  queues in a first-in-first-out channel that others use as well (a handler's
  command to the registry, an answer to the response channel), and for noticing a
  closed socket, which may swallow some messages first but not for ever. Failures
  are finitely many (`MaxFaults`).
* OpenVM worker: threads run and a child that is left alone binds its socket (weak);
  the grace period ends for a call that keeps being refused (strong: the deadline
  is fixed when the call begins, whatever children come and go meanwhile).

## Proofs

`WorkerRegistryProofs` proves, for all sets of addresses, processes, requests and
polls, any queue capacity and any limits:

* `RegistryInvariant`: `Spec => []RegistryInv`, the inductive invariant;
* `OneWorker`, `ExclusiveQueue`, `ConservesWork`, `RespectsOrder`,
  `InstancesUnique`, `AssignmentSurvivesReconnect`: the properties
  `OneWorkerPerRequest`, `QueueExclusive`, `WorkConserving`, `NoOvertaking`,
  `UniqueInstance`, `ReconnectKeepsAssignment` of `registry_queue`;
* `TypeCorrect`, `WaitersFound` and `LossesAreGenuine`: `TypeOK`, and the properties
  `WaitersKnown` and `LossIsGenuine` of `registry_polls`.

The properties lean on each other. That a request is queued once is not inductive
alone: a submission is queued only if no worker could take it, and a worker that
becomes free takes what is queued, so the proof needs `WorkConserving`; that in turn
holds only between drains, so during a drain `DrainInv` says which entries have been
tried in vain. Handlers fall into two kinds, and there is a lemma for each: those
that only take workers away or leave jobs alone cannot make a queued request
servable, and those that free or add a worker end in a drain. `UniqueInstance` is
stated for configurations in which names and endpoints identify an instance
consistently (`IdentityTransitive`); the code relies on that.

`LossIsGenuine` is about the step that answers, but a drain may lie between the
worker's answer and its relay. The invariant `HeldAnswer` says what the loop can hold
back that long: only an "unexecutable", whose worker has given the request up. Every
other answer is relayed in the step in which the registry looks at the worker.

`RegistryViewProofs` goes on from there to `Refinement`: the registry implements
`RegistryView`. A request is queued if it is in `pending` or `still`, with a worker
if one is busy with it, and unknown otherwise; the invariant makes the three
exclusive, so that a drain step, which moves an entry between the two queues or to a
worker, is either a stutter or an assignment. `SubmissionOnly` (`EntersBySubmission`)
is proved from the same lemmas.

`ArtifactStoreProofs` proves for all rings and uris, from `StoreAssumption` (rings
are not empty; the code divides by their size): `StoreInvariant`, and from it
`BoundedDisk`, `LateEviction` and `MatchingRings`. The bound on the files follows
from their being among the entries of a ring, whose number is bounded by an
interval's cardinality. `LatestKept` is the refinement: provided that removing a
file works, the store implements `ArtifactWindow`. A ring is read from its oldest
slot on (`Chronicle`), and the proof shows that a save appends to what is read while
the ring fills, and shifts it once the ring is full; `FillsInOrder` is what decides
between the two by looking at one slot. `TermServed` is `FullTerm`, which no run checks
by itself: an artifact stays until `Max` further saves were begun after the one that
took its oldest slot, which on a disk that does not fail is its only one.

`RestJobsProofs`, for any number of jobs, versions and concurrent calls, clients
that go away included: `VerifiedStash` and `ReleasedWorker`. The invariant says what
a call knows at each of its awaits: a proof it carries is the one the job's worker
made, and past the release that worker no longer has the job. With one call at a
time, `OneCallAgrees`: no job is both failed and stashed. `FailedLeavesQueue`, for
any number of calls: a call that is about to record a failure has been told of a loss
or has given the request up itself, and nothing brings such a request back
(`LostForGood`). `RestAssumption` says that a
snark wraps a session and any other job itself, as the three creation handlers have it.

`Sp1JobsProofs`, for any requests and calls: `RoutingNotLost` and `CircuitThere`.
The invariant follows the marker of a download task: it is there until the request
is routed or given up, a call that has looked for it and found none keeps that
knowledge, and what is routed has the artifacts of its circuit. With one call at a
time, `OneCallLoss`: a saved proof is reported lost only in a call in which the disk
failed. `TypeCorrect` contains that a marker never outlives the task that is to remove
it.

`LostForGood`, for both front ends: a
request that has been routed and that the registry has lost is never known to it
again. For SP1 this needs `Fresh`: a request is routed by its handler or by its
download task, never by both, and the registry does not know it before; so the guard
of `assign_proof_request` (an id is submitted once) leaves out no behaviour.

`ContemplantProofs`, for any requests (mock requests and evictions while proving
included), ring sizes, configurations and numbers of deaths: `KnowsItsRequest`. It
needs that a request on its way is new to the contemplant, that only requests that
were taken up are in the ring, and that none has two slots.
`OneProofAtATime` is for contemplants that are not evicted while they prove; its
invariant adds that what a task works on is what the registry has assigned.
`NeverCold` (`ProverWarm`) is for the same contemplants and rests on that invariant:
the only step that evicts a prover takes up a request, and none is on its way while a
task is between warming the prover and taking its handle.
`KeysEvicted` is for the same contemplants; its invariant `HotInv` adds that the zkVM
of the task that works is the resident one. `ProgressGrows` holds for all: by `Sane` a
status says executed exactly when it has the proof, so that a late size report of
OpenVM finds a finished proof finished. `TypeCorrect` needs `Configured`: only
requests of a zkVM that the contemplant still serves are on their way to it.

`OpenVmWorkerProofs`, for any calls, configs, tries and failures: `TypeInvariant`
(a worker serves only while it listens, and uses an aggregation key only from the
cache), `WarmKeys`, and `LoneVerify`. The last counts: a lone call has met at least
as many hiccups as it has used up tries, and one more as soon as the current try is
bound to fail (`Owed`).

`ContemplantLinkProofs`, for any number of sockets, capacities of the queues, status
requests on their way and failures: `TypeCorrect` (no queue outgrows its capacity; a
send task waits for the response receiver once, for which `Leaves` says what taking
an aborted task out of the queue does), `RegistersFirst` and `ClosesOnlyReplaced`: a
heartbeat is never read before the registration of its connection, so the handlers
that the registry closes for a heartbeat it does not accept are those of workers it
has replaced or dropped. The last two rest on one invariant, `LinkInv`, and have no run
of their own; TLC has checked them on the instance of `contemplant_link`, with sockets
that hold two messages.

Every safety property of a run that is expected to pass is proved. Model-checked
only are the liveness properties (`PollsReturn`, `Settles`, `MarkersGo`,
`DemotionAdvertised`, `TaskSettles`, `Recovers`, `HeartbeatsFlow`, `AnswersLeave`,
`CallsReturn`), which are out of the prover's reach together with `ENABLED`. That the
status requests on their way stay within `MaxPolls`, which excludes the deadlock
described under Bounds, is not proved either: it is a sum over all sockets, and what
such a sum is takes an induction over finite sets. Proved only, as no run has the
instance: the REST properties for concurrent calls, and those of a contemplant with
mock requests and evictions.

## Not modelled

* Dashboards, history and dead-worker lists: read-only or never read back.
* The magister: not in the repository; the call that tells it of an eviction is fire
  and forget.
* The shutdown signal and the Close frame it sends; the close after a registration
  with a wrong version.
* Programs and nonces of the SP1 front end: a map that is filled and never trimmed,
  and a constant. They would multiply the states of `sp1_jobs`, the largest run, and
  no property depends on them.
* Downloads of the REST front ends: read-only.
* Artifact uris as text, configuration files, encodings of messages.
* Rate estimates: floating-point least squares.
* Key files of EVM proofs in the OpenVM worker, and whatever the SDKs compute.
* The demo programs.

## Plan

1. The registry composed with several contemplants over links: requests lost with a
   socket, eviction of a live worker, the start-up race end to end. Each of the two
   sides has a run of its own now; their product is beyond what TLC does in minutes,
   so it needs an abstract link first.
2. The count of status requests on their way in `ContemplantLink`, by proof: it needs
   a definition of the sum that does without induction, for instance one request per
   name.
3. `LossIsGenuine` across the front ends: that a job recorded as failed was lost,
   rejected or unexecutable in the registry itself, with `RegistryView` as the bridge.
