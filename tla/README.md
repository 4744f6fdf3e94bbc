# TLA+ models of the Ethernity Cloud SDK

This directory holds TLA+ specifications of the parts of the SDK whose
correctness depends on interleavings, on services that act later or never, on
files earlier commands left behind, and on steps that fail half way; the TLC
configurations that check them on small instances; and TLAPS proofs of the
properties that matter most.

`S` below is `src/nodenithy/build/securelock/src`.

## 1. The system

The SDK takes a project from `ecld-init` over `ecld-build` and `ecld-publish` to
`ecld-run`: it builds a confidential program (a "securelock" enclave) from a
user's backend, publishes it, and that enclave then executes orders.

| part | source | state it keeps | operations | talks to |
|---|---|---|---|---|
| project commands | `init.js`, `build.js`, `nodenithy/build.mjs`, `pynithy/build.mjs`, `payloadLint.mjs`, `nodeFlags.js` | `.env`, the backend, images in docker, `registry/` | configure, lint, build, sign, copy | docker, image registry (views) |
| network tables | `cas/config.js`, `network.js`, tables in `init.js` and the builds | none | name a network, its CAS, its templates, its registries | all commands |
| publish pipeline | `publish.js`, `nodenithy/run.js`, `pynithy/run.js` | `key.pem`, `*.ipfs`, `PUBLIC_KEY.txt`, certificates in `registry/`, settings in `.env` | measure, gate, render composes, post or register the session, register the image, upload, harvest the certificate, set it, link | all of the rows below |
| image registry client | `nodenithy/run/image_registry.js` | none (the contract's records) | `registerImage`, `setRewardAddress`, `setImageCert`, V1 `addImage` | contract, through nodes that lag |
| CAS sessions | `cas/session_registry.js`, `cas/resolver.js` | none (the contract's versions) | find a CAS, register a session, wait for it, link the image | contract, validators |
| local Kubo | `localKubo.js` | a container and its peer id; whether it serves an image | start or take over, provide, release | docker |
| IPFS client | `nodenithy/ipfs.mjs` | one request; the `.ipfs` files | hash, add, pin, download | an IPFS API |
| certificate client | `nodenithy/run/public_key_service.js` | when it submitted, how long it waited | wait for the watcher, submit, poll | extraction service |
| task commands | `run.js`, `runReport.js`, `test.js`, `src/preStart.mjs` | one order, or the requests of a local server | submit, wait, report; serve local tasks | the runner package, `ecld_state` |
| Enclave State Registry (ESR) | `S/ecld_state.js`, `pynithy/.../ecld_state.py` | the task's ledger of signed authorizations, memos of its own commits, the attested caller | `get`, `commit`, `esrGrant/Revoke/SetPublicRead/Transfer`, `esrOwner`, `esrAcl` | contract (views only), bucket |
| ESR contract, node relay | outside; used through `ESR_ABI`, emulated by `S/esr_local.js` | per (enclave, key): cid, version, nonce, relay nonce | `commitFor` | IPFS, bucket |
| session executor | `S/etny_session_exec.js` | next sequence number, open handlers, closing time | take inputs in order, emit outputs, close | bucket, executor |
| securelock lifecycle | `S/securelock.js.tmpl` | order metadata, keys, certificates | attest, load payload and input, execute, save and sign the result | everything above, trustedzone |
| payload executor, bucket client | `S/etny_exec.js`, `S/swift_stream_service.js` | none | run the payload; put, get, exists | ESR, node |

The two JavaScript copies of `image_registry.js`, `public_key_service.js` and
`ipfs.mjs` (under `nodenithy/` and `pynithy/`) are identical, and
`pynithy/run.js` takes the same steps in the same order as `nodenithy/run.js`.
One model stands for both.

### What is hard

* **Publishing is rerun** after it failed, was killed or lost a receipt between
  any two of its steps, against registries that keep what the earlier run wrote
  and files that may be the earlier run's.
* **Registries are read through nodes that lag**: a read, the simulation of a
  write and the write itself may see different blocks.
* **The image must not be seen before its name is bound**, yet it must be
  fetchable from the moment it is registered, from a container that the publish
  itself owns.
* **Two parties queue one extraction**: the service's watcher, which sees the
  registration, and the client, which submits when the watcher does not.
* **Commands share `.env` and docker**, which a developer edits between them.
* **The enclave never sends a transaction.** A commit signs an authorization and
  stages it; `commit()` then returns. The node relays it later, before or after
  authorizations of other orders, or never, and a rejection is never reported
  back. Until then the task answers its own reads from memos.
* **Several orders run at once** as the same enclave on the same keys; the
  contract's version check is the only thing that orders them.
* **One payload may overlap calls** (`Promise.all`), and the memos are plain
  assignments made several awaits after the values were read.
* **Every await may fail**, after the ledger grew and before the memos did.
* **Sessions**: a handler that hangs is abandoned but not stopped; the clock is
  read once and used after awaits.
* **The end of a task**: the payload's code may outlive it, puts of the one
  ledger file overlap, and the answer is put without waiting.

### What makes each part correct

* Project commands: what is handed to the publish is never of two builds and made
  for its network; a build nobody edited passes the gate; a session name is not
  used again until `VERSION` is set.
* Publishing: a rerun completes what an interrupted run began; success means
  everything is on chain; a record never mixes builds; nothing is disclosed
  before the name is bound; a publish that saw its image registered keeps its
  source until the certificate is on chain.
* CAS: the session a certificate is harvested under is on chain; the published
  compose does not depend on which validator answered.
* IPFS: the CID that is published is the tree's, and IPFS holds it; what a
  download leaves is the content, or one of two things went wrong.
* Certificates: a reported failure is this extraction's; an image the watcher
  queued is not submitted again; publishing again ends with the certificate.
* Task commands: exit code 0 is no failure the runner told of; the order names the network's images
  and zone; every run ends; a task that runs alone sees its own caller.
* ESR: no update is lost, the ACL that was checked is the one in force, a pinned
  nonce is used once, the nonce in the blob is the registry's, what was
  acknowledged lands, results never go back, the commit limit holds.
* Sessions: each input is handled once and in order, no two handlers run at the
  same time, the session ends, its summary is true.
* Securelock: an order ends, with its whole answer or for a known cause; the
  staged ledger and the attested one agree.

## 2. Modules

| module | what it is |
|---|---|
| `PublishFlow`, `PublishFlow_proofs` | the publish with everything it writes to: the composition of the next four |
| `ImageRegistry` | the image registry's operations as relations between its states |
| `SessionRegistry` | the on-chain session registry's operations, likewise |
| `LocalKubo` | the publish's own container: start, adds, release |
| `CasResolver` | which CAS a publish names |
| `CertClient`, `CertClient_proofs` | the client of the extraction service, with the service and its watcher |
| `IpfsClient`, `IpfsClient_proofs` | the child processes that hash, add, pin and download |
| `CasConfig` | the tables of the networks and the functions on them |
| `Project`, `Project_proofs` | `ecld-init`, `ecld-build`, and `ecld-publish` up to where `PublishFlow` begins |
| `TaskRun`, `TaskRun_proofs` | `ecld-run`, `ecld-test` and its local server, the front end's settings |
| `EsrAcl` | the access-control list: `canRead`, `canWrite`, the claim of an unowned key, the owner's operations |
| `EcldState`, `EcldState_proofs` | tasks, their overlapping calls, the node and the contract |
| `EsrRegister` | abstract: a register per key whose commits take effect at the latest when they return |
| `EcldRegister` | the refinement mapping from `EcldState` to `EsrRegister` |
| `MCEcldState` | the constants of `EcldState`'s runs |
| `SessionExec`, `SessionExec_proofs` | one interactive session: the loop, the payload's handlers, the clock, the trustedzone's objects |
| `SecureLock`, `SecureLock_proofs` | one order in the securelock, with the bucket, the payload's commits and their ledger |

`PublishFlow` `INSTANCE`s `ImageRegistry`, `SessionRegistry`, `LocalKubo` and
`CasResolver` over its own variables, so that one step of the publish is a
conjunction of the registry's relation and what `run.js` makes of the answer.
`Project` and `TaskRun` extend `CasConfig`.

### `PublishFlow` and the code

| variable | code |
|---|---|
| `network`, `own`, `token` | the kind of registry `BLOCKCHAIN_NETWORK` and `isV2` lead to, whether `IPFS_ENDPOINT` is the application's own, `IPFS_TOKEN` |
| `build`, `withCerts`, `esr`, `heap` | `VERSION` and `ENCLAVE_NAME_SECURELOCK`; whether the certificate files are in `registry/`; the ESR setting; `MEMORY_TO_ALLOCATE`, as built or edited |
| `pc`, `succeeded` | where `main` awaits or waits for a child; whether the last publish of this build said it was done |
| `img`, `compose`, `ipfsFile`, `cert` | `IPFS_HASH`, `IPFS_DOCKER_COMPOSE_HASH`, the file, the certificate harvested |
| `predecessor`, `posted`, `opens` | `PREDECESSOR_HASH_SECURELOCK` as `.env` has it (absent, `EMPTY`, with its `$$$%$` separators or with them collapsed), the sessions of the Scontain CAS, what `key.pem` may update |
| `ownHolds`, `pinned`, `kubo` | what the application's endpoint, the public API and the container hold; the container's peer id |
| `serving` | `localKubo.serving` |
| `images`, `nameOwner`, `channels`, `sessions` | the contracts' storage; `lagging`, `laggingSessions` what the slowest node has seen |
| `active`, `zone`, `moved` | the active validators; the trustedzone session the image registry records; history: whether these or the heap changed |

The kinds of network are `testnet` (two-step registry and CAS validators),
`self` (two-step, no CAS), `selfV1` (V1, no CAS) and `mainnet` (V1 and the
Scontain CAS). A build stands for its tree, its session name and its enclave; a
tree's CID is the build and whether the certificates were in it; a compose is
the build with what is rendered into it: the CAS, the trustedzone session and
the heap.

The order of the steps is the code's: on mainnet `PostSession` comes first. On a
two-step registry `Render`,
`HashForIpfs`, `Register`, `Reward`, `Upload`, `RegisterSession`, `WaitVisible`,
`Harvest`, `CopyCerts`, `SetCert`, `LinkImage`, `Finish`; on V1 `Upload`, `Pin`,
`Harvest`, `CopyCerts`, `UploadAgain`, `AddImage` under `v3` and under the
version, `RewardV1`. A call that takes `told` is sent and takes effect, is refused, or takes
effect without a receipt (`told = FALSE`), which ends the publish. `Fails` is
any `process.exit(1)` or uncaught error, on which `release` runs; `Killed` is a
signal, on which it does not. `Publish` from `idle` is the user's next attempt.

`writeEnv` is modelled by what it does. It hands its value to `String.replace` as
a replacement, in which `$$` stands for `$`: the first predecessor is appended to
`.env` as it is, and every later one replaces the line and loses its separators
`$$$%$`. The publish after that splits nothing, takes the project for another one
and makes a new key (`KeyOpens`); the session its predecessor created then refuses
it for ever (`Blocked`). A POST answered without a hash writes `EMPTY` and ends the
publish. `Reinstall` is the other way to lose the key: it lives in
`node_modules`.

Abstractions: the prompts before `run.js`, the funds check and the availability
check are left out; nodes are the chain and one node that lags; a second
project or wallet is `NameTaken`; both views catch up together and a build takes
longer than they lag; on V1 the reward address is a flag of the image.
`ECLD_CAS_ADDR`, which replaces both CAS addresses of a compose, is unset, as in
the code's defaults. The Scontain CAS is modelled by the rule `run.js` states of
it, that the key which created a session may update it; whether it also compares
the predecessor's hash is not. A predecessor is reset when name *and* version
differ (`run.js:324`): of one project that is only so when the separators are
gone. The name, the version and the session name are not edited between a build
and its publishes here; `Project` has those edits.

### `Project`, `CasConfig` and the code

`env` is `.env` field by field; `securelock` and `trustedzone` are the images in
the docker daemon, `store` the `registry` container, `dir` the directory
`registry/`, `handed` what `run.js` holds after the match-gate. `pc` goes
through `Steps`: Pynithy checks the network first, and each build step fails or
is killed between any two. `docker cp` copies file by file: `CopyStore` may break
off and leave any part of the images (`PartsOf`). `Edit` is the developer changing
the backend or `.env` between commands, `PROJECT_NAME`, `VERSION` and
`ENCLAVE_NAME_SECURELOCK` included; `touched` says it happened since the last
build that completed, or that a copy broke off. An enclave's measurement is its
image with the heap it runs with.

Of `payloadLint.mjs` the model has the verdict alone: a backend is flagged or it
is not, and a flagged one ends the build or does not. It does not where the lint
fails, which `build.mjs:174-177` skips: that is every installed SDK, because
`package.json` does not list `payloadLint.mjs` under `files`, so the `import`
throws. So nothing is claimed of the source a build seals.
`CasConfig` copies the tables of four files; image names are pairs of a name and
the `-unsafe` suffix.

### `CertClient`, `IpfsClient`, `TaskRun` and the code

`CertClient`: time is counted in polls; `row` is the service's record, `lag` how
long the service still answers the record of the run before; `waited` and
`submittedAt` are the two clocks of `queueImage` and `main`, up to their grace.
The watcher may queue a registered image at any time or never.

`IpfsClient`: one `job` after another is a child process of `run.js`. `hundred`
and `timer` are the two events that start a request's body, `attempt` and
`phase` the retry loop, `wrong` counts answers that were cut short or broke off,
`files` and `env` are where `run.js` finds the CIDs. The answer of an add is a
sequence of lines that `parseRootHash` and the upload of a file read. A download
is cut into chunks by the API, and each is decoded by a `TextDecoder` of its own
(`ipfs.mjs:397`): `decode` gives its text, or `Garbled` when it begins or ends
inside a character or is a view of a larger buffer. `clean` is history: every
chunk gave its text and no attempt that failed had written before.

`TaskRun`: `outcome` is what settled the race in `run.js`, `taskCode` the code
the runner then knows. Nothing is assumed of the runner: it may tell an end
without a code, of which `reportRun` makes exit code 0 when no error was told
(`runReport.js:17-42`), although `run.js:37` promises 0 on a SUCCESS result and 1
otherwise. The registries of `CasConfig` are, as in `cas/config.js`, addresses;
which chain one is on is nowhere in the source; `taskCaller` is the global of `ecld_state.js` that every
request of the test server sets, `overlapped` the requests that ran beside
another.

### `EcldState` and the code

A *task* is one run of the securelock with the module variables of
`ecld_state.js`; a *fiber* is one pending call of its payload. One fiber is a
payload that awaits every call, and every Python payload (`ecld_state.py` is
synchronous).

| variable | code |
|---|---|
| `chain[k]` | the contract's entry of the key for this enclave: object, version, nonce, relay nonce |
| `staged` | authorizations the node finds in `esr.authorizations.json` or `esr.commit.*.json` |
| `ledger[t]` | `_esrLedger` |
| `nonces`, `writes`, `relayNonces`, `results` | `_taskNonces`, `_taskWrites`, `_taskRelayNonces`, `_taskLedger` |
| `op[t][f]` | the locals of the pending `_commitTransform` / `_readContainer` and where it awaits |
| `landed`, `acked` | history: what the contract accepted, in order; what `commit()` returned for |

A step ends where the code awaits the chain or the bucket. One call goes through
`Invoke` (permission of an anonymous owner operation, commit limit), `ReadState`
(`getState`, own memo preferred), `CheckNonceCopy` (object fetched and its nonce
compared), `Deliver` for a read, or `ReadNonce` (pinned nonce, permission, new
container), `ReadRelayNonce`, `Sign` (the ledger grows), `PutLedger`,
`PutCommit` (memos). `Fail` is any await that throws: nothing is undone, which is
what the code does. A view that fails inside the `try` of a commit (the relay
nonce, the digest) may be retried: an error of ethers says `version=providers/...`
in its text, which `ecld_state.js:693` takes for a version mismatch. So `Fail`
there ends the call or starts it `Again`. `Relay` is the node and the contract.

Abstractions:

* A container's data is the identity of the container it was computed from
  (`parent`): that is what a lost update is about. Its CID is the random nonce
  `encrypt` draws (`iv`), so two blobs never have the same CID.
* Containers always have the wrapped shape, because a commit always carries a
  nonce; objects written by older builds are left out.
* A malformed pointer, an object that does not match its CID and an object that
  is not staged in time throw: they are `Fail`.
* `mutate` is part of `ReadNonce`: nothing is read or written between its answer
  and the puts of the blob. A payload that awaits something in `mutate` is
  covered, since the other fibers may do all their steps between `ReadNonce` and
  `ReadRelayNonce`, and before `ReadNonce`.
* A pinned nonce 0 is refused one step later than in the code, with the same
  outcome and no effect.
* The contract is modelled from `applyCommit` (version, nonce) and from the
  relay nonce argument of `commitDigest`: the relayed number has to be the
  contract's, which then moves on. A rejected transaction leaves no trace.
* `LocalApply` is the emulator: the commit is applied inside `PutCommit` and a
  version mismatch goes back to `ReadState`. Elsewhere the contract's refusal never
  comes back, so what is retried is a chain view that failed (`Fail`).

### `SessionExec` and the code

| variable | code |
|---|---|
| `pc` | where `run()` or `handle()` awaits |
| `now` | the local of that name: the clock as the round read it |
| `nextSeq`, `processed`, `unprocessed`, `reason` | the fields of those names; `seen` is `nextSeq`, plus one while an input is handled |
| `outputs` | the envelopes `emit` pushed; `emitted` is its length |
| `result`, `ready` | what `runSession` returns; `session.ready` |
| `handlerSet`, `running` | what `resolveSessionHandler` finds; the promises `work` that have not settled |
| `clock`, `timer` | `Date.now()` since the session began; what remains of `sleep(budget)` |
| `inbox`, `control` | `session.input.i`, `session.control`: absent, without a signature yet, signed |
| `back`, `arrived` | history: by how much the clock was set back, when an input's data arrived |

`LoadConfig` is `runSession`, `InitialRun` and `SetupFails` the payload's first
run, `Top`, `CheckControl`, `CheckInput`, `NotVerifiable`, `Wake` the loop,
`RejectInput`, `CallHandler`, `Abandon` and `Settle` the branches of `handle`
with the `emit` that follows. `LateSettle` is the promise that lost the race,
`AssignHandler` any code of the payload that is still alive.

Abstractions:

* An object is read in one step, data and signature: objects only become more
  complete, so what the two awaits see is what one step sees at the second.
* One time unit is longer than the 2 s sleep and than the difference between the
  resolutions of timers and of `Date.now()`. The clock is not followed beyond
  `MaxTime`, when every comparison has been decided; timers go on.
* Two clocks: `Date.now()` follows the host, which may set it back
  (`MaxSteps`); timers do not. The Python executor uses a monotonic clock,
  which is `MaxSteps = 0`.
* Signing does not throw, and the puts of outputs are started, not followed.
* A handler or a first run that computes for ever without awaiting stops the
  whole process and is left out.

### `SecureLock` and the code

| variable | code |
|---|---|
| `order`, `staged` | whether the order is a session and its checksums match; what the trustedzone has forwarded |
| `pc` | where the top-level `execute`, `EtnySecureLock.execute` or `saveResult` awaits |
| `keyReadable` | whether `privateKeyMaterial()` still leads to a key |
| `casFault`, `metadata`, `tzKey` | `cas_attestation_fault`, `_metadata`, `trustedZonePublicKey`: set or not |
| `binding`, `caller`, `mode` | `task_binding`, `task_caller`, `sessionMode` |
| `outcome`, `attested` | `task_code` with the kind of `task_result`; the `commits` of its envelope |
| `calls`, `ledger`, `floating` | where each commit awaits in `_sendCommit`; `_esrLedger`; whether code of the payload outlives it |
| `puts`, `ledgerFile`, `files`, `bucket` | puts on their way; `esr.authorizations.json`, `esr.commit.*.json` and the answer's objects in the bucket |
| `missed` | history: what was looked for and not found, or put and not told |

`ReadEnv`, `Create` and `WaitForPayloadAndInput` are the top-level `execute`,
`LoadMetadata` to `Return` the method, `Restamp` and `Attest` its end,
`SaveResult` and `PutResult` `saveResult`. `SendCommit` is a commit of the
payload up to its first put. A put settles in a step of its own: told or not,
and, when not, in effect or not.

Abstractions:

* The five attempts at the metadata are one, and payload, input and their
  signatures are read in one step: whichever is missing, the order ends alike.
* A view or a look fails, or the object is absent, by one choice. Objects with a
  wrong signature are taken for absent ones.
* The truncation of the key's file is decided when it is started: nothing uses
  the key before the wait for the payload, or before the answer to an error of
  `create` itself, which `reportFailure` gives.
* A session's result is a text: a summary is no `ecld` envelope, so nothing is
  attested in it (`attachTaskAttestation`). What happens inside is `SessionExec`.
* The version and relay nonce of a commit are `EcldState`'s. Here a commit is the
  entry it adds and its two puts.
* `process.on('unhandledRejection')` keeps the process alive when a put that
  nobody awaits fails (`securelock.js.tmpl:29-34`), so no failure cuts off
  another put.
* `securelock.py.tmpl` differs: it loads its key before it truncates the file,
  awaits its puts, and its payload has no overlapping calls.

## 3. Runs

| run | module | instance | shows |
|---|---|---|---|
| `publish` | `PublishFlow` | all four kinds of network, own endpoint or Kubo, token or not, 2 builds, 1 fault, 1 change (a setting, the heap, the validators, the trustedzone, a reinstall, the name), 2 validators, fair | `CertificateIsItsBuilds`, `BoundBeforeDisclosed`, `RerunsRenderTheSameCompose`, `SuccessIsComplete`, `HarvestFindsItsSession`, `KeptUntilCertified`, `RerunsComplete` |
| `certs` | `CertClient` | the client's own grace periods in polls, polls one late, 2 failed extractions, 2 failed requests, fair | `WatchedIsNotPosted`, `FailureIsReal`, `EventuallySaved` |
| `ipfs` | `IpfsClient` | the client's own 10 and 5 attempts, a file of 2 chunks, fair | `BodyOnce`, `PublishedIsStored`, `DownloadIsWhole`, `ChildrenEnd` |
| `project` | `Project` | 4 networks (with a CAS of either kind, without, unsafe), 2 names, 2 heaps, 3 versions, one change between two commands | `HandedIsOneBuild`, `BuiltForItsNetwork`, `UneditedBuildPublishes`, `NamesAreNew` |
| `tasks` | `TaskRun` | every network, 2 callers, 3 requests, fair | `ExitZeroMeansSuccess`, `RunsItsNetworksZone`, `AloneSeesItsCaller`, `EveryRunEnds` |
| `two` | `MCEcldState` | 2 tasks, 1 key, 2 calls of `get`/`commit` each, any await fails or is retried, at most 2 commits per task | `ChainReadsKeepUpdates`, `LossOnlyBehindOwnRefusal`, `NonceCopyAgrees`, `ResultsAdvance` |
| `acl` | `MCEcldState` | 2 tasks of different callers, 2 calls of every kind, one pinned | `ChainReadsRespectAcl`, `PinnedNonceUsedOnce` |
| `local` | `MCEcldState` | the emulator, 3 overlapping calls, plain and pinned | `NoUpdateLost`: here the retry is real |
| `alone` | `MCEcldState` | 1 task, 2 keys, 4 calls, fair | `ImplementsRegister`, `AckedCommitsLand` |
| `lost` | `MCEcldState` | 2 tasks, 2 commits each | *violated:* `NoUpdateLost` |
| `order` | `SecureLock` | plain tasks and sessions, valid or not, any read, view and put failing, 2 commits that overlap or outlive the payload, fair | `SettledIsAttested`, `OrderAnswered`, `OrderEnds` |
| `session` | `SessionExec` | period 3, cutoff 2, grace 1, cap 2, 2 inputs, requests fail, clock set back once, fair | `AnsweredOnceInOrder`, `AbandonedIsLast`, `HandlersDoNotOverlap`, `SummaryTruthful`, `SessionEnds` |

Deadlock is not checked where the system may stop: payloads stop calling, the
last build is published, a command or an order has ended, a server waits for
requests. The type invariants of `CertClient`, `EcldState`, `IpfsClient`,
`SecureLock` and `SessionExec` are proved (section 4); those of `PublishFlow`,
`Project` and `TaskRun` hold on the instances above, whose configurations do not
repeat them.

### Bounds

* `publish`: two builds are the fewest where a rerun can meet what another build
  left in files, containers and registries. One fault at any step already
  covers every single interruption and every lost receipt, and two publishes in
  sequence then rerun; nodes lag without counting as faults. One change covers
  whatever moved between two attempts; only the last build meets it. Of the
  validators those changes are made that move the published CAS, between two
  publishes, since a publish reads them in one step; and `Reinstall` only on
  mainnet, where what it takes away decides something beyond one publish. Two
  validators are the fewest where the first may not answer. `MaxFaults = 2` and
  `MaxBuilds = 3` are the next larger instances; the separators of a predecessor
  are lost within two builds, by the second write.
* `certs`: the service may answer an old record for as long as the whole
  resubmission grace, and two failures let a publish fail, run again and fail
  again.
* `ipfs`: the jobs are all of a publish's; a cat that breaks off at any chunk of
  two is a partial read of either kind.
* `project`: the four networks differ in CAS, attestation and safety; three
  versions are two builds and a failed one.
* `tasks`: three requests can overlap in a chain, so that the middle one
  overlaps both and the outer ones do not overlap each other.
* ESR: a lost update needs two tasks and, for the memo, two commits of one of
  them, of which each may fail at any await and, with the code's three attempts,
  start over. Three
  overlapping calls are the fewest where a retry is itself overtaken. Two keys
  in `alone` let relays of one key overtake those of the other. `Attempts` is the
  code's 3; `MAX_COMMITS_PER_TASK` is small enough to be reached.
* `order`: two commits are the fewest whose puts of the ledger can take effect in
  the wrong order; the re-stamping is a third. Every failure is possible at every
  await, with no bound on their number.
* `session`: a handler can be called in the first unit, at the cutoff and after
  the end of the period; two inputs are the fewest whose handlers could overlap,
  and the fewest that reach the cap.

### Fairness

* `publish`: `run.js` goes on while nothing fails and its user publishes again
  until it is done (a publish, a call or a step is weakly fair together), and a
  node does not lag for ever. Faults, changes and builds owe nothing.
* `certs`: the client polls on, the user publishes again, and the service ends
  every extraction it was given; the watcher owes nothing.
* `ipfs`: every request is answered or fails, and timers fire.
* `tasks`: `main` goes on, and the timer fires; the runner owes nothing.
* `alone`: every await of a chain view or a put ends, and the node relays *some*
  relayable authorization, because it serves its bucket. `Fail` and `Invoke` are
  not fair: nothing obliges a payload to call.
* `order`: every await of the securelock ends, because each is a request or a
  timer, the payload's first run included, and every put settles. The
  trustedzone owes nothing: it need never forward anything.
* `session`: the loop's own awaits end, because each is a request, a sleep or a
  timer, and time passes. Handlers and the trustedzone owe nothing.

### What `RerunsComplete` excepts

`Blocked` is what no rerun of the same build can complete, each from a guard of
the code: the name belongs to another wallet; on V1 with an own Kubo there is no
token for the public API; the image is registered with a compose that is
rendered no more (the published CAS, the trustedzone or the heap changed after
the registration), or the heap is not the one a CAS-attested enclave was signed
with; an ESR setting that was changed and changed back meets its own older version, which
the contract refuses as a duplicate; the Scontain CAS has a session of this name
from a key that was replaced (its predecessor reads `EMPTY`: the POST took effect
and its answer was lost or had no hash, or it is the second or a later one and
its separators are gone; or the SDK was installed again).

### What the violation means

* `lost`: `_readContainer` answers a second commit of a task from the memo of its
  first. If another task's commit takes that version, the first is refused, and
  the second carries the version and relay nonce the other commit just produced:
  it is accepted and replaces it, data and ACL. `LossOnlyBehindOwnRefusal` in
  `two` shows this is the only way.

### Further instances

These properties are defined in the modules and violated on the instances given;
the runs above do not repeat them. Each differs from `MCEcldState_lost.cfg` (or
the module's own configuration, where one is named) in the constants given.

| property | instance | meaning |
|---|---|---|
| `NoAcknowledgedCommitRefused` | `MaxCalls = 1` | `commit()` has returned when the contract refuses; the retry its comment promises never happens |
| `NoFalseTamper` | `Calls <- GetCommit` | a commit that lands while an honest reader fetches makes it throw a nonce mismatch |
| `CommitCap` | `Tasks = {t1}`, `Fibers = {1, 2}`, `MAX_COMMITS_PER_TASK = 1` | overlapping commits pass the limit before either is counted |
| `NonceCopyAgrees` | `Tasks = {t1}`, `Fibers = {1, 2}`, `MAX_COMMITS_PER_TASK = 4`, `MaxCalls = 4` | a slow commit that ends last lowers the memos; later blobs carry a nonce the registry does not store |
| `OwnerOnlyAclMutation` | two callers | a commit built on an unrelayed claim replaces the ACL of the caller whose claim landed |
| `NeverStopsASource` | `PublishFlow`, `Networks = {"self"}`, `MaxBuilds = 1`, `MaxChanges = 0` | `serving` is set when the child that registers the image has returned. If its transaction landed and the child then fails, or if a rerun that took over the kept Kubo fails before its own registration has returned, `release` stops the Kubo a record names, against the comment at `localKubo.js:81`. A publish that got past its registration keeps it (`KeptUntilCertified`), and a rerun recovers (`RerunsComplete`) |
| `KeyKept` | `PublishFlow`, `Networks = {"mainnet"}`, `MaxFaults = 0`, `MaxChanges = 0`, `MaxBuilds = 3` | the second predecessor is written without its separators (`run.js:51`, `461`), so the third publish reads `EMPTY` and replaces the key, against the comment at `run.js:370` |
| `HandedIsWhole` | `Project`, `Projects = {"app"}`, `Networks = {"IoTeX_Testnet"}`, `Heaps = {1024}`, `MaxVersion = 2`, `MaxChanges = 0` | a build that is killed in `docker cp` leaves a part of `registry/`, which a publish measures, finds in order and uploads |
| `DownloadIsContent` | `IpfsClient` | a download keeps what a failed attempt received, and a character split over two chunks is lost; the child succeeds all the same |
| `KeyOutlivesItsFile` | `SecureLock` | in PRODUCTION under a CAS the key's file is truncated before the key was loaded, against the comment at `securelock.js.tmpl:725`; the handover then fails as `SIGNATURE_ERROR` and only the unsigned result is put |
| `RelayedIsAttested` | `SecureLock` | a commit the payload did not await is relayed although the envelope was attested before it |
| `LateInputNotTaken` | `SessionExec`, 1 input | the cutoff is compared with the clock as it was before two awaits |

## 4. Proofs

### `CertClient`

`CertClient_proofs` proves, from `CertAssumption`, for any grace periods, any
lag that fits the resubmission grace, and polls that come any number late:

| theorem | statement |
|---|---|
| `TypeCorrect` | `Spec => []TypeOK` |
| `WatchedNotPosted` | `Spec => []WatchedIsNotPosted` |
| `FailureReal` | `Spec => FailureIsReal` |

The inductive invariant `IInv` relates the service's lag with the client's
clock: while the old record is still answered, `lag + submittedAt` is at most
`AnswerLag`, so a client that is past its grace no longer meets it
(`FailureReal`). A client that submits after waiting has either seen no record
at its last look or a failed one (`WatchedNotPosted`).

### `TaskRun`

`TaskRun_proofs` proves, from `TaskAssumption`, for any requests and callers:

| theorem | statement |
|---|---|
| `ZeroIsSuccess` | `Spec => []ExitZeroMeansSuccess` |
| `AloneIsTold` | `Spec => []AloneSeesItsCaller` |
| `RunsTheZone` | `Spec => []RunsItsNetworksZone` |
| `TablesAgree` | `TablesConsistent`: what the tables of `CasConfig` say of one network agrees |

`ExitInv` ties the exit code to the code and the outcome it was made of, whatever
the runner told. `CallerInv`
adds that while one request runs alone the global is its caller; the next to
start marks both as overlapped. `ZoneInv` says that an order was made by
`OrderOn` for a network the command may run on; the rest is about the tables,
which are read row by row (`Images`, `Chains`, `Registries`, `Runners`, ...): a network is
found again from the runner's entry (`NetworksApart`), and an `-unsafe` variant
has its sibling's template with the suffix (`ImagesOfVariants`).

Only model-checked: `EveryRunEnds`.

### `EcldState`

`EcldState_proofs` proves, for any sets of tasks, fibers, keys, callers and
calls and any bounds, from the assumptions `EcldStateAssumption` and
`NoneIsNoCaller`, and from what the table states:

| theorem | statement |
|---|---|
| `TypeCorrect` | `Spec => []TypeOK` |
| `PinnedNonceOnce` | `Spec => []PinnedNonceUsedOnce` |
| `ChainReadsNeverLose` | `Spec => []ChainReadsKeepUpdates` |
| `ChainReadsAclInForce` | `Spec => []ChainReadsRespectAcl` |
| `LossBehindOwnRefusal` | `Spec => []LossOnlyBehindOwnRefusal` |
| `LocalNeverLoses` | if `LocalApply`: `Spec => []NoUpdateLost` |
| `SequentialResultsAdvance` | one fiber per task, node relaying: `Spec => ResultsAdvance` |
| `SequentialCap` | one fiber per task, node relaying: `Spec => []CommitCap` |
| `SequentialNonceCopyAgrees` | one fiber per task, node relaying: `Spec => []NonceCopyAgrees` |
| `LoneImplementsRegister` | `LoneTask`: `Spec => ImplementsRegister` |

Along which argument:

* `TypeInv` adds to `TypeOK` that a pending call is one of `Calls`, that only a
  committing call gets past the read, and that a fiber's authorization is in its
  ledger; without the last the type of `PutCommit`'s authorization is unknown.
* `Lockstep`: version, nonce and relay nonce of a key all count its accepted
  commits, and a pinned nonce is its commit's position. That is
  `PinnedNonceOnce`.
* `FreshInv`: whatever was computed from a container read from the chain, in a
  fiber or signed, carries a version that is not ahead of the chain, and while
  the versions are equal the container is still the chain's and the ACL was
  respected. The contract accepts only equal versions. This is why the memo case
  is excluded: a memo's version is ahead of the chain.
* `NonceInv`: the nonce in a blob lies between the version it replaces and its
  relay nonce, plus one, and the memos are ordered the same way. The contract
  accepts only when both bounds are its own counters. With overlapping calls the
  memos can be lowered and the property fails ("Further instances").
* `CapInv`: a call on its way to sign was let in below the limit and, being
  alone, still is.
* `MemoInv`: whatever was computed from a memo, in a fiber, signed or accepted,
  descends from an acknowledged commit of the same task, one version earlier. If
  that is not what it replaced, the version it was made for was taken by another
  commit, so it can never land: `LossBehindOwnRefusal`.
* `LocalInv`: where a commit is applied by the step that writes the memo, no memo
  is ahead of the chain, so nothing is computed from one, and `LandedFresh`
  covers every commit.
* `ReportsInv`: what was reported of a key is no newer than what the next read
  starts from, and a call on its way carries a version no older than it.

* `LoneInv`, of one task with one fiber whose awaits do not fail (`LoneTask`):
  what it authorized for a key are the key's versions one by one, each with a
  container of its own; the memo is the last of them unless one is being stored;
  the chain shows one of them, so it is behind the memo, equal to it, or shows
  what is just being stored. Hence a relay is a stutter of the register, or,
  before the call has returned, its `Commit`; the return of the call is the
  `Commit` or, after such a relay, a `Report`. With failing awaits the refinement
  is not claimed: a commit that failed after it was staged may still land.

Only model-checked: `AckedCommitsLand` (liveness under fairness is out of the
prover's reach).

### `SessionExec`

`SessionExec_proofs` proves, from `SessionAssumption`, for any period, cutoff,
grace, cap and number of inputs:

| theorem | statement |
|---|---|
| `SessionTypeCorrect` | `Spec => []TypeOK` |
| `InputsAnsweredOnce` | `Spec => []AnsweredOnceInOrder` |
| `SummaryHolds` | `Spec => []SummaryTruthful` |
| `OnlyLastAbandoned` | if the delays fit a timer: `Spec => []AbandonedIsLast` |
| `HandlersAlone` | if the delays fit a timer: `Spec => []HandlersDoNotOverlap` |

* `AnswersInv` adds that nothing that is not due yet was answered or reported;
  pushing an answer and reporting the due input then keep the property.
* `HandlerInv`: while the clock has not been set back, the clock and what
  remains of the budget add up to at least the end of the period. The budget is
  chosen so (`BudgetReachesClose`), and a unit of time moves one to the other.
  So a handler is abandoned after the period, and the next round is the last.
  `Countable` is needed because `setTimeout` turns a delay above 2^31 - 1 ms
  (24.8 days) into 1 ms, and the clock must not go back because the budget is
  computed from it and the timer is not.
* `SummaryInv`: the round's clock reading is never ahead of the time and an input
  that is looked at is within the cap.

Only model-checked: `SessionEnds`.

### `PublishFlow`

`PublishFlow_proofs` proves, from `PublishAssumption`, for any number of builds,
faults, changes and validators and every kind of network:

| theorem | statement |
|---|---|
| `InvHolds` | `Spec => []Inv`: the inductive invariant of the next two |
| `BindsFirst` | `Spec => []BoundBeforeDisclosed` |
| `CertifiesItsBuild` | `Spec => []CertificateIsItsBuilds` |
| `SameCompose` | `Spec => []RerunsRenderTheSameCompose` |
| `KeepsItsSource` | `Spec => KeptUntilCertified` |
| `HarvestsWithItsSession` | `Spec => []HarvestFindsItsSession` |
| `SuccessCompletes` | `Spec => []SuccessIsComplete` |

* `Inv` is `StateInv`, about what outlives a publish, and `RunInv`, about the
  publish that runs. `Bound` says what a lagging node may be trusted with: it is
  never ahead of the chain, so an image it shows as registered is, a registered
  image has its name, and what was stored or posted was registered before.
  `BoundSteps` carries the registration from its receipt to the upload;
  without it an upload could not be told from a disclosure.
* `CertSteps` carries the build from the upload to the certificate: the `.ipfs`
  file that `main` harvests with was written by this publish, not by the one that
  was interrupted.
* Each registry operation has a lemma of its own (`RegisterImage`, `SetReward`,
  `SetImageCert`), each group of steps one about what it leaves alone
  (`Resting`, `Recording`, `Storing`, `Ends`).
* `ComposeInv` (while nothing moved, records and the compose in hand are what is
  rendered now: a compose is a function of the build, the validators, the
  trustedzone and the heap, and of nothing a publish chooses), `Serves` (from the
  registration to the certificate `serving` is set, so `release` keeps the Kubo)
  and `SessionInv` (the body in hand is on chain from `WaitVisible` on; a lagging
  node never shows a body that is not) are inductive given `Inv`.
* `SuccessCompletes`: a publish learns of its own writes from nodes that lag.
  `RecordsGrow` says that a lagging node shows an earlier state of a record, and
  that an owner, a certificate and a reward address that are there stay as they
  are; so a call that was answered with success had its effect, and a later call
  does not undo it.
* `RecordedSteps` says by the step the publish is at what its image's record has
  by then; `ChannelInv` that on a one-step registry the channel of the image
  ends with it; `LinkedInv` that the session has the body, then the link;
  `GoneInv` that the container goes with the last step; `PostedInv` that mainnet's
  session is posted. Each is inductive given `Inv` and `SessionInv`.
* `SettingTypes` has the types of the heap and the trustedzone session, which a
  compose is made of.

Only model-checked: `RerunsComplete`, which is liveness.

### `Project`

`Project_proofs` proves, from `ProjectAssumption` and `RecordAssumption` (that
`None` is no network, heap or record), for any of the networks, any heaps and
any number of builds, failures and changes:

| theorem | statement |
|---|---|
| `InvHolds` | `Spec => []Inv` |
| `HandsOneBuild` | `Spec => []HandedIsOneBuild` |
| `BuildsForItsNetwork` | `Spec => []BuiltForItsNetwork` |
| `UneditedPublishes` | `Spec => []UneditedBuildPublishes` |
| `NamesAreNeverReused` | `Spec => NamesAreNew` |

* `DirInv` is why a publish cannot mix two builds: a build removes `registry/`
  before it touches an image, so while the directory exists, all or a part of it,
  the docker daemon has the images it was copied from, and the session name in
  `.env` is theirs unless the developer wrote another.
* `BuildInv` says of each step what those before it have established. The two
  services order their steps differently, and the invariant names the steps of
  each.
* `NameInv`: the names in use carry versions below the one a running build has,
  because `VERSION` is advanced before anything else.

### `IpfsClient`

`IpfsClient_proofs` proves, from `IpfsAssumption` (there are attempts and
chunks, and `None` is no CID), for any number of attempts and of chunks:

| theorem | statement |
|---|---|
| `TypesHold` | `Spec => [](TypeOK /\ PublishInv)` |
| `BodyIsWrittenOnce` | `Spec => []BodyOnce` |
| `PublishesWhatIsStored` | `Spec => []PublishedIsStored` |
| `DownloadsTheWhole` | `Spec => []DownloadIsWhole` |

* `BodyInv` ties the number of bodies of an attempt to `bodySent`, which both
  the continue and the timer look at.
* `CatInv` says that while `clean`, what was received is the content up to the
  chunk the running `cat` is at, and that once it is not, no further chunk makes
  it so again: it is too long, or holds a `Garbled`. At the last chunk the two
  cases are the two sides of `DownloadIsWhole`.
* `PublishInv` goes by the child that runs. `HashInv` has what the hash children
  printed, and that nothing is stored before both have; `FilesInv` that an
  upload finds no `.ipfs` file, since they are deleted before its first
  request; `UploadInv` what each upload left and how many short answers it took:
  a tree's hash is wrong only if an answer was cut short, and the comparison with
  the registered CIDs lets it pass only if the hash child's was too. `PinInv` is
  needed for the types: a pin takes its CID from a file.

Only model-checked: `ChildrenEnd`, which is liveness.

### `SecureLock`

`SecureLock_proofs` proves, from `SecureLockAssumption`, for any set of commits:

| theorem | statement |
|---|---|
| `SettledAttested` | `Spec => []SettledIsAttested` |
| `EveryOrderAnswered` | `Spec => []OrderAnswered` |

* `LedgerInv` is `TypeOK`, `PutsInv`, `PayloadInv` and `AttestInv`. A put of the
  ledger that is on its way has one owner who waits for it, so when all calls
  have settled only the re-stamping can still be on its way, and it carries the
  whole ledger (`PutsInv`). Unless code of the payload is left, nothing is
  pending from its return on (`PayloadInv`), so what is staged and attested then
  stays whole (`AttestInv`).
* `OrderInv` is `AnswerInv` and `ProgressInv`. What is put is the outcome that is
  still current, and of each of the four objects one is put or in the bucket
  unless a cause is on record; `ProgressInv` says how far an order that missed
  nothing has come, by the steps behind it. It is inductive given `LedgerInv`,
  which knows that only the re-stamping moves the order when a put settles.

Only model-checked: `OrderEnds`.

## 5. Plan

1. The order of a blob's own puts and the node's pinning.

## Not modelled

* In the securelock: the challenge of the CAS (`SecureLock` has its verdict), the
  run that only publishes the certificate, a payload that forges its caller, the
  copy of the result for the client; the put of `session.ready`, which is
  started and not followed.
* A first run of a payload that never settles, and a `getResult` that never
  answers: nothing in the code ends either.
* The cryptography (no state of its own), prompts, contents of templates, Docker
  and SCONE themselves, the example front ends, `info.js`, `postinstall.js`,
  `revert.js`. The Python files under `nodenithy/run` and `pynithy/run` are
  called by nothing.
* In the publish: `ECLD_CAS_ADDR`; the predecessor rule of the Scontain CAS;
  edits of the name, version or session name between a build and its publish; the
  availability check, which takes every
  error for a free name (`image_registry.js:597`); a private key that is typed
  again, which `run.js` does not inherit (`publish.js:107`); the mirror of the
  bootnode, which the Kubo may be stopped before (`run.js:770`); on V1, where
  nodes fetch the second tree from (`run.js:778`);
  `ESR_WALLET_ADDRESS.txt`, which is never deleted.
* In the project: versions that start again after another `ecld-init`
  (`init.js:407`) or edit, so `NamesAreNew` holds between two; what
  `payloadLint.mjs` finds; the ESR address
  that is edited after the build, which the match-gate cannot see
  (`cas/config.js:136`); session tags that two chains share
  (`cas/config.js:116`).
