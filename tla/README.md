# Connected Data Lake: verification of the operator and its data path

This directory holds TLA+ models of the Connected Data Lake, the TLC instances
that check them and the TLAPS proofs about them. Every definition is translated
from the source; `PROJECT.json` ("map") names the lines and ("hazards") what can go
wrong there.

## 1. Inventory

| Component | Source | State it keeps | Operations | Hard behaviour |
|---|---|---|---|---|
| ModelStorageBinding controller | `cdl-k8s-operator/src/ctx/model_storage_binding.rs`, `validator/model_storage_binding.rs` | the status of each binding: state, the model and storages it was last bound to, with their uids | finalize, bind, update (unbind + bind), delete | works on cached copies; two-phase update; bucket deletion by Job |
| ModelStorage controller | `ctx/model_storage.rs`, `validator/model_storage.rs` | state and kind of each storage | finalize, validate (provision), refuse or release | check-then-act over the list of storages and of bindings |
| Model controller | `ctx/model.rs`, `validator/model.rs` | state and parsed fields of each model | finalize, validate, refuse or release | check-then-act over bindings and claims; validates and records by cached copies |
| ModelClaim controller, optimizer | `ctx/model_claim.rs`, `validator/model_claim.rs`, `optimizer/model_claim` | state, storage and resources of each claim | create the model and a binding on the roomiest storage; delete both | waits for models by polling; status and spec patched separately |
| Operator framework | `cdl-k8s-core/src/k8s_operator.rs` | the watch cache and the queue of kube's Controller | run the four controllers, finalizers, requeue | lag, restart, requeue |
| Kubernetes storage client | `cdl-k8s-provider/src/kubernetes.rs` | none | load, list, create and delete the custom resources | filters by status |
| Object storage client | `cdl-k8s-provider/src/object.rs` | none here; buckets, quotas, remote targets, Jobs in MinIO and Kubernetes | create, sync, unsync, delete buckets; provision tenants | several calls per operation, pull = push with the ends exchanged |
| Object store cache | `cdl-store/src/lib.rs` | files of a local directory | read through, shrink | no invalidation; concurrent shrinking |
| Catalog | `cdl-catalog/src/lib.rs` | options | open and write tables | commits without a check for other commits |
| Dataset file system | `cdl-fs/src/lib.rs` | a batch builder | copy directories into tables of chunks and back | background task whose errors are dropped, bounded channel, order of chunks, files written in append mode, by writes whose errors may be dropped |
| FUSE mount | `cdl-fuse/src` | none | stubs | - |
| Interconnect pipeline | `contrib/cdl-ip-core`, `contrib/cdl-ip-linux-io-uring` | submission and completion rings | splice chains | out-of-order completions |
| CLI, Python, benchmark, charts | `cdl`, `python`, `benchmark`, `charts` | none | wrappers | - |

The paths are below `src/crates/` (`contrib`, `python`, `benchmark` and `charts`
below `src/`).

**How they interact.** The four controllers run in one process and never talk to
each other: each watches its own kind of resource and reads the others from the
API server when it reconciles. A binding names a model, a target storage and
possibly a source storage; reconciling it creates the model's bucket in the
target, replicates the source's bucket and records in the status what it did.
Deleting goes the other way: a storage or model refuses to go while a listing
shows a *Ready* binding on it. Buckets are deleted by a Kubernetes Job that the
binding creates and forgets. The data path (catalog, store, file system) reads
what the operator has recorded; it shares no state with it.

**What makes each correct.**
- Controllers: nothing is done for an object without the finalizer, or once its
  deletion is recorded; an object is released once, after its clean-up; a
  bucket or replication made for a binding is taken down again; a deletion is
  eventually carried through; a new spec eventually reaches the status.
- Claim: a claim ends up with one binding, and its deletion with none.
- Object storage client: what sync sets up, unsync finds and takes down.
- Fields of a model: what the parser accepts is a tree of fields; models that take
  over each other's fields agree.
- Cache: nobody reads back in time; the directory stays within its bound up to
  the objects in flight; a read fails only by another's doing.
- File system: a copy that reports success has copied everything, or an error was
  dropped and then a beginning of it, in order; and every copy ends.
- Pipeline: the bytes completed are the bytes submitted, in order.

## 2. Plan

1. (done) `ObjectLifecycle`, `StorageOperator`, liveness, inductive invariant,
   proofs: the life of models, storages and bindings, and of the buckets.
2. (done) `ClaimOperator`: claims on top of `StorageOperator`: the comparison of
   `is_changed`, the retries of `delete_model`, the mutual waiting of model and
   claim; proof that the other controllers see nothing new.
3. (done) `BucketSync`: the sync policies, remote targets, `inverted` sessions,
   Services and Job names of `object.rs`; two bindings that share buckets.
4. (done) `CachedStore`: the read-through cache with concurrent readers.
5. (done) `DatasetCopy`: chunks, the background task and its channel, commits,
   writing files back.
6. (done) `ModelFields`: the parser of a model's fields and models that refer to
   each other.
7. (done) Proofs for `BucketSync`, `CachedStore`, `DatasetCopy` and `ModelFields`: for
   each an inductive invariant, checked by its run, and the safety properties that
   follow from it.
8. (done) Proofs of `NoSilentLeak` and `NoDanglingReplication` of `StorageOperator`.
9. (done) Proofs of `ClaimLifecycle` and `ReadyClaimKeepsModel` of `ClaimOperator`.
10. (done) Lemmas about folds, and proofs that the rows and the simple files of a copy
    arrive and that the cache stays bounded.

`ClaimOperator` extends `StorageOperator`; the last four stand alone, each below
one call of the operator or the data path (see "How the modules fit").

## 3. Modules

| Module | Content |
|---|---|
| `ObjectLifecycle` | What the operator promises of one resource: created, protected, ready, deleting, gone. |
| `StorageOperator` | The three controllers, the resources, the buckets, and the properties. |
| `StorageOperatorLiveness` | Fairness and the two liveness properties. |
| `StorageOperatorInv` | The inductive invariant. |
| `StorageOperatorProofs` | The theorems and lemmas. |
| `ClaimOperator` | The fourth controller, that of claims, next to the three. |
| `ClaimOperatorLiveness`, `ClaimOperatorInv`, `ClaimOperatorProofs` | The same for claims. |
| `BucketSync` | Binding and unbinding of buckets, call by call, and the Jobs. |
| `ModelFields` | How a model's spec becomes its fields. |
| `DatasetCopy` | `cdl cp` between trees and datasets. |
| `CachedStore` | The cached object store. |
| `BucketSyncInv`, `ModelFieldsInv`, `DatasetCopyInv`, `CachedStoreInv` | Their inductive invariants. |
| `BucketSyncProofs`, `ModelFieldsProofs`, `DatasetCopyProofs`, `CachedStoreProofs` | Their theorems and lemmas. |
| `DatasetFlowProofs` | That a copy loses, doubles and reorders no row, and that simple files arrive. |
| `FoldLemmas` | What the folds of the community modules compute: sums, flattened sequences. |
| `MC...` | Small instances of each. |

**How the modules fit.** `StorageOperator` decides when a binding is bound and
unbound and takes `create_bucket` and `delete_bucket` as a few calls on `buckets`,
`links` and `jobs`; `BucketSync` takes the decisions as given (an attempt is repeated
until it succeeds, deletion may come at any time between attempts) and follows the
calls. `StorageOperator` takes a model's validation as one step; `ModelFields` is
that step, with the other models it reads. `DatasetCopy` and `CachedStore` are two
layers of the data path: the copy streams rows of a table, Lance reads the table's
objects through the store.

### StorageOperator and the code

`api` is the API server's copy of each resource, `cache` the copy of the
controllers' reflector, `snap` the argument `data` of a running `reconcile`,
`pc` the next call it will make, `ctx` what `load_context` has read, `queue` the
objects due for a reconciliation. `buckets`, `links` and `jobs` are what exists
outside: buckets, replications and bucket-deletion Jobs.

One action is one call to the API server or to an object storage, together with
everything the code does until the next call. So `LoadTarget` holds the comparison
that follows `load_context`, and `UnsyncBucket` the branch on the deletion
policy. Between two calls anything may happen: other reconciliations, users,
watch events, a failure (`Fail`), a restart (`Restart`). kube runs at most one
reconciliation of an object at a time; different objects interleave.

- A reconciliation that ends with `Action::requeue` puts its object back in
  `queue`; the delay is left out, so a requeue may be taken up at once or
  arbitrarily late. After `Action::await_change` only a watch event
  (`Watch`) does. The controllers watch their own kind only (no `owns` or
  `watches`), so a change of a storage never triggers a binding.
- A status that is absent is the same as the default `Pending`
  (`unwrap_or_default`). The status is written as a whole by `patch_status`
  without looking at what is there, which is why a stale copy is dangerous.
- Removing the finalizers of an object whose deletion was requested makes the
  API server drop it. Its name may be created again: `uid` counts incarnations.
- `update` compares the storages with their uids but the model by its spec only
  (`AfterLoad`, `SameState`); `delete` swallows an error of `load_context`
  (`LoadFails`, `LoadError`).
- `RunJob` is the script of the Job (`mc rb --force`), at any later time; a Job
  that finds no bucket fails and is tried again before it is given up, so it may
  also meet a bucket made after it.
- `Unlinked`: taking a replication down looks the remote target up first, but then
  deletes the whole replication configuration of the source's bucket.
- A model that may be claimed (`Claimed`) finds its claim in any state: here the
  claims are an environment that may do anything; `ClaimOperator` fills it in.

Abstracted: field parsing (`ModelFields`), provisioning of tenants, quotas and services
of buckets (calls that may fail, without effect on the properties); sync policies
(a clone replicates, an owned binding does not; `BucketSync` has them); `source_binding_name` (the
source's bucket is named after the model); a clone's replication is that of
pull Always and push Never; the second patch of
`update_state`, which carries `ownerReferences` beside `metadata`, where the
API server ignores it (its failure requeues like its success); edits of a
storage's spec; finalizers of other controllers.

### ClaimOperator and the code

`claim`, `claimCache`, `claimQueue`, `claimPc`, `claimSnap` are for claims what
`api`, `cache`, `queue`, `pc`, `snap` are for the other resources; `work` is what
a reconciliation carries along: the bindings it is deleting and the status it will
record. `OtherWork` is the other three controllers, whose `AssertEmptyClaims` now
reads the claim; `RestartAll` restarts all four, which are one process. A claim's
model and binding have the claim's name (`ModelOf`, `BindingOf`).

- Pending: `GetModel` (`load_model_or_create_as_dynamic`) goes on with a Ready
  model or creates one and goes on without waiting for it; a model that is not
  Ready is an error. `ListBindings`: a model that is bound already is enough, no
  storage is recorded. Otherwise `ChooseStorage` and `CreateBinding`.
- `update_fields` is two calls, `PatchClaimStatus` and `PatchClaimSpec`. The third,
  of `ownerReferences`, has no effect, as above.
- Ready: `IsChanged` is `is_changed` as it stands; resources and storage kind are
  taken as unchanged. A changed claim that allows its replacement (the default)
  fails with "Unimplemented yet!" and is requeued; otherwise `ListOld`, `DeleteOld`
  and then as if Pending.
- Deleting: with policy Retain the finalizer is removed; with Delete `FindModel`,
  `ListOld`, `DeleteOld`, `DeleteModel`. The three seconds between the last two are
  left out: anything may happen between two calls anyway.
- A creation fails when the name is taken and a deletion when it is not; the
  bound `MaxUid` on incarnations appears as such a failure.

Abstracted: which storage has the most room (any that has a kind may be chosen, or
none, and each measurement is a call); foreground and background deletion (the
dependents of models and bindings are none); the Replacing state, which nothing sets.

### BucketSync and the code

`phase` and `call` say where a binding's attempt is; an attempt that fails or is cut
off by a restart (`Fail`, `GiveUp`) begins again. `content`, `rules` and `targets`
are the bucket, its replication and its remote targets in MinIO. One action is one
call: `SetTarget`, `ReadRules`, `WriteRules` are `sync_bucket_push_always`, which
pulling uses with source and target exchanged (`Origin`, `Copy`).

- `set_bucket_replication` replaces all rules by those read before and the new one;
  `get_bucket_replication`'s error is `unwrap_or_default`, so no rules (`ReadRules`).
- `unsync_bucket` looks the remote target up by names that it has exchanged
  (`Found`), and deletes the rules of all bindings (`DropRules`).
- The name of a Job contains the second (`fresh`, `Tick`); a Job of the name is
  taken for one's own. The Job for pushing on deletion also removes the bucket.
- `Host`: the Service of a bucket leads to the source when nothing is synced.
- `missed` and `clashed` record the ways in which the code is known to lose or leave a
  replication, at the step where it happens: a name that differs, a failed read, a rule
  that was replaced or deleted by another binding, a bucket removed while its rule was
  being written, a bucket made again before a late Job removed it. The properties of
  replication except nothing else.
- `content` holds versions of objects (`Items`: an object and a number). Users write and
  overwrite them at any time (`Write`), whatever the bindings and their Jobs are at.
- `MirrorBucket` is `mc mirror` without `--overwrite`: it copies the objects that the other
  bucket lacks (`Lacking`) and leaves those alone that differ (`Differing`), or the script
  fails over them (`JobFails`, with any part of the others copied). `RemoveBucket` is a step
  of its own, before which users may write.
- `excused` records the versions that are lost in this way, see `PushedBeforeRemoved`.

Abstracted: quotas and owner references; credentials; several rules for one
destination (a set). What MinIO itself replicates under a rule is not followed: the
content of a bucket changes by users and Jobs, and properties of content leave out
buckets into which something is replicated.

### ModelFields and the code

A name `/a/b/` is `<<a, b>>`. `work` is a running validation: the spec it was called
with, the parser's map and what is left to do. Each field of a spec is a step, as a
reference loads another model; each field that `finalize` looks at is a step as well,
in the order of the names (`BTreeMap`), with the map growing as it goes
(`FinalizeField`). A schema is a map from paths to types; `ParseSchema` makes fields of
it, which are then finalized, parsed again and finalized again, as the code does.

`cache` is the copy of a model that `reconcile` is given, which `Watch` brings up to date
at some time. The state, the spec that is validated and the fields recorded with a deletion
are all those of this copy, while `UpdateFields` patches the model itself. So a model that
is Ready already is validated again when its copy is still Pending, perhaps with another
spec; and a deletion that is recorded from an old copy removes the fields.
`changed` and `behind` record, for the properties, whose fields were ever replaced or
removed and whose validation began from a copy without the fields that the model had.

Abstracted: attributes of fields; most primitive kinds (which only differ in name);
the wording of errors (`Err`). A model is there from when it has the finalizer. What may hold
a deleted model (Ready bindings, claims) is in `StorageOperator`; here `Release` may come at
any time or never. A validation that is cut off by a failing call or a restart is one that
begins again, and is left out.

### DatasetCopy and the code

A copy streams rows from `source` (the files that glob listed, or the fragment of the
latest version) through `opened` and `stream`. Into a dataset, the background task
(`Push`, `Send`, `Flush`) packs rows in `builder` and sends batches to `channel`; Lance
(`Receive` and `Commit`) writes them as one fragment on top of the version it
started from. Into a tree, `Dump` appends to the file.

- `Chunk`: only the first row of a file carries metadata; a file that has become
  shorter is an error.
- A copy in `Unreadable` may meet what it cannot read: a directory (`Seen`: `glob`'s error
  is passed over), a file or a batch of the scan (`LoadFails`), a chunk (`ReadChunk`). An
  error takes the place of the row (`Err`).
- `IntoVec`: the iterators over the metadata columns get out of step behind a row
  without metadata.
- `ProducerFails`: the error of the task is dropped with it; Lance sees the channel
  end and commits what has come, and the copy reports success. Into a tree the same
  error fails the copy (`StreamFails`).
- `Dump`: append mode, whatever `seek` says. With metadata `set_len` waits for the write,
  drops its error and extends the file: what a failed write has left out (`Written`, for
  the copies in `Faults`) becomes holes, and `dump` reports success. A row without metadata
  leaves its write behind (`landing`), as a tokio `File` that is dropped does. `DumpFails`
  are the errors that are told: opening, an earlier part of the data, metadata.
- `Commit`: `UnsafeCommitHandler` writes the next version without looking.

Abstracted: bytes (cells that know which version of the file they come from), the
content of the metadata but for the size, directories and links.

### CachedStore and the code

One action is one call to the file system or the backend; nothing is locked. A read
that misses large enough lists the cache (`List`), reads the metadata (`Stat`), evicts
(`Evict`), fetches, stages and renames, and reads from the cache. Versions are numbers
that grow with each write. What `accessed` orders within a class is left open; the
object's directory counts as an entry, because `glob` lists it.

### Properties

- `Inv`, the inductive invariant; it contains `TypeOK`, whose last conjunct is the
  `unwrap` of `update`. `TrackInv`: the context that `bind` and `unbind` work with
  is that of the spec the reconciliation was given, whatever is edited meanwhile.
- `BindingWorkIsProtected`: buckets are made and recorded for the incarnation
  that was read, under the finalizer, and not once its deletion is recorded.
- `LifecycleSpec`: each object implements `ObjectLifecycle`, with
  `phase <- Phase(api[o])` and `doomed <- api[o].deleted`.
- `NoSilentLeak`, `NoDanglingReplication`: a bucket or replication for which a
  binding answered is afterwards answered for by some binding, or handed to a
  Job, or gone, except in the ways the code is known to let go: `Retain`, an edit
  of the spec, a clean-up by a spec that drifted from the status, an
  outdated copy, a context that cannot be loaded. Each exception is needed:
  without it TLC finds a trace. Between the end of a replication and the deletion Job a
  binding does not answer for that replication (`LinksOf`): another binding may set it
  up again at that very time, and then it is the other's.
- `DeletionCompletes`: a deletion request is carried through, or a Ready binding
  stands in the way. `TargetFollowsSpec`: a Ready binding's status gets the new
  target, unless it is deleted or what the spec names stops being Ready; in `follows`
  models have one spec, as a binding whose model has another than it was bound with is
  refused for ever ("model should be immutable").

- `ClaimInv`: types (`ClaimTypeOK`) and the inductive invariant of claims.
- `ClaimWorkIsProtected`: the calls that bind a claim, and both patches, find the
  claim that was read, under its finalizer. The second patch is a forced apply,
  which would create a claim that has gone; this is why it never does. A claim
  whose deletion is recorded does not come back to Ready.
- `ClaimLifecycle`: each claim implements `ObjectLifecycle`.
- `StorageSpec`: a claim does nothing to other objects that a user could not do, so
  `ClaimOperator` implements `StorageOperator`.
- `ReadyClaimKeepsModel`: "model claim is binded": a model under the finalizer stays
  while its claim is Ready, although its controller looks for bindings, looks for the
  claim and releases the model in three calls, and a claim may bind it in between:
  the claim becomes Ready only on a Ready model, which a Deleting one never is again, or
  on one it has just created.
- `UnclaimedWhenReleased`: the invariant behind it: between the last check of a model
  and its release no reconciliation of its claim has got past `GetModel`.
- `ClaimDeletionCompletes`: a claim's deletion is carried through although the model
  it deletes waits for claims and bindings in turn.

In each of the four modules below, too, `Inv` is the inductive invariant, of which `TypeOK`
is a part; in `DatasetCopy` and `CachedStore` it is `CopyInv` and `CacheInv`, which are `Inv`
and what is known of the rows under way and of how much the cache holds.

`BucketSync`:
- `BoundIsSynced`, `GoneIsUnsynced`: replication is there while a binding is bound and
  gone when it has gone, but for what the code is known to lose: another binding
  unsyncs the same bucket, two replace the rules they have both read, the read fails,
  the names differ, the bucket went first or while the rule was written.
- `PushedBeforeRemoved`: what was written to a bucket that is pushed on deletion is not
  lost, whenever Jobs run and attempts fail, but in three ways (`excused`): it was written
  again, the source had another version of the object when the bucket was mirrored, or it
  was written after that. The bucket is not its own source: a binding
  whose source is its target, under the model's name, has its bucket mirrored into
  itself and removed.
- `BoundHasService`: each bound binding has its Service, unless it adopted one.
- `DeletedBucketsGo`: attempts end and a bucket to be deleted goes, unless its Job
  fails for ever: no source, or an object that differs there.

`ModelFields`:
- `FinalizeIsExact`: the loop accepts and makes what a definition without order
  (`Reference`) does. `FieldsAreTree`, `EmbedsBelow`: the result is a tree, and can be
  taken over by another model below any name.
- `FieldsStay`: fields change in a model's life only by a reconciliation whose copy of it
  lags behind them: a validation that began from a copy without them, or a deletion
  recorded from one. `EmbeddedFieldsAgree`: fields taken over stay equal to those of the model
  they come from, unless that has happened to it, or it has gone.
- `ModelsSettle`: a model stays Pending only if it would be refused.

`DatasetCopy`:
- `UploadIsComplete`, `TransferIsComplete`: a copy that reports success has written
  every row once and in order, unless the background task died of an error, which is
  lost; then it has written a beginning of them. The first is about files that nobody
  touches (`Untouched`: no edit, and no other copy into the tree), and says that all files
  of the tree are there when everything can be read.
- `BatchesFit`; `CommittedRowsStay`, unless two copies built on one version.
- `SimpleFilesArrive`: a file of one chunk arrives in a tree where it was not: as it was,
  or where writes may fail with its length and holes for what is missing. Its
  hypotheses (`Simple`, `WritesAlone`) are what the code needs: see "Refuted statements".
- `CopiesEnd`: no copy waits for ever at a channel, whichever side fails.

`CachedStore`:
- `CacheBounded`: the limit, and one object for each reader.
- `ReadsDoNotGoBack`: a later read is not older, unless a write raced a miss: then the
  reader may put the old version over the new.
- `SoloReadsSucceed`: a reader alone fails only when the object is not there, or when
  shrinking meets the directory. `ReadsEnd`.

## 4. Runs

| Run | Question | Instance |
|---|---|---|
| `lifecycle` | invariant, protection, refinement | 1 model (Ready), 1 unique storage, 1 binding, each of which may be deleted; two incarnations of the binding |
| `edit` | leaks and replications left behind under edits of target, source and policy | 1 model, 2 storages, 1 binding with three specs; the source already holds a bucket |
| `completes`, `follows` | liveness once faults stop | one incarnation |
| `claim` | invariant and protection of a claim; claims do nothing new to the other objects | 1 claim that allows no replacement, its model and binding, 1 storage |
| `claimed` | a claimed model stays; the life of a claim | the model is there, users delete and create it, two incarnations; policy Retain, replacement allowed |
| `unclaim` | a claim's deletion ends | the model is there, users may delete it |
| `renew` | a Ready claim keeps its binding | as `claim` |
| `buckets` | replication, pushing, Services and removal of shared buckets; whether a deleted one goes | two bindings, six pairs of specs; one failing call; one object in two versions |
| `fields` | the parser against its definition; what models that refer to each other embed; whether every model settles | one model with all lists of up to three of 9 fields, 4 single ones, 6 schemas; or two: one with a reference and up to one other field, and the one it refers to, which is revised or deleted |
| `copy` | completeness, batches, commits and ends of copies | two at a time (`Together`) of an upload, a dataset copied into itself, a download and a copy of a tree into a tree; chunk and buffer of two cells; one edit; what is read may be unreadable and writes may fail |
| `cache` | bounds, staleness, failures of reads | two readers, a large and a small object, one write |

Bounds: `MaxUid` and `MaxClaimUid` limit the incarnations of a name; two are enough for
a stale copy to meet a new incarnation, and the proofs cover every bound. `lifecycle`
has two incarnations of the binding, `claimed` two of everything; the other runs create
each object once. `Deletable`, `Settled` and the specs
(`BindingSpecs`) keep the instances small; each run moves the objects its question is
about, models in the claim runs. `IdleFirst`, in the runs that check
safety, orders steps that do not matter: a restart makes every object due, most of these
reconciliations find nothing to do, and each comes at once instead of at any later time. Calls fail and the operator restarts without bound.
Users of the claim runs create and delete claims; `Manual` are the other objects
they touch as well. Deadlock is checked except in `completes` and `unclaim`, where
everything may have been created once and deleted, and the system rightly stops, and
in `buckets`, `fields` and `copy`, where the bounded work comes to its end.

`MaxFails` is 1 in `buckets`: a failure makes an attempt start anew, and each property
needs only one cut at the worst place. Two bindings are enough for what one does to
another; `Pairs` are the combinations in which they share a bucket: one source, one
destination, a differing name, and the owner of the source. `Recreated` gives one of them a
second life, which is what a late Job needs. `Objects` and `Versions` are one object that is written
twice: enough to overwrite it in the bucket, or at the source and the bucket, and to write
between mirroring and removal; `Open` are the buckets that users write to, those that
are pushed, and the source of one. In `fields` three fields are enough for a
parent that is given, one that is made up and a child that is made anew; names have at
most three components, which is where a parent of a made-up parent appears;
with two edits the other model is revised or goes while one refers to it. What users do is
bounded for each model (`MaxEdits`), and only models that have to do with each other are
touched in one behaviour (`Together`). In
`copy` a channel of one batch and a buffer of two cells make the background task wait
at every point. In `cache` each object alone exceeds `MaxTotal`, so every miss
shrinks; one write is enough for a stale copy, as staleness compares two versions. `MaxEdits`,
`MaxWrites`, `Sizes`, `RequestSizes` and `Items` bound what users do.

Mutants: `PROJECT.json` lists for each property a plausible bug of a mapped
definition (`...Unprotected`, `...Later`, `...Once`, ...) that the run catches.

**Findings.**
- `renew`: `is_changed` ends with `state_last == state`, so equal storages count as
  a change. A claim that allows no replacement has the same storage in status and
  spec as soon as it is Ready, and its next reconciliation deletes its own binding.
  The claim is bound anew, and so on; with a claim that allows it, the
  reconciliation fails and is tried again for ever.
- The exception `Held` of `ClaimDeletionCompletes` is a deadlock of the code: a model
  that is deleted by hand while its claim binds it waits for the Ready binding; the
  claim, deleted in turn, would delete that binding but first waits for the model to
  be Ready, which a Deleting model never is. Somebody has to delete the binding.

### Refuted statements

These say what a comment or an error message promises. TLC refutes each; they are
not among the runs above, which ask other questions, but the definitions and the
configurations are kept (`tlc -config rebind.cfg MCStorageOperator`, ...):

- `BoundBucketStays` (`rebind.cfg`; "(Re)bind",
  `validator/model_storage_binding.rs:217`): an update that leaves the target unchanged
  (say, it drops the source) under policy Delete first creates the deletion Job of its
  own bucket, then binds the bucket that is still there; the Job removes it while the
  binding is Ready.
- `BoundStorageExists` (`inuse.cfg`; "storage is binded", `validator/model_storage.rs:210`):
  a storage is released while a binding that has loaded it is on its way to Ready.
- `UniqueStorage` (`unique.cfg`; "model storage already exists", `:59`): two storages of
  a unique kind pass each other's check.
- `ModelIsImmutable` (`rename.cfg`; "model should not be changed",
  `validator/model_storage_binding.rs:171`): the code compares the spec of the model; a
  binding can be moved to another model of equal spec, as all Dynamic models are.
- `CopiesArrive` (`copied.cfg`, `MCDatasetCopy`): with chunks, a file larger than one is
  corrupted when it is dumped into a tree: chunk 0 is extended to the full size and the
  others are appended behind it. A file that is there already keeps its old beginning,
  with or without chunks. By default there are no chunks (`max_chunk_size` is 0).
- `CacheWithinLimit` (in `CachedStore`, as an INVARIANT of `cache.cfg`; "Max directory size for cache directory",
  `cdl-catalog/src/lib.rs:62`): the cache is shrunk before the object is put, so it
  exceeds the limit by what is put; with a directory that counts as large, or that alone
  is over the limit, shrinking pops the directory and the read fails.
- A copy that reports success has copied everything: without the case of an error
  `UploadIsComplete` and `TransferIsComplete` are refuted by a file, a chunk or a batch that
  cannot be read, and without its case of failing writes `SimpleFilesArrive` by a write
  that fails during `set_len`.
- Nothing written is lost: `PushedBeforeRemoved` is refuted without any one of its three
  exceptions, `DeletedBucketsGo` without that for an object that differs at the source.
- The fields of a Ready model never change, as its reconciliation does nothing ("TODO:
  implement to finding changes", `ctx/model.rs:107`): `FieldsStay` without its exception is refuted by a second validation from an old
  Pending copy, and without the part of it that is about deletions by one that is recorded
  from an old copy; `EmbeddedFieldsAgree` without `changed` by a model that another has
  taken over and that is then validated again with a new spec.

### Further hazards

Beside those in `PROJECT.json`, none of which a property of these modules could tell:
`ownerReferences` are patched beside `metadata`, where they are dropped; finalizers of
other controllers are replaced; the query context registers the rootfs table once and
does not see later versions (`cdl-fs/src/lib.rs:113`); the cached store is registered for
`s3a` only while addresses are written `s3` (`cdl-store/src/lib.rs:35`); the most recently
accessed file is evicted first (`:299`); `StringArray` is serialized but not read
back (`cdl-openapi/src/model.rs:223`); the schema of an array is taken from `properties`
rather than `items` (`validator/model.rs:269`); an error of `remove_remote_target` is
dropped (`object.rs:1871`); site replication is looked up and then added
(`object.rs:258`); a field is accepted as its own child (`validator/model.rs:645`).

## 5. Fairness

`Spec` has no fairness: safety holds however little happens. `FairSpec` adds a
variable `calm`: at some time, after any number of faults, calls stop failing and
the operator is no longer restarted. Weak fairness is assumed for the next call of
each object's reconciliation (kube's `Controller::run` polls all of them and takes
queued objects), for watch events (kube re-establishes watches) and for Jobs. Users
are not fair: nobody has to delete a binding that blocks a storage.

`ClaimOperatorLiveness` does the same for claims. To keep the instance small only
calls of claims fail before `calm`, and Jobs, on which no claim waits, are not fair.

`BucketSync`: weak fairness of each binding's next call (an attempt that fails is
requeued) and of the Jobs, which Kubernetes runs and tries again; failures are bounded
by `MaxFails`. `ModelFields`: weak fairness of each model's reconciliation, as a Pending
model is requeued, and of the watch event that brings its copy up to date; a deleted model
need never be released. `DatasetCopy`: weak fairness of each copy, its background task and
the blocking pool: tokio polls a task that can go on. `CachedStore`: weak fairness of each
reader. Users, writers and editors are never fair.

## 6. Proofs

`StorageOperatorProofs` proves, for any finite or infinite set of models,
storages and bindings, any specs and any bound:

- `Invariance`: `Spec => []Inv`
- `TypeCorrect`: `Spec => []TypeOK`
- `ProtectedWork`: `Spec => []BindingWorkIsProtected`
- `Refinement`: `Spec => LifecycleSpec`

They assume `NamesAssumption` (the kinds are disjoint sets of names) and
`SpecsAssumption` (specs name existing kinds). None of the three properties is
inductive: that a `Pending` copy may still be patched to `Ready` depends on what
the API server can have become since the copy was cached. `Inv` says so, object
by object: each copy is one the API server could have held (`Sane`), copies only
grow older from `api` to `cache` to `snap` (`Older`), a copy with the finalizer that
is not Deleting still is the object on the server (`CacheTrusted`, `SnapTrusted`),
because only a reconciliation that read Deleting releases it, and there is one
reconciliation at a time; and the next call fits the copy (`PhaseFits`,
`ContentsFit`). The invariant speaks of one object at a time, so each action needs
only be shown to keep that of the object it moves (`Moves`, `MovesInv`).

and, under the same assumptions, of what a binding leaves behind:

- `Tracking`: `Spec => []TrackInv`
- `NoLeak`: `Spec => NoSilentLeak`, `NoDangling`: `Spec => NoDanglingReplication`

What a binding answers for depends on its own object and reconciliation only, so a step of
anything else keeps it (`StillTrack`). A step of its own either keeps all (`Keeps`), or
loses track in a way that is listed, or unbinds; and then what it gives up is the bucket and
the replication of `Unbound(b)` and nothing else (`Unbinds`, `Released`): for an update
because the last status is what the API server still has, for a deletion because the
context agrees with the spec (`ContextFits`), and the spec with the status. What is bound
is what the spec names, for a binding that is still there (`BindsSpec`, from `ReadyTarget`).

`ClaimOperatorProofs` proves for any number of claims:

- `ClaimInvariance`, `ClaimTypeCorrect`, `ClaimProtectedWork`: `ClaimsSpec => []` of
  `ClaimInv`, `ClaimTypeOK`, `ClaimWorkIsProtected`. The argument is the same, as
  the controllers branch and cache alike; `ErrandFits` adds that the status a
  reconciliation will record fits the copy it works on.
- `ClaimsRefine`: `ClaimsSpec => StorageSpec`, with the identity as mapping. A creation
  by a claim is `Create`, which needs that the claim's binding spec is one of
  `BindingSpecs` (the storage was chosen from `Storages`, the policy is the claim's);
  a deletion is `Delete`, or nothing when it repeats one, which needs `Inv`: an object
  whose deletion was requested has the finalizer. The two invariants are proved
  together (`BothInvariants`), as each step of `ClaimsSpec` is shown to be one of
  `Spec` under both. It carries every theorem about `Spec` over.

They assume `ClaimsAssumption`: no two claims share a model, the models claims make
and all bindings are among those that may be deleted, and the bindings' specs include
those that claims write.

and, under the same assumptions:

- `ClaimRefinement`: `ClaimsSpec => ClaimLifecycle`
- `Unclaimed`: `ClaimsSpec => []UnclaimedWhenReleased`
- `ReadyClaimsKeep`: `ClaimsSpec => ReadyClaimKeepsModel`

The first goes claim by claim as the refinement of `StorageOperator` does: only five
actions write a claim (`ClaimWriters`), each as its life allows. For the other two the
invariant is kept for two reasons. The check finds a claim that is gone, which has no
reconciliation that binds it (`ClaimReadyTarget`), or one recorded as Deleting, whose
reconciliations record nothing else (`CheckFindsClaim`). And from the check to the
release the model is recorded as Deleting (`ReleasedIsDeleting`), so that a claim that
looks for it gives up (`ClaimStaysUnready`); a model of that name that comes in
its place does not get the finalizer (`NoNewFinalizer`), as its reconciler is still at work
on the old one. Only the release takes an object with the finalizer from the API server
(`OnlyReleaseRemoves`).

`BucketSyncProofs` proves, for any bindings, storages and names, any specs and any
bound on failures:

- `Invariance`: `Spec => []Inv`, `TypeCorrect`: `Spec => []TypeOK`
- `SyncedWhenBound`: `BoundIsSynced`; `UnsyncedWhenGone`: `GoneIsUnsynced`
- `PushComesFirst`: `PushedBeforeRemoved`; `ServiceWhenBound`: `BoundHasService`

None of the first three properties says what an attempt half-way through has achieved.
`SyncInv` does, side by side: what the attempt has come past (`Established`) has its rule
and remote target, and any other binding that is about to write the rules of the same
bucket has read that rule. `UnsyncInv` is the reverse: a rule always has its remote target,
because unbinding finds the rule by it. `JobsInv` says what the Jobs under way will
remove, and `KeptInv` that what was written, and is not excused, is at the source or in a
bucket that no Job is about to remove, however often users overwrite it. The assumptions are `SpecsAssumption`, `BoundsAssumption` and
`NoneAssumption` (`None` is no name, no bucket and no content).

`CachedStoreProofs` proves, for any finite number of readers and objects, any sizes and
limits, and any number of writes:

- `Invariance` (of `Inv`, the part of `CacheInv` on versions, their order and undisturbed
  reads) and `TypeCorrect`
- `NoReadGoesBack`: `Spec => ReadsDoNotGoBack`
- `SoloReads`: `Spec => SoloReadsSucceed`
- `CacheInvariance`: `Spec => []CacheInv`, and `Bounded`: `Spec => []CacheBounded`

`OrderInv` orders, for an object that no write has crossed with a miss, what was read, what
the cache holds and what the backend holds; a reader under way has fetched what the
backend still has. `SoloInv` says what a reader may rely on while nobody has disturbed it.
Both are about one object or one reader, so that each action needs only be shown to keep
them for what it moves. The bound is about all readers at once: each shrinks the cache from
its own listing while others put what that listing lacks. `RoomInv` says that the cache
holds what one reader has once found small enough (`kept`) and one entry of each reader
that has put something since (`spent`, `put`). Readers that have listed the cache after that
(`fresh`), in an order in which the later have missed fewer (`since`), cover it likewise: when
one of them evicts enough, what it keeps takes the place of `kept`, and the readers it has
seen are no longer spent (`ShrunkRoom`). One that lists again starts with nobody missed
(`ListRoom`), and no reader is spent when it begins to fill, as it has just become the one
that keeps, so each is counted once (`PutRoom`). `FiniteAssumption` is what the sums need;
`SizesAssumption` gives the sizes their types, `OutcomesAssumption`
says that an error is no version.

`DatasetCopyProofs` proves, for any number of copies among any trees and datasets, any
sizes of files, chunks, buffers and the queue:

- `Invariance` (of `Inv`, the part of `CopyInv` on types, positions and versions) and
  `TypeCorrect`
- `CommitsStay`: `Spec => []CommittedRowsStay`

`CommitsOK` is stronger than the property: not only the latest version holds what a copy
has committed, but all from the one it made; and a copy that is committing finds a
version later than the one it began from only when a rival has made that. The rest of
`Inv` are facts that types rest on: a file that was found stays a file, and no
more rows are made of it than it has chunks. They assume `PlacesAssumption`,
`SizesAssumption` and `ContentAssumption` (the initial trees and tables are well-formed).

`DatasetFlowProofs` proves, for the same and for files and rows of any number and size:

- `FlowInvariance`: `Spec => [](Inv /\ FlowInv)`, `CopyInvariance`: `Spec => []CopyInv`
- `BatchesAlwaysFit`: `Spec => []BatchesFit`
- `UploadComplete`: `Spec => []UploadIsComplete`
- `TransferComplete`: `Spec => []TransferIsComplete`
- `SimpleFiles`: `Spec => []SimpleFilesArrive`

`InOrder` is the heart of `FlowInv`: the fragment that Lance has written, the channel, the
batch about to be sent, the builder and the stream, one after the other, are the rows of the
files or batches handed over so far, or, when something cannot be read, these up to the
first error (`Follows`). Each step moves rows from one of these to the next
(`Regroup`) or hands over one more (`FlattenNext`). `OpenedFlows` says how much of an opened
file has been read, which needs that the file is still what it was (`Untouched`), and
`EndsEmpty` that the background task ends only when nothing is left, or of an error. At the
end what was handed over is in the fragment, and the rows of the listed files, in their order, are those that the property
names (`FlattenChosen`).

Into a tree, `ArriveInv` follows each simple file: it is not there until its row is dumped,
then it is as it was, up to the holes of a failed write (`Arrivals`), and no write of it is
ever left behind. Three facts carry this: a
row before which none of its batch lacks metadata is read back with its own
(`IntoVecKeeps`, as the iterators of all columns have moved alike), so that its dump waits for
`set_len`; the stream is what is left of one batch (`RestOf`), so that each row comes once; and
no other row, and no write left behind by this copy or another, is of that file.

`FoldLemmas` has the facts about `FlattenSeq`, `Sum` and `MapThenSumSet` that this rests on.
The community modules define them by a recursive function on finite sets, about which the
prover can only be told by a least counterexample: the sets on which two definitions differ
would have a smallest member, from which an element is taken away.

`ModelFieldsProofs` proves, for any models, specs, schemas, names of any length and any
number of edits:

- `Invariance` and `TypeCorrect`, as above
- `FinalizeRight`: `Spec => []FinalizeIsExact`
- `PublishedTree`: `FieldsAreTree`; `EmbeddingWorks`: `EmbedsBelow`
- `EmbeddedAgree`: `EmbeddedFieldsAgree`; `FieldsRemain`: `Spec => FieldsStay`

The loop of `finalize` goes over the keys while its map grows. `MadeOK` and `CheckedOK` say
what holds of the keys that are done: what was parsed is kept, what was made is an ancestor
of a key that is done and has the children that are there by now, and given parents have
been compared with the children that are there by now. That these comparisons, made
early, still hold at the end is the point of the proof: a child that appears later below a
given parent is itself an ancestor of some key, whose own turn compares again
(`FinalizeFieldKeeps`, `FinalizeEnds`, `RejectsIsRight`). That the result is what
`Reference` defines is then a fact about sets of names, and so is that shifting all names
below another keeps `Published` (`PublishedBelow`). `Agrees` says of a spec's references what
the map holds of each of them so far, as long as their fields are not in `changed`. Since the
operator reads copies, nothing says that a validation is of a Pending model: one whose model
has fields by now began from a copy without them (`behind`), which is what `FieldsStay`
rests on; and that there is a model to patch follows from its copy (`ModelOK`: only a copy that
is Deleting lets the model go). `SpecsAssumption` says that specs, schemas and names are of the types that the
CRDs and `assert_name` give them.

**Only model-checked.**
- All liveness properties (`DeletionCompletes`, `TargetFollowsSpec`, `ClaimDeletionCompletes`,
  `DeletedBucketsGo`, `ModelsSettle`, `CopiesEnd`, `ReadsEnd`): they rest on fairness and
  ENABLED, which are out of the prover's reach.

## 7. Not modelled

See `PROJECT.json` "components".

- FUSE: every handler is a stub and `load` is `todo!()`.
- The io_uring pipeline and its core: an experiment under `contrib/` that nothing else
  uses; a model would be one of the kernel's rings.
- The provisioning of a tenant (`get_or_create` of constant manifests, 345-910 of
  `object.rs`): each call creates what is not there and changes nothing that is; quotas,
  measured capacities and the optimizer's arithmetic.
- Queries and listings of the dataset file system: SQL, answered by Lance.
- Command line but for `cp`, Python binding, benchmark and charts hold no logic of their
  own. Installing the CRDs at start-up, tracing and serialization are left out.
