----------------------------- MODULE BucketSync -----------------------------
(***************************************************************************)
(* What bindings do to buckets (ObjectStorageRef and MinioAdminClient in   *)
(* cdl-k8s-provider/src/object.rs): create_bucket, delete_bucket and       *)
(* unsync_bucket, call by call, with the sync policies, the replication of *)
(* MinIO and the Jobs that mirror and remove buckets.                      *)
(*                                                                         *)
(* StorageOperator says when a binding is bound and unbound; here each of  *)
(* several bindings is bound, and unbound, by attempts that are repeated   *)
(* until one succeeds.  The bindings share buckets: those of the source,   *)
(* which several clones replicate from, and that of the model's name.      *)
(***************************************************************************)
EXTENDS Naturals, FiniteSets

CONSTANTS
    Bindings,
    Storages,
    Names,         \* names of models, which are those of their buckets
    Specs,         \* bound: the specs that the bindings may have
    InitialBuckets,\* the buckets that are there at the start
    Objects,       \* the names of the objects that users write
    Versions,      \* bound: what users write under each of these names, in turn
    Open,          \* bound: the buckets that users write to, for each of these specs
    MaxFails,      \* bound: how many calls fail, or are cut off by a restart
    Recreated,     \* bound: the specs of bindings that are created a second time
    None

Buckets == Storages \X Names

\* A version of an object: the object and what it holds.
Items == Objects \X Versions
BindingSpec ==
    [model: Names, source: Storages \cup {None}, sourceBinding: Names \cup {None},
     target: Storages, pull: {"Always", "OnCreate", "Never"},
     push: {"Always", "OnDelete", "Never"}, policy: {"Delete", "Retain"}]

\* A Service: the binding that owns it, which of its incarnations that was, and the
\* storage it leads to.
Services == [owner: Bindings, uid: 0..2, host: Storages]

ASSUME SpecsAssumption ==
    /\ Specs \subseteq [Bindings -> BindingSpec]
    /\ InitialBuckets \subseteq Buckets /\ Open \in [Specs -> SUBSET Buckets]
ASSUME BoundsAssumption == MaxFails \in Nat /\ Versions \subseteq Nat
ASSUME NoneAssumption ==
    /\ None \notin Storages \cup Names \cup Buckets \cup Services
    /\ \A held \in SUBSET Items : held # None

VARIABLES
    spec,      \* of each binding
    phase,     \* "out" (no such binding), "binding", "bound" or "unbinding"
    call,      \* the call of the attempt that comes next, or "none"
    side,      \* which of the policies the attempt is at
    read,      \* the rules that get_bucket_replication has returned
    content,   \* the versions that each bucket holds, or None when it does not exist
    rules,     \* the replication of each bucket: where it is replicated to
    targets,   \* the remote targets of each bucket
    service,   \* the Service of each name: its owner and the storage it names
    jobs,      \* the Jobs that are not finished, or could still be found by name
    binds,     \* how often each binding has been created
    fails,     \* how many calls have failed
    written,   \* history: the bucket that each version was written to by a user
    excused,   \* history: versions that may be lost, see the properties
    clashed,   \* history: bindings whose rules others may have overwritten
    missed     \* history: unfinished business of bindings, see the properties

bucketVars == <<content, rules, targets>>
historyVars == <<written, excused, clashed, missed>>
vars == <<spec, phase, call, side, read, content, rules, targets, service, jobs,
          binds, fails, written, excused, clashed, missed>>

-----------------------------------------------------------------------------
(* Names. *)

\* get_bucket_name.
Bucket(b) == <<spec[b].target, spec[b].model>>

\* source_binding_name.unwrap_or(bucket).
SourceBucket(b) ==
    <<spec[b].source,
      IF spec[b].sourceBinding = None THEN spec[b].model ELSE spec[b].sourceBinding>>

\* The bucket that is replicated and the one that it is replicated to: Pulling is
\* Pushing by the inverted session.
Origin(b, s) == IF s = "pull" THEN SourceBucket(b) ELSE Bucket(b)
Copy(b, s) == IF s = "pull" THEN Bucket(b) ELSE SourceBucket(b)

\* sync_bucket and unsync_bucket do nothing without a source.
Policy(b, s) == IF spec[b].source = None THEN "Never" ELSE spec[b][s]
Replicates(b, s) == Policy(b, s) = "Always"
Sides == {"pull", "push"}

\* The bindings other than b that replicate this bucket.
Sharing(b, k) == {c \in Bindings \ {b} : \E s \in Sides : Replicates(c, s) /\ Origin(c, s) = k}

Exists(k) == content[k] # None

Goto(b, next) == call' = [call EXCEPT ![b] = next]

\* sync_bucket and unsync_bucket go from pull to push, where the policy asks for
\* something (`acting'), and then on.
Proceed(b, sides, acting, act, next) ==
    LET todo == {s \in sides : Policy(b, s) \in acting} IN
    /\ Goto(b, IF todo = {} THEN next ELSE act)
    /\ side' = [side EXCEPT ![b] = IF todo = {"push"} THEN "push" ELSE "pull"]

Remaining(b) == IF side[b] = "pull" THEN {"push"} ELSE {}

Sync(b, sides) ==
    Proceed(b, sides, IF "pull" \in sides THEN {"Always", "OnCreate"} ELSE {"Always"},
            "set", "service")
Unsync(b, sides) ==
    Proceed(b, sides, {"Always", "OnDelete"}, "find",
            IF spec[b].policy = "Delete" THEN "job" ELSE "finish")
AfterSync(b) == Sync(b, Remaining(b))

\* A plausible bug: after pulling has been dealt with, pushing is forgotten.
AfterUnsyncPull(b) == Unsync(b, {})

AfterUnsync(b) == Unsync(b, Remaining(b))

-----------------------------------------------------------------------------
(* Jobs. *)

Mirror(from, to) == [from |-> from, to |-> to, remove |-> {}]

\* get_or_create_bucket_job: the time in seconds is part of the Job's name, and a
\* Job of the same name is taken for this one.  The seconds are only told apart
\* (`made'); those of the current second are `fresh'.
CreateJob(b, name, command, work) ==
    LET namesakes == {j \in jobs : j.name = name /\ j.command = command}
        same == {j \in namesakes : j.fresh}
        job == [name |-> name, command |-> command, work |-> work, state |-> "created",
                fresh |-> TRUE, made |-> Cardinality({j.made : j \in namesakes})]
    IN  IF same = {} THEN jobs' = jobs \cup {job} /\ UNCHANGED missed
        ELSE /\ missed' = missed \cup {<<b, "job">> : j \in {i \in same : i.work # work \/ i.state # "created"}}
             /\ UNCHANGED jobs

\* Kubernetes removes a Job some seconds after it has ended.
Becomes(j, s) ==
    jobs' = (jobs \ {j}) \cup
        (IF s \in {"finished", "failed"} /\ ~j.fresh THEN {} ELSE {[j EXCEPT !.state = s]})

\* What mc mirror does without --overwrite: it copies the objects that the other
\* bucket does not have, and leaves those alone that differ.
Same(x, y) == x[1] = y[1]
Lacking(from, to) == {x \in content[from] : \A y \in content[to] : ~Same(x, y)}
Differing(from, to) ==
    {x \in content[from] : x \notin content[to] /\ \E y \in content[to] : Same(x, y)}
Ready(work) == Exists(work.from) /\ Exists(work.to)

\* The script of the Job: mc mirror, if there is a source, ...
MirrorBucket(j) ==
    LET from == j.work.from
        to == j.work.to
    IN  /\ j.state = "created"
        /\ IF from = None THEN UNCHANGED <<content, excused>>
           ELSE /\ Ready(j.work)
                /\ content' = [content EXCEPT ![to] = @ \cup Lacking(from, to)]
                /\ excused' = excused \cup
                                 IF from \in j.work.remove THEN Differing(from, to) ELSE {}
        /\ Becomes(j, "mirrored")
        /\ UNCHANGED <<spec, phase, call, side, read, rules, targets, service, binds,
                       fails, written, clashed, missed>>

\* ... mc rb --force, which takes the bucket's configuration with it.
RemoveBucket(j) ==
    LET gone == {k \in j.work.remove : Exists(k)}
        writing == {b \in Bindings : call[b] \in {"read", "write"} /\ Origin(b, side[b]) \in gone}
    IN
    /\ j.state = "mirrored"
    /\ content' = [k \in Buckets |-> IF k \in gone THEN None ELSE content[k]]
    /\ rules' = [k \in Buckets |-> IF k \in gone THEN {} ELSE rules[k]]
    /\ targets' = [k \in Buckets |-> IF k \in gone THEN {} ELSE targets[k]]
    /\ Becomes(j, "finished")
    /\ clashed' = clashed \cup {b \in Bindings : \E s \in Sides : Origin(b, s) \in gone}
    /\ missed' = missed \cup {<<b, "rule">> : b \in writing}
    /\ UNCHANGED <<spec, phase, call, side, read, service, binds, fails, written, excused>>

\* set -e: without one of the buckets the script fails, again and again; it may
\* also fail over an object that differs, with some of the others copied.
JobFails(j) ==
    LET from == j.work.from
        to == j.work.to
    IN  /\ j.state = "created"
        /\ from # None
        /\ IF Ready(j.work)
           THEN /\ Differing(from, to) # {}
                /\ \E copied \in SUBSET Lacking(from, to) :
                      content' = [content EXCEPT ![to] = @ \cup copied]
           ELSE UNCHANGED content
        /\ Becomes(j, "failed")
        /\ UNCHANGED <<spec, phase, call, side, read, rules, targets, service, binds,
                       fails, historyVars>>

RunJob(j) == MirrorBucket(j) \/ RemoveBucket(j) \/ JobFails(j)

-----------------------------------------------------------------------------
(* create_bucket. *)

Create(b) ==
    /\ phase[b] = "out"
    /\ binds[b] < IF spec[b] \in Recreated THEN 2 ELSE 1
    /\ binds' = [binds EXCEPT ![b] = @ + 1]
    /\ phase' = [phase EXCEPT ![b] = "binding"]
    /\ clashed' = clashed \ {b}
    /\ missed' = {p \in missed : p[1] # b \/ p[2] = "rule"}
    /\ UNCHANGED <<spec, call, side, read, bucketVars, service, jobs, fails, written, excused>>

GiveUp(b) ==
    /\ Goto(b, "none")
    /\ side' = [side EXCEPT ![b] = "pull"]
    /\ read' = [read EXCEPT ![b] = {}]

\* A call fails, or the operator restarts.
Fail(b) ==
    /\ call[b] # "none"
    /\ fails < MaxFails
    /\ fails' = fails + 1
    /\ GiveUp(b)
    /\ UNCHANGED <<spec, phase, bucketVars, service, jobs, binds, historyVars>>

\* An attempt begins.
MakeBucket(b) ==
    /\ phase[b] = "binding" /\ call[b] = "none"
    /\ content' = IF Exists(Bucket(b)) THEN content ELSE [content EXCEPT ![Bucket(b)] = {}]
    /\ Sync(b, Sides)
    /\ UNCHANGED <<spec, phase, read, rules, targets, service, jobs, binds, fails,
                   historyVars>>

\* A plausible bug: the remote target is set before the buckets are there.
SetTargetEarly(b) ==
    /\ call[b] = "set"
    /\ Replicates(b, side[b])
    /\ targets' = [targets EXCEPT ![Origin(b, side[b])] = @ \cup {Copy(b, side[b])}]
    /\ Goto(b, "read")
    /\ UNCHANGED <<spec, phase, side, read, content, rules, service, jobs, binds, fails,
                   historyVars>>

\* sync_bucket_push_always, also for pulling.  set_remote_target needs both
\* buckets; it returns the ARN of a target that is there already.
SetTarget(b) ==
    LET k == Origin(b, side[b])
        to == Copy(b, side[b])
    IN  /\ call[b] = "set"
        /\ Replicates(b, side[b])
        /\ IF Exists(k) /\ Exists(to)
           THEN /\ targets' = [targets EXCEPT ![k] = @ \cup {to}]
                /\ Goto(b, "read")
                /\ UNCHANGED <<side, read>>
           ELSE GiveUp(b) /\ UNCHANGED targets
        /\ UNCHANGED <<spec, phase, content, rules, service, jobs, binds, fails,
                       historyVars>>

\* Somebody else replaces the rules of the bucket after they have been read.
Overtaken(b, k) ==
    \E c \in Bindings \ {b} : call[c] = "write" /\ Origin(c, side[c]) = k

\* get_bucket_replication: an error counts as no rules at all.
ReadRules(b) ==
    LET k == Origin(b, side[b])
        to == Copy(b, side[b])
    IN  /\ call[b] = "read"
        /\ \E failed \in BOOLEAN :
              LET found == IF failed THEN {} ELSE rules[k] IN
              /\ failed => fails < MaxFails
              /\ fails' = IF failed THEN fails + 1 ELSE fails
              /\ clashed' = clashed \cup (IF failed THEN Sharing(b, k) ELSE {})
                    \cup (IF to \in found /\ Overtaken(b, k) THEN {b} ELSE {})
              /\ IF to \in found THEN AfterSync(b) /\ UNCHANGED read
                 ELSE /\ read' = [read EXCEPT ![b] = found]
                      /\ Goto(b, "write")
                      /\ UNCHANGED side
        /\ UNCHANGED <<spec, phase, bucketVars, service, jobs, binds, written, excused, missed>>

\* A plausible bug: the rules that were read are not written back.
WriteOwnRule(b) ==
    LET k == Origin(b, side[b]) IN
    /\ call[b] = "write"
    /\ Exists(k)
    /\ rules' = [rules EXCEPT ![k] = {Copy(b, side[b])}]
    /\ read' = [read EXCEPT ![b] = {}]
    /\ clashed' = IF Overtaken(b, k) THEN clashed \cup {b} ELSE clashed
    /\ AfterSync(b)
    /\ UNCHANGED <<spec, phase, content, targets, service, jobs, binds, fails, written,
                   excused, missed>>

\* set_bucket_replication replaces all rules by those that were read and this one.
WriteRules(b) ==
    LET k == Origin(b, side[b])
        to == Copy(b, side[b])
    IN  /\ call[b] = "write"
        /\ IF Exists(k)
           THEN /\ rules' = [rules EXCEPT ![k] = read[b] \cup {to}]
                /\ read' = [read EXCEPT ![b] = {}]
                /\ clashed' = IF Overtaken(b, k) THEN clashed \cup {b} ELSE clashed
                /\ missed' = missed \cup
                     {<<c, "rule">> : c \in {d \in Sharing(b, k) : \E s \in Sides :
                        Origin(d, s) = k /\ Copy(d, s) \in read[b] \ rules[k]}}
                /\ AfterSync(b)
           ELSE GiveUp(b) /\ UNCHANGED <<rules, clashed, missed>>
        /\ UNCHANGED <<spec, phase, content, targets, service, jobs, binds, fails, written,
                       excused>>

\* sync_bucket_pull_on_create.
PullOnCreate(b) ==
    /\ call[b] = "set"
    /\ Policy(b, side[b]) = "OnCreate"
    /\ CreateJob(b, spec[b].model, "pull", Mirror(SourceBucket(b), Bucket(b)))
    /\ AfterSync(b)
    /\ UNCHANGED <<spec, phase, read, bucketVars, service, binds, fails, written, excused,
                   clashed>>

\* create_bucket_service: a Service of the bucket's name is taken as it is.  It
\* leads to the source when nothing is ever synced.
Host(b) ==
    IF spec[b].source # None /\ spec[b].pull = "Never" /\ spec[b].push = "Never"
    THEN spec[b].source ELSE spec[b].target

\* A plausible bug: a Service that is there is replaced.
ReplaceService(b) ==
    /\ call[b] = "service"
    /\ service' = [service EXCEPT ![spec[b].model] =
                     [owner |-> b, uid |-> binds[b], host |-> Host(b)]]
    /\ phase' = [phase EXCEPT ![b] = "bound"]
    /\ Goto(b, "none")
    /\ UNCHANGED <<spec, side, read, bucketVars, jobs, binds, fails, historyVars>>

CreateService(b) ==
    LET name == spec[b].model
        own == [owner |-> b, uid |-> binds[b], host |-> Host(b)]
    IN  /\ call[b] = "service"
        /\ service' = [service EXCEPT ![name] = IF @ = None THEN own ELSE @]
        /\ missed' = IF service[name] \in {None, own} THEN missed
                     ELSE missed \cup {<<b, "service">>}
        /\ phase' = [phase EXCEPT ![b] = "bound"]
        /\ Goto(b, "none")
        /\ UNCHANGED <<spec, side, read, bucketVars, jobs, binds, fails, written, excused,
                       clashed>>

-----------------------------------------------------------------------------
(* unbind_model: delete_bucket or, with Retain, unsync_bucket. *)

Delete(b) ==
    /\ phase[b] \in {"binding", "bound"}
    /\ call[b] = "none"
    /\ phase' = [phase EXCEPT ![b] = "unbinding"]
    /\ UNCHANGED <<spec, call, side, read, bucketVars, service, jobs, binds, fails,
                   historyVars>>

\* An attempt begins: a bucket that does not exist needs neither unsyncing nor
\* deleting.
LookForBucket(b) ==
    /\ phase[b] = "unbinding" /\ call[b] = "none"
    /\ IF spec[b].policy = "Delete" /\ ~Exists(Bucket(b))
       THEN /\ Goto(b, "finish")
            /\ missed' = missed \cup {<<b, "unsync">>}
            /\ UNCHANGED side
       ELSE Unsync(b, Sides) /\ UNCHANGED missed
    /\ UNCHANGED <<spec, phase, read, bucketVars, service, jobs, binds, fails,
                   written, excused, clashed>>

\* get_remote_target: source and target are exchanged in the comparison.
Found(k, to) == to \in targets[k] /\ k[2] = to[2]

FindTarget(b) ==
    /\ call[b] = "find"
    /\ Replicates(b, side[b])
    /\ IF Found(Origin(b, side[b]), Copy(b, side[b]))
       THEN Goto(b, "drop") /\ UNCHANGED side
       ELSE AfterUnsync(b)
    /\ UNCHANGED <<spec, phase, read, bucketVars, service, jobs, binds, fails, historyVars>>

\* delete_bucket_replication deletes the rules of all bindings.
DropRules(b) ==
    LET k == Origin(b, side[b]) IN
    /\ call[b] = "drop"
    /\ rules' = [rules EXCEPT ![k] = {}]
    /\ clashed' = clashed \cup Sharing(b, k)
    /\ Goto(b, "forget")
    /\ UNCHANGED <<spec, phase, side, read, content, targets, service, jobs, binds, fails,
                   written, excused, missed>>

\* remove_remote_target: an error is ignored.
ForgetTarget(b) ==
    LET k == Origin(b, side[b]) IN
    /\ call[b] = "forget"
    /\ \/ /\ targets' = [targets EXCEPT ![k] = @ \ {Copy(b, side[b])}]
          /\ clashed' = clashed \cup Sharing(b, k)
          /\ UNCHANGED fails
       \/ fails < MaxFails /\ fails' = fails + 1 /\ UNCHANGED <<targets, clashed>>
    /\ AfterUnsync(b)
    /\ UNCHANGED <<spec, phase, read, content, rules, service, jobs, binds, written, excused,
                   missed>>

\* Two plausible bugs: the Job is made without inverting the session, or does not
\* learn that the bucket is to be deleted.
PushUninverted(b) ==
    /\ call[b] = "find"
    /\ Policy(b, side[b]) = "OnDelete"
    /\ CreateJob(b, spec[b].model, "push",
                 [Mirror(SourceBucket(b), Bucket(b)) EXCEPT !.remove = {Bucket(b)}])
    /\ Goto(b, "finish")
    /\ side' = [side EXCEPT ![b] = "pull"]
    /\ UNCHANGED <<spec, phase, read, bucketVars, service, binds, fails, written, excused,
                   clashed>>

PushOnly(b) ==
    /\ call[b] = "find"
    /\ Policy(b, side[b]) = "OnDelete"
    /\ CreateJob(b, SourceBucket(b)[2], "push", Mirror(Bucket(b), SourceBucket(b)))
    /\ Goto(b, "finish")
    /\ side' = [side EXCEPT ![b] = "pull"]
    /\ UNCHANGED <<spec, phase, read, bucketVars, service, binds, fails, written, excused,
                   clashed>>

\* unsync_bucket_push_on_delete: the Job that pushes deletes the bucket as well.
PushOnDelete(b) ==
    LET push == Mirror(Bucket(b), SourceBucket(b))
        remove == IF spec[b].policy = "Delete" THEN {Bucket(b)} ELSE {}
    IN  /\ call[b] = "find"
        /\ Policy(b, side[b]) = "OnDelete"
        /\ CreateJob(b, SourceBucket(b)[2], "push", [push EXCEPT !.remove = remove])
        /\ Goto(b, "finish")
        /\ side' = [side EXCEPT ![b] = "pull"]
        /\ UNCHANGED <<spec, phase, read, bucketVars, service, binds, fails, written,
                       excused, clashed>>

DeleteBucket(b) ==
    /\ call[b] = "job"
    /\ CreateJob(b, spec[b].model, "delete", [Mirror(None, None) EXCEPT !.remove = {Bucket(b)}])
    /\ Goto(b, "finish")
    /\ UNCHANGED <<spec, phase, side, read, bucketVars, service, binds, fails, written,
                   excused, clashed>>

\* The finalizer is removed, and the binding goes.
Finish(b) ==
    /\ call[b] = "finish"
    /\ phase' = [phase EXCEPT ![b] = "out"]
    /\ Goto(b, "none")
    /\ UNCHANGED <<spec, side, read, bucketVars, service, jobs, binds, fails, historyVars>>

-----------------------------------------------------------------------------
(* The environment. *)

\* A user writes an object, whatever the bindings and their Jobs are at.  Nobody
\* keeps the version that this one takes the place of; and this one comes late when
\* a Job that removes the bucket has already mirrored it.
Write(k, x) ==
    /\ Exists(k)
    /\ x \notin DOMAIN written
    /\ \A v \in Versions : v < x[2] => <<x[1], v>> \in DOMAIN written
    /\ content' = [content EXCEPT ![k] = {y \in @ : ~Same(x, y)} \cup {x}]
    /\ written' = [y \in DOMAIN written \cup {x} |-> IF y = x THEN k ELSE written[y]]
    /\ excused' = excused \cup {y \in content[k] : Same(x, y)} \cup
          IF \E j \in jobs : k \in j.work.remove /\ j.state = "mirrored" THEN {x} ELSE {}
    /\ UNCHANGED <<spec, phase, call, side, read, rules, targets, service, jobs, binds,
                   fails, clashed, missed>>

\* Kubernetes collects what an owner that has gone has left.
Collect(name) ==
    /\ service[name] # None
    /\ LET b == service[name].owner IN phase[b] = "out" \/ binds[b] # service[name].uid
    /\ service' = [service EXCEPT ![name] = None]
    /\ UNCHANGED <<spec, phase, call, side, read, bucketVars, jobs, binds, fails,
                   historyVars>>

\* The next second begins; a Job that has finished need not be remembered.
Tick ==
    /\ \E j \in jobs : j.fresh
    /\ jobs' = {[j EXCEPT !.fresh = FALSE] : j \in {i \in jobs : i.state \notin {"finished", "failed"}}}
    /\ UNCHANGED <<spec, phase, call, side, read, bucketVars, service, binds, fails,
                   historyVars>>

-----------------------------------------------------------------------------

Init ==
    /\ spec \in Specs
    /\ phase = [b \in Bindings |-> "out"]
    /\ call = [b \in Bindings |-> "none"]
    /\ side = [b \in Bindings |-> "pull"]
    /\ read = [b \in Bindings |-> {}]
    /\ content = [k \in Buckets |-> IF k \in InitialBuckets THEN {} ELSE None]
    /\ rules = [k \in Buckets |-> {}]
    /\ targets = [k \in Buckets |-> {}]
    /\ service = [n \in Names |-> None]
    /\ jobs = {}
    /\ binds = [b \in Bindings |-> 0]
    /\ fails = 0
    /\ written = <<>>
    /\ excused = {}
    /\ clashed = {}
    /\ missed = {}

Bind(b) ==
    \/ MakeBucket(b) \/ SetTarget(b) \/ ReadRules(b) \/ WriteRules(b)
    \/ PullOnCreate(b) \/ CreateService(b)

Unbind(b) ==
    \/ LookForBucket(b) \/ FindTarget(b) \/ DropRules(b) \/ ForgetTarget(b)
    \/ PushOnDelete(b) \/ DeleteBucket(b) \/ Finish(b)

Next ==
    \/ \E b \in Bindings : Create(b) \/ Delete(b) \/ Bind(b) \/ Unbind(b) \/ Fail(b)
    \/ \E k \in Open[spec], x \in Items : Write(k, x)
    \/ \E j \in jobs : RunJob(j)
    \/ \E n \in Names : Collect(n)
    \/ Tick

Spec == Init /\ [][Next]_vars

\* The controller retries a binding and polls its attempt; Kubernetes runs the
\* Jobs.
Fairness ==
    /\ \A b \in Bindings : WF_vars(Bind(b) \/ Unbind(b))
    /\ WF_vars(\E j \in jobs : RunJob(j))

FairSpec == Spec /\ Fairness

-----------------------------------------------------------------------------
(* Properties. *)

Jobs == [name: Names, command: {"pull", "push", "delete"}, made: Nat, fresh: BOOLEAN,
         work: [from: Buckets \cup {None}, to: Buckets \cup {None}, remove: SUBSET Buckets],
         state: {"created", "mirrored", "finished", "failed"}]

\* Bindings, buckets and Jobs are of their types; only a bucket that exists has
\* rules and remote targets, and a binding is at a call only while it is worked on.
TypeOK ==
    /\ spec \in Specs
    /\ phase \in [Bindings -> {"out", "binding", "bound", "unbinding"}]
    /\ side \in [Bindings -> Sides]
    /\ \A b \in Bindings :
          /\ read[b] \subseteq Buckets
          /\ call[b] \in CASE phase[b] = "binding" -> {"none", "set", "read", "write", "service"}
                           [] phase[b] = "unbinding" ->
                                {"none", "find", "drop", "forget", "job", "finish"}
                           [] OTHER -> {"none"}
    /\ \A k \in Buckets :
          /\ content[k] = None \/ content[k] \subseteq Items
          /\ rules[k] \cup targets[k] \subseteq IF Exists(k) THEN Buckets ELSE {}
    /\ jobs \subseteq Jobs
    /\ fails \in 0..MaxFails

\* A bound binding's replication is there, the remote target with the rule, unless
\* another binding has taken down the replication of a bucket they share, or has
\* read the rules and replaced them while this one did, or read nothing because
\* of an error, or a Job has removed the bucket.
BoundIsSynced ==
    \A b \in Bindings : \A s \in Sides :
       phase[b] = "bound" /\ Replicates(b, s) /\ b \notin clashed
          => Copy(b, s) \in rules[Origin(b, s)] \cap targets[Origin(b, s)]

\* A binding that has gone leaves no rule behind, however often its unbinding was
\* cut off, unless the names of its buckets differ, its bucket was gone before or
\* went while it wrote the rule, another binding wrote back the rules that it had
\* read earlier, or has the same replication itself.
GoneIsUnsynced ==
    \A b \in Bindings : \A s \in Sides :
       /\ phase[b] = "out" /\ Replicates(b, s)
       /\ Origin(b, s)[2] = Copy(b, s)[2]
       /\ missed \cap {<<b, "unsync">>, <<b, "rule">>} = {}
       /\ \A c \in Bindings \ {b}, t \in Sides :
             Replicates(c, t) => <<Origin(c, t), Copy(c, t)>> # <<Origin(b, s), Copy(b, s)>>
       => Copy(b, s) \notin rules[Origin(b, s)]

\* What a user writes to the bucket of a binding that pushes on deletion is at the
\* source before the bucket is removed, as long as neither bucket belongs to another
\* binding and MinIO does not replicate the source to the bucket.  There are three
\* ways to lose it (`excused'): a user writes the object again; the source has
\* another version of it when the bucket is mirrored, as that is not overwritten; or
\* it is written after the bucket has been mirrored.
PushedBeforeRemoved ==
    \A x \in DOMAIN written \ excused, b \in Bindings :
       /\ written[x] = Bucket(b)
       /\ Policy(b, "push") = "OnDelete" /\ ~Replicates(b, "pull")
       /\ Bucket(b) # SourceBucket(b)
       /\ \A c \in Bindings \ {b} : Bucket(c) \notin {Bucket(b), SourceBucket(b)}
       => \E k \in {Bucket(b), SourceBucket(b)} : Exists(k) /\ x \in content[k]

\* A bound binding has its Service, unless it found one of another binding, or of
\* its own predecessor, and took that for its own: it goes with its owner.
BoundHasService ==
    \A b \in Bindings :
       phase[b] = "bound" /\ <<b, "service">> \notin missed
          => service[spec[b].model] = [owner |-> b, uid |-> binds[b], host |-> Host(b)]

\* Attempts come to an end, and a bucket that is to be deleted goes, unless a Job
\* of the same name within the second does something else or had begun before,
\* there was no source bucket to push to or one that has another version of an
\* object (the Job fails over it), or another binding uses the bucket or has to
\* retain it.
InUse(k) == \E b \in Bindings : phase[b] # "out" /\ Bucket(b) = k
Retained(k) == \E b \in Bindings : Bucket(b) = k /\ spec[b].policy = "Retain"

DeletedBucketsGo ==
    <>[](\A b \in Bindings :
          /\ phase[b] # "unbinding"
          /\ phase[b] = "binding" => \E s \in Sides : Replicates(b, s) /\ ~Exists(SourceBucket(b))
          /\ phase[b] = "out" /\ binds[b] > 0 /\ spec[b].policy = "Delete" =>
                \/ ~Exists(Bucket(b))
                \/ InUse(Bucket(b)) \/ Retained(Bucket(b))
                \/ <<b, "job">> \in missed
                \/ /\ Policy(b, "push") = "OnDelete"
                   /\ \/ ~Exists(SourceBucket(b))
                      \/ Differing(Bucket(b), SourceBucket(b)) # {})
=============================================================================
