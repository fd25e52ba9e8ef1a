--------------------------- MODULE BucketSyncProofs ---------------------------
(***************************************************************************)
(* Proofs about BucketSync for any number of bindings, storages, buckets   *)
(* and Jobs.  Inv is inductive; each of its parts has a lemma that goes    *)
(* through the actions.                                                    *)
(***************************************************************************)
EXTENDS BucketSyncInv, FiniteSetTheorems, TLAPS

\* What is known of a binding's spec, whichever it is.
LEMMA SpecFacts ==
    ASSUME spec \in Specs, NEW b \in Bindings
    PROVE  /\ spec[b] \in BindingSpec
           /\ Bucket(b) \in Buckets
           /\ Policy(b, "pull") \in {"Always", "OnCreate", "Never"}
           /\ Policy(b, "push") \in {"Always", "OnDelete", "Never"}
           /\ \A s \in Sides : Policy(b, s) # "Never" =>
                 /\ SourceBucket(b) \in Buckets
                 /\ Origin(b, s) \in Buckets /\ Copy(b, s) \in Buckets
<1>1. spec[b] \in BindingSpec
  BY SpecsAssumption
<1>2. Bucket(b) \in Buckets
  BY <1>1 DEF Bucket, Buckets, BindingSpec
<1>3. /\ Policy(b, "pull") \in {"Always", "OnCreate", "Never"}
      /\ Policy(b, "push") \in {"Always", "OnDelete", "Never"}
  BY <1>1 DEF Policy, BindingSpec
<1>4. ASSUME NEW s \in Sides, Policy(b, s) # "Never"
      PROVE  SourceBucket(b) \in Buckets
  BY <1>1, <1>4 DEF Policy, SourceBucket, Buckets, BindingSpec
<1> QED
  BY <1>1, <1>2, <1>3, <1>4 DEF Origin, Copy

\* A spec that stays keeps what is read from it.
LEMMA SpecStill ==
    ASSUME UNCHANGED spec
    PROVE  \A b \in Bindings :
              /\ Bucket(b)' = Bucket(b) /\ SourceBucket(b)' = SourceBucket(b)
              /\ Host(b)' = Host(b)
              /\ \A s \in Sides :
                    /\ Origin(b, s)' = Origin(b, s) /\ Copy(b, s)' = Copy(b, s)
                    /\ Policy(b, s)' = Policy(b, s) /\ (Replicates(b, s)' <=> Replicates(b, s))
                    /\ Alone(b, s)' <=> Alone(b, s)
  BY DEF Bucket, SourceBucket, Host, Origin, Copy, Policy, Replicates, Alone

-------------------------------------------------------------------------------
(* How an attempt goes from one side to the next.                          *)

\* What a call of b leaves to the other bindings.
OthersStay(b) ==
    /\ call' \in [Bindings -> Calls] /\ side' \in [Bindings -> Sides]
    /\ \A c \in Bindings \ {b} : call'[c] = call[c] /\ side'[c] = side[c]

CallTypes == call \in [Bindings -> Calls] /\ side \in [Bindings -> Sides] /\ spec \in Specs

\* The next call of one binding is another; those of the others stay.
LEMMA GotoStep ==
    ASSUME CallTypes, NEW b \in Bindings, NEW next \in Calls, Goto(b, next)
    PROVE  /\ call' \in [Bindings -> Calls] /\ call'[b] = next
           /\ \A c \in Bindings \ {b} : call'[c] = call[c]
  BY DEF CallTypes, Goto

\* An attempt that is given up forgets what it has read, and nothing else.
LEMMA GiveUpStep ==
    ASSUME CallTypes, NEW b \in Bindings, read \in [Bindings -> SUBSET Buckets], GiveUp(b)
    PROVE  /\ OthersStay(b) /\ call'[b] = "none"
           /\ read' \in [Bindings -> SUBSET Buckets]
           /\ \A c \in Bindings \ {b} : read'[c] = read[c]
  BY DEF CallTypes, GiveUp, Goto, OthersStay, Sides, Calls

\* The sides that are left are looked at in order, and a side is passed only when
\* its policy does not ask for this.
LEMMA ProceedStep ==
    ASSUME CallTypes, NEW b \in Bindings, NEW sides \in SUBSET Sides,
           NEW acting, NEW act \in Calls, NEW next \in Calls, act # next,
           Proceed(b, sides, acting, act, next)
    PROVE  /\ OthersStay(b)
           /\ \/ /\ call'[b] = act /\ side'[b] \in sides
                 /\ Policy(b, side'[b]) \in acting
                 /\ side'[b] = "push" /\ "pull" \in sides => Policy(b, "pull") \notin acting
              \/ /\ call'[b] = next
                 /\ \A s \in sides : Policy(b, s) \notin acting
<1> DEFINE todo == {s \in sides : Policy(b, s) \in acting}
<1>1. /\ call' = [call EXCEPT ![b] = IF todo = {} THEN next ELSE act]
      /\ side' = [side EXCEPT ![b] = IF todo = {"push"} THEN "push" ELSE "pull"]
  BY DEF Proceed, Goto
<1>2. OthersStay(b)
  BY <1>1 DEF OthersStay, CallTypes, Sides
<1>3. /\ call'[b] = IF todo = {} THEN next ELSE act
      /\ side'[b] = IF todo = {"push"} THEN "push" ELSE "pull"
  BY <1>1 DEF CallTypes
<1>4. todo = {} \/ todo = {"pull"} \/ todo = {"push"} \/ todo = {"pull", "push"}
  BY DEF Sides
<1> QED
  BY <1>2, <1>3, <1>4

\* sync_bucket begins with the first side that replicates or mirrors at this time, or
\* goes on to the Service when none does.
LEMMA SyncStep ==
    ASSUME CallTypes, NEW b \in Bindings, NEW sides \in SUBSET Sides, Sync(b, sides)
    PROVE  /\ OthersStay(b)
           /\ \/ /\ call'[b] = "set" /\ side'[b] \in sides
                 /\ Policy(b, side'[b]) \in {"Always", "OnCreate"}
                 /\ side'[b] = "push" /\ "pull" \in sides => ~Replicates(b, "pull")
              \/ /\ call'[b] = "service"
                 /\ \A s \in sides : ~Replicates(b, s)
<1> DEFINE acting == IF "pull" \in sides THEN {"Always", "OnCreate"} ELSE {"Always"}
<1>1. Proceed(b, sides, acting, "set", "service")
  BY DEF Sync
<1>2. "set" \in Calls /\ "service" \in Calls
  BY DEF Calls
<1>3. "Always" \in acting /\ acting \subseteq {"Always", "OnCreate"}
  OBVIOUS
<1> HIDE DEF acting
<1>4. /\ OthersStay(b)
      /\ \/ /\ call'[b] = "set" /\ side'[b] \in sides
            /\ Policy(b, side'[b]) \in acting
            /\ side'[b] = "push" /\ "pull" \in sides => Policy(b, "pull") \notin acting
         \/ /\ call'[b] = "service"
            /\ \A s \in sides : Policy(b, s) \notin acting
  BY <1>1, <1>2, ProceedStep
<1> QED
  BY <1>3, <1>4 DEF Replicates

\* unsync_bucket begins with the first side that was synced or is to be mirrored now,
\* or goes on to what the deletion policy asks for.
LEMMA UnsyncStep ==
    ASSUME CallTypes, NEW b \in Bindings, NEW sides \in SUBSET Sides, Unsync(b, sides)
    PROVE  /\ OthersStay(b)
           /\ \/ /\ call'[b] = "find" /\ side'[b] \in sides
                 /\ Policy(b, side'[b]) \in {"Always", "OnDelete"}
                 /\ side'[b] = "push" /\ "pull" \in sides => ~Replicates(b, "pull")
              \/ /\ call'[b] = IF spec[b].policy = "Delete" THEN "job" ELSE "finish"
                 /\ \A s \in sides : Policy(b, s) \notin {"Always", "OnDelete"}
<1> DEFINE acting == {"Always", "OnDelete"}
<1> DEFINE next == IF spec[b].policy = "Delete" THEN "job" ELSE "finish"
<1>1. Proceed(b, sides, acting, "find", next)
  BY DEF Unsync
<1>2. "find" \in Calls /\ next \in Calls /\ "find" # next
  BY DEF Calls
<1> HIDE DEF next
<1>3. /\ OthersStay(b)
      /\ \/ /\ call'[b] = "find" /\ side'[b] \in sides
            /\ Policy(b, side'[b]) \in acting
            /\ side'[b] = "push" /\ "pull" \in sides => Policy(b, "pull") \notin acting
         \/ /\ call'[b] = next
            /\ \A s \in sides : Policy(b, s) \notin acting
  BY <1>1, <1>2, ProceedStep
<1> QED
  BY <1>3 DEF Replicates, next

\* After pulling comes pushing; after pushing, nothing is left.
LEMMA AfterSyncStep ==
    ASSUME CallTypes, NEW b \in Bindings, AfterSync(b)
    PROVE  /\ OthersStay(b)
           /\ \/ /\ call'[b] = "set" /\ side[b] = "pull" /\ side'[b] = "push"
                 /\ Policy(b, "push") \in {"Always", "OnCreate"}
              \/ /\ call'[b] = "service"
                 /\ side[b] = "pull" => ~Replicates(b, "push")
<1>1. Remaining(b) = IF side[b] = "pull" THEN {"push"} ELSE {}
  BY DEF Remaining
<1>2. Remaining(b) \in SUBSET Sides
  BY <1>1 DEF Sides
<1> QED
  BY <1>1, <1>2, SyncStep DEF AfterSync

\* After the pulling side unsync_bucket comes to the pushing side, and then to what the
\* deletion policy asks for.
LEMMA AfterUnsyncStep ==
    ASSUME CallTypes, NEW b \in Bindings, AfterUnsync(b)
    PROVE  /\ OthersStay(b)
           /\ \/ /\ call'[b] = "find" /\ side[b] = "pull" /\ side'[b] = "push"
                 /\ Policy(b, "push") \in {"Always", "OnDelete"}
              \/ /\ call'[b] = IF spec[b].policy = "Delete" THEN "job" ELSE "finish"
                 /\ side[b] = "pull" => Policy(b, "push") \notin {"Always", "OnDelete"}
<1>1. Remaining(b) = IF side[b] = "pull" THEN {"push"} ELSE {}
  BY DEF Remaining
<1>2. Remaining(b) \in SUBSET Sides
  BY <1>1 DEF Sides
<1> QED
  BY <1>1, <1>2, UnsyncStep DEF AfterUnsync

-------------------------------------------------------------------------------
(* Jobs. *)

\* What a function makes of the elements of a finite set is finite.
LEMMA ImageFinite ==
    ASSUME NEW S, IsFiniteSet(S), NEW f
    PROVE  IsFiniteSet({f[x] : x \in S})
<1> DEFINE g == [x \in S |-> f[x]]
<1> DEFINE T == {f[x] : x \in S}
<1>1. g \in [S -> T] /\ \A t \in T : \E x \in S : g[x] = t
  OBVIOUS
<1> HIDE DEF g, T
<1>2. g \in Surjection(S, T)
  BY <1>1 DEF Surjection
<1>3. IsFiniteSet(T)
  BY <1>2, FS_Surjection
<1> QED
  BY <1>3 DEF T

Work == [from: Buckets \cup {None}, to: Buckets \cup {None}, remove: SUBSET Buckets]
JobTypes == jobs \subseteq Jobs /\ IsFiniteSet(jobs)

\* The work of b's Jobs, and what they may remove.
LEMMA WorkTypes ==
    ASSUME NEW b \in Bindings, spec \in Specs
    PROVE  /\ Policy(b, "pull") = "OnCreate" =>
                 /\ Mirror(SourceBucket(b), Bucket(b)) \in Work
                 /\ WorkFits(Mirror(SourceBucket(b), Bucket(b)))
           /\ Policy(b, "push") = "OnDelete" => \A r \in {{}, {Bucket(b)}} :
                 LET work == [Mirror(Bucket(b), SourceBucket(b)) EXCEPT !.remove = r] IN
                 /\ work \in Work /\ WorkFits(work)
                 /\ SourceBucket(b)[2] \in Names
           /\ LET work == [Mirror(None, None) EXCEPT !.remove = {Bucket(b)}] IN
                 /\ work \in Work
                 /\ Policy(b, "push") # "OnDelete" => WorkFits(work)
           /\ spec[b].model \in Names
<1>1. /\ Bucket(b) \in Buckets
      /\ \A s \in Sides : Policy(b, s) # "Never" => SourceBucket(b) \in Buckets
      /\ spec[b].model \in Names
  BY SpecFacts DEF BindingSpec
<1>2. \A k \in Buckets : k[2] \in Names
  BY DEF Buckets
<1> QED
  BY <1>1, <1>2 DEF Mirror, Work, WorkFits, Removes, Sides

\* get_or_create_bucket_job adds at most one Job, with the work that is asked for, or
\* records that it took another Job for its own.
LEMMA CreateJobStep ==
    ASSUME JobTypes, NEW b \in Bindings, NEW name \in Names,
           NEW command \in {"pull", "push", "delete"}, NEW work \in Work,
           CreateJob(b, name, command, work)
    PROVE  /\ JobTypes'
           /\ \A j \in jobs' : j \in jobs \/ (j.work = work /\ j.state = "created")
           /\ missed \subseteq missed'
           /\ \A p \in missed' : p \in missed \/ p = <<b, "job">>
<1> DEFINE namesakes == {j \in jobs : j.name = name /\ j.command = command}
<1> DEFINE made == Cardinality({j.made : j \in namesakes})
<1> DEFINE job == [name |-> name, command |-> command, work |-> work, state |-> "created",
                   fresh |-> TRUE, made |-> made]
<1>1. IsFiniteSet(namesakes)
  BY FS_Subset DEF JobTypes
<1>2. IsFiniteSet({j.made : j \in namesakes})
  <2> DEFINE f == [j \in namesakes |-> j.made]
  <2> HIDE DEF namesakes
  <2>1. IsFiniteSet({f[j] : j \in namesakes})
    BY <1>1, ImageFinite
  <2>2. {f[j] : j \in namesakes} = {j.made : j \in namesakes}
    OBVIOUS
  <2> QED
    BY <2>1, <2>2
<1>3. made \in Nat
  BY <1>2, FS_CardinalityType
<1> HIDE DEF made
<1>4. job \in Jobs /\ job.work = work /\ job.state = "created"
  BY <1>3 DEF Jobs, Work
<1>5. IsFiniteSet(jobs \cup {job})
  BY FS_AddElement DEF JobTypes
<1>6. \/ jobs' = jobs \cup {job} /\ missed' = missed
      \/ /\ jobs' = jobs
         /\ missed \subseteq missed'
         /\ \A p \in missed' : p \in missed \/ p = <<b, "job">>
  BY DEF CreateJob, made
<1> HIDE DEF job
<1> QED
  BY <1>4, <1>5, <1>6 DEF JobTypes

\* A Job that goes on keeps its work, or is replaced by another with the same work.
LEMMA BecomesStep ==
    ASSUME JobTypes, NEW j \in jobs, NEW s \in {"mirrored", "finished", "failed"}, Becomes(j, s)
    PROVE  /\ JobTypes'
           /\ \A i \in jobs' : i \in jobs \ {j} \/ (i.work = j.work /\ i.state = s)
<1> DEFINE after == [j EXCEPT !.state = s]
<1>1. after \in Jobs /\ after.work = j.work /\ after.state = s
  BY DEF JobTypes, Jobs
<1>2. jobs' = jobs \ {j} \/ jobs' = (jobs \ {j}) \cup {after}
  BY DEF Becomes
<1>3. IsFiniteSet(jobs \ {j}) /\ IsFiniteSet((jobs \ {j}) \cup {after})
  BY FS_RemoveElement, FS_AddElement DEF JobTypes
<1> HIDE DEF after
<1> QED
  BY <1>1, <1>2, <1>3 DEF JobTypes

\* As time goes by, finished Jobs go and the others keep their work and their state.
LEMMA TickStep ==
    ASSUME JobTypes, Tick
    PROVE  /\ JobTypes'
           /\ \A i \in jobs' : \E j \in jobs : i.work = j.work /\ i.state = j.state
<1> DEFINE kept == {i \in jobs : i.state \notin {"finished", "failed"}}
<1>1. jobs' = {[j EXCEPT !.fresh = FALSE] : j \in kept}
  BY DEF Tick
<1>2. IsFiniteSet(kept)
  BY FS_Subset DEF JobTypes
<1>3. \A j \in kept : /\ [j EXCEPT !.fresh = FALSE] \in Jobs
                      /\ [j EXCEPT !.fresh = FALSE].work = j.work
                      /\ [j EXCEPT !.fresh = FALSE].state = j.state
  BY DEF JobTypes, Jobs
<1>4. IsFiniteSet(jobs')
  <2> DEFINE f == [j \in kept |-> [j EXCEPT !.fresh = FALSE]]
  <2> HIDE DEF kept
  <2>1. {f[j] : j \in kept} = {[j EXCEPT !.fresh = FALSE] : j \in kept}
    OBVIOUS
  <2> HIDE DEF f
  <2>2. IsFiniteSet({f[j] : j \in kept})
    BY <1>2, ImageFinite
  <2> QED
    BY <1>1, <2>1, <2>2
<1>5. ASSUME NEW i \in jobs'
      PROVE  i \in Jobs /\ \E j \in jobs : i.work = j.work /\ i.state = j.state
  <2>1. PICK j \in kept : i = [j EXCEPT !.fresh = FALSE]
    BY <1>1
  <2> QED
    BY <1>3, <2>1
<1> QED
  BY <1>4, <1>5 DEF JobTypes

-------------------------------------------------------------------------------
(* Types. *)

\* The parts of TypeOK and Shapes, each with the variables it is about.
Attempts ==
    /\ phase \in [Bindings -> {"out", "binding", "bound", "unbinding"}]
    /\ side \in [Bindings -> Sides]
    /\ call \in [Bindings -> Calls]
    /\ read \in [Bindings -> SUBSET Buckets]
    /\ \A b \in Bindings :
          \/ call[b] = "none"
          \/ phase[b] = "binding" /\ call[b] \in {"set", "read", "write", "service"}
          \/ phase[b] = "unbinding" /\ call[b] \in {"find", "drop", "forget", "job", "finish"}

BucketTypes ==
    /\ content \in [Buckets -> (SUBSET Items) \cup {None}]
    /\ rules \in [Buckets -> SUBSET Buckets] /\ targets \in [Buckets -> SUBSET Buckets]
    /\ \A k \in Buckets : content[k] = None => rules[k] = {} /\ targets[k] = {}

OtherTypes ==
    /\ service \in [Names -> Services \cup {None}] /\ binds \in [Bindings -> 0..2]
    /\ fails \in 0..MaxFails
    /\ written \in [DOMAIN written -> Buckets] /\ DOMAIN written \subseteq Items
    /\ excused \subseteq Items /\ clashed \subseteq Bindings

Types == spec \in Specs /\ Attempts /\ BucketTypes /\ JobTypes /\ OtherTypes

\* The parts together are TypeOK and Shapes.
LEMMA TypesSplit == TypeOK /\ Shapes <=> Types
<1>1. ASSUME TypeOK, Shapes
      PROVE  Types
  <2>1. Attempts
    BY <1>1 DEF TypeOK, Shapes, Attempts
  <2>2. BucketTypes
    BY <1>1 DEF TypeOK, Shapes, BucketTypes, Exists
  <2> QED
    BY <1>1, <2>1, <2>2 DEF TypeOK, Shapes, Types, OtherTypes, JobTypes
<1>2. ASSUME Types
      PROVE  TypeOK /\ Shapes
  <2>1. Shapes
    BY <1>2 DEF Types, Shapes, Attempts, BucketTypes, JobTypes, OtherTypes
  <2>2. \A b \in Bindings :
          /\ read[b] \subseteq Buckets
          /\ call[b] \in CASE phase[b] = "binding" -> {"none", "set", "read", "write", "service"}
                           [] phase[b] = "unbinding" ->
                                {"none", "find", "drop", "forget", "job", "finish"}
                           [] OTHER -> {"none"}
    BY <1>2 DEF Types, Attempts
  <2>3. ASSUME NEW k \in Buckets
        PROVE  /\ content[k] = None \/ content[k] \subseteq Items
               /\ rules[k] \cup targets[k] \subseteq IF Exists(k) THEN Buckets ELSE {}
    <3>1. /\ content[k] \in (SUBSET Items) \cup {None}
          /\ rules[k] \subseteq Buckets /\ targets[k] \subseteq Buckets
          /\ content[k] = None => rules[k] = {} /\ targets[k] = {}
      BY <1>2 DEF Types, BucketTypes
    <3>2. content[k] = None \/ content[k] \subseteq Items
      BY <3>1
    <3>3. rules[k] \cup targets[k] \subseteq IF Exists(k) THEN Buckets ELSE {}
      <4>1. CASE content[k] = None
        BY <3>1, <4>1
      <4>2. CASE content[k] # None
        BY <3>1, <4>2 DEF Exists
      <4> QED
        BY <4>1, <4>2
    <3> QED
      BY <3>2, <3>3
  <2> QED
    BY <1>2, <2>1, <2>2, <2>3 DEF Types, Attempts, BucketTypes, JobTypes, OtherTypes, TypeOK
<1> QED
  BY <1>1, <1>2

\* The phases and calls of the attempts.
LEMMA AttemptsStep ==
    ASSUME Types, \A b \in Bindings : CallFits(b), Next
    PROVE  Attempts' /\ UNCHANGED spec
<1> USE DEF Types
<1>0. CallTypes
  BY DEF CallTypes, Attempts
<1>1. ASSUME NEW b \in Bindings, Create(b) \/ Delete(b)
      PROVE  Attempts' /\ UNCHANGED spec
  BY <1>1 DEF Create, Delete, Attempts
<1>2. ASSUME NEW b \in Bindings, Fail(b)
      PROVE  Attempts' /\ UNCHANGED spec
  BY <1>0, <1>2, GiveUpStep DEF Fail, Attempts, OthersStay
<1>3. ASSUME NEW b \in Bindings, MakeBucket(b)
      PROVE  Attempts' /\ UNCHANGED spec
  BY <1>0, <1>3, SyncStep DEF MakeBucket, Attempts, OthersStay, Sides
<1>4. ASSUME NEW b \in Bindings, SetTarget(b)
      PROVE  Attempts' /\ UNCHANGED spec
  <2>1. CASE GiveUp(b)
    BY <1>0, <1>4, <2>1, GiveUpStep DEF SetTarget, Attempts, OthersStay
  <2>2. CASE Goto(b, "read") /\ UNCHANGED <<side, read>>
    BY <1>0, <1>4, <2>2, GotoStep DEF SetTarget, Attempts, Calls
  <2> QED
    BY <1>4, <2>1, <2>2 DEF SetTarget
<1>5. ASSUME NEW b \in Bindings, ReadRules(b)
      PROVE  Attempts' /\ UNCHANGED spec
  <2>1. CASE AfterSync(b) /\ UNCHANGED read
    BY <1>0, <1>5, <2>1, AfterSyncStep DEF ReadRules, Attempts, OthersStay
  <2>2. ASSUME NEW failed \in BOOLEAN,
               read' = [read EXCEPT ![b] = IF failed THEN {} ELSE rules[Origin(b, side[b])]],
               Goto(b, "write"), UNCHANGED side
        PROVE  Attempts'
    <3>1. Origin(b, side[b]) \in Buckets
      BY <1>5, SpecFacts DEF ReadRules, CallFits, Replicates, Attempts
    <3>2. read' \in [Bindings -> SUBSET Buckets]
      BY <3>1, <2>2 DEF Attempts, BucketTypes
    <3> QED
      BY <1>0, <1>5, <2>2, <3>2, GotoStep DEF ReadRules, Attempts, Calls
  <2> QED
    BY <1>5, <2>1, <2>2 DEF ReadRules
<1>6. ASSUME NEW b \in Bindings, WriteRules(b)
      PROVE  Attempts' /\ UNCHANGED spec
  <2>1. CASE GiveUp(b)
    BY <1>0, <1>6, <2>1, GiveUpStep DEF WriteRules, Attempts, OthersStay
  <2>2. CASE AfterSync(b) /\ read' = [read EXCEPT ![b] = {}]
    BY <1>0, <1>6, <2>2, AfterSyncStep DEF WriteRules, Attempts, OthersStay
  <2> QED
    BY <1>6, <2>1, <2>2 DEF WriteRules
<1>7. ASSUME NEW b \in Bindings, PullOnCreate(b)
      PROVE  Attempts' /\ UNCHANGED spec
  BY <1>0, <1>7, AfterSyncStep DEF PullOnCreate, Attempts, OthersStay
<1>8. ASSUME NEW b \in Bindings, CreateService(b)
      PROVE  Attempts' /\ UNCHANGED spec
  BY <1>0, <1>8, GotoStep DEF CreateService, Attempts, Calls
<1>9. ASSUME NEW b \in Bindings, LookForBucket(b)
      PROVE  Attempts' /\ UNCHANGED spec
  <2>1. CASE Unsync(b, Sides)
    BY <1>0, <1>9, <2>1, UnsyncStep DEF LookForBucket, Attempts, OthersStay
  <2>2. CASE Goto(b, "finish") /\ UNCHANGED side
    BY <1>0, <1>9, <2>2, GotoStep DEF LookForBucket, Attempts, Calls
  <2> QED
    BY <1>9, <2>1, <2>2 DEF LookForBucket
<1>10. ASSUME NEW b \in Bindings, FindTarget(b)
       PROVE  Attempts' /\ UNCHANGED spec
  <2>1. CASE AfterUnsync(b)
    BY <1>0, <1>10, <2>1, AfterUnsyncStep DEF FindTarget, Attempts, OthersStay
  <2>2. CASE Goto(b, "drop") /\ UNCHANGED side
    BY <1>0, <1>10, <2>2, GotoStep DEF FindTarget, Attempts, Calls
  <2> QED
    BY <1>10, <2>1, <2>2 DEF FindTarget
<1>11. ASSUME NEW b \in Bindings, DropRules(b)
       PROVE  Attempts' /\ UNCHANGED spec
  BY <1>0, <1>11, GotoStep DEF DropRules, Attempts, Calls
<1>12. ASSUME NEW b \in Bindings, ForgetTarget(b)
       PROVE  Attempts' /\ UNCHANGED spec
  BY <1>0, <1>12, AfterUnsyncStep DEF ForgetTarget, Attempts, OthersStay
<1>13. ASSUME NEW b \in Bindings, PushOnDelete(b)
       PROVE  Attempts' /\ UNCHANGED spec
  <2>1. side' \in [Bindings -> Sides]
    BY <1>13 DEF PushOnDelete, Attempts, Sides
  <2> QED
    BY <1>0, <1>13, <2>1, GotoStep DEF PushOnDelete, Attempts, Calls
<1>14. ASSUME NEW b \in Bindings, DeleteBucket(b)
       PROVE  Attempts' /\ UNCHANGED spec
  BY <1>0, <1>14, GotoStep DEF DeleteBucket, Attempts, Calls
<1>15. ASSUME NEW b \in Bindings, Finish(b)
       PROVE  Attempts' /\ UNCHANGED spec
  BY <1>0, <1>15, GotoStep DEF Finish, Attempts, Calls
<1>16. ASSUME NEW k \in Open[spec], NEW x \in Items, Write(k, x)
       PROVE  Attempts' /\ UNCHANGED spec
  BY <1>16 DEF Write, Attempts
<1>17. ASSUME NEW j \in jobs, RunJob(j)
       PROVE  Attempts' /\ UNCHANGED spec
  BY <1>17 DEF RunJob, MirrorBucket, RemoveBucket, JobFails, Attempts
<1>18. CASE Tick \/ \E n \in Names : Collect(n)
  BY <1>18 DEF Tick, Collect, Attempts
<1> QED
  BY <1>1, <1>2, <1>3, <1>4, <1>5, <1>6, <1>7, <1>8, <1>9, <1>10, <1>11, <1>12, <1>13,
     <1>14, <1>15, <1>16, <1>17, <1>18 DEF Next, Bind, Unbind

\* What some versions more make of the buckets' content.
LEMMA CopiedStep ==
    ASSUME BucketTypes, UNCHANGED <<rules, targets>>, NEW to \in Buckets,
           NEW copied \in SUBSET Items, content[to] # None,
           content' = [content EXCEPT ![to] = @ \cup copied]
    PROVE  /\ BucketTypes'
           /\ \A k \in Buckets : content[k] # None =>
                 content'[k] # None /\ \A x \in content[k] : x \in content'[k]
<1>1. content[to] \cup copied \in SUBSET Items
  BY DEF BucketTypes
<1>2. content'[to] = content[to] \cup copied /\ content'[to] # None
  BY <1>1, NoneAssumption DEF BucketTypes
<1>3. content' \in [Buckets -> (SUBSET Items) \cup {None}]
  BY <1>1 DEF BucketTypes
<1>4. \A k \in Buckets \ {to} : content'[k] = content[k]
  BY DEF BucketTypes
<1> QED
  BY <1>2, <1>3, <1>4 DEF BucketTypes

\* A Job that mirrors, or fails to, takes nothing from any bucket.
LEMMA MirrorStep ==
    ASSUME Types, NEW j \in jobs, MirrorBucket(j) \/ JobFails(j)
    PROVE  /\ BucketTypes'
           /\ \A k \in Buckets : content[k] # None =>
                 content'[k] # None /\ \A x \in content[k] : x \in content'[k]
<1> USE DEF Types
<1> DEFINE from == j.work.from
<1> DEFINE to == j.work.to
<1>1. UNCHANGED <<rules, targets>>
  BY DEF MirrorBucket, JobFails
<1>2. CASE UNCHANGED content
  BY <1>1, <1>2 DEF BucketTypes
<1>3. ASSUME from # None, Ready(j.work), NEW copied \in SUBSET Lacking(from, to),
             content' = [content EXCEPT ![to] = @ \cup copied]
      PROVE  /\ BucketTypes'
             /\ \A k \in Buckets : content[k] # None =>
                   content'[k] # None /\ \A x \in content[k] : x \in content'[k]
  <2>1. from \in Buckets /\ to \in Buckets \cup {None}
    BY <1>3 DEF JobTypes, Jobs
  <2>2. content[from] # None /\ content[to] # None
    BY <1>3 DEF Ready, Exists
  <2>3. copied \in SUBSET Items
    BY <1>3, <2>1, <2>2 DEF Lacking, BucketTypes
  <2> HIDE DEF from, to
  <2>4. CASE to \in Buckets
    BY <1>1, <1>3, <2>2, <2>3, <2>4, CopiedStep
  <2>5. CASE to \notin Buckets
    <3>1. UNCHANGED content
      BY <1>3, <2>5 DEF BucketTypes
    <3> QED
      BY <1>2, <3>1
  <2> QED
    BY <2>4, <2>5
<1>4. CASE MirrorBucket(j)
  <2>1. \/ UNCHANGED content
        \/ /\ from # None /\ Ready(j.work)
           /\ content' = [content EXCEPT ![to] = @ \cup Lacking(from, to)]
    BY <1>4 DEF MirrorBucket
  <2> QED
    BY <1>2, <1>3, <2>1
<1>5. CASE JobFails(j)
  <2>1. \/ UNCHANGED content
        \/ /\ from # None /\ Ready(j.work)
           /\ \E copied \in SUBSET Lacking(from, to) :
                 content' = [content EXCEPT ![to] = @ \cup copied]
    BY <1>5 DEF JobFails
  <2> QED
    BY <1>2, <1>3, <2>1
<1> QED
  BY <1>4, <1>5

\* Only the version that is replaced goes from the bucket that a user writes to.
LEMMA WriteStep ==
    ASSUME Types, NEW k \in Open[spec], NEW x \in Items, Write(k, x)
    PROVE  /\ BucketTypes'
           /\ k \in Buckets /\ content'[k] # None /\ x \in content'[k]
           /\ \A i \in Buckets, y \in Items :
                 Holds(i, y) /\ y \notin {z \in content[k] : Same(x, z)}
                    => content'[i] # None /\ y \in content'[i]
<1> USE DEF Types
<1> DEFINE others == {y \in content[k] : ~Same(x, y)}
<1>1. /\ content' = [content EXCEPT ![k] = others \cup {x}]
      /\ content[k] # None /\ UNCHANGED <<rules, targets>>
  BY DEF Write, Exists
<1>2. k \in Buckets
  BY SpecsAssumption
<1>3. others \cup {x} \in SUBSET Items
  BY <1>1, <1>2 DEF BucketTypes
<1>4. \A y : y \in content[k] /\ ~Same(x, y) => y \in others
  OBVIOUS
<1> HIDE DEF others
<1>5. content'[k] = others \cup {x} /\ \A i \in Buckets \ {k} : content'[i] = content[i]
  BY <1>1, <1>2 DEF BucketTypes
<1>6. content'[k] # None
  BY <1>3, <1>5, NoneAssumption
<1>7. BucketTypes'
  BY <1>1, <1>2, <1>3, <1>6 DEF BucketTypes
<1>8. ASSUME NEW i \in Buckets, NEW y \in Items, Holds(i, y),
             y \notin {z \in content[k] : Same(x, z)}
      PROVE  content'[i] # None /\ y \in content'[i]
  BY <1>4, <1>5, <1>6, <1>8 DEF Holds, Exists
<1> QED
  BY <1>2, <1>5, <1>6, <1>7, <1>8

\* The buckets: only those that exist are replicated.
LEMMA BucketsStep ==
    ASSUME Types, \A b \in Bindings : CallFits(b), Next
    PROVE  BucketTypes'
<1> USE DEF Types
<1>1. ASSUME UNCHANGED bucketVars
      PROVE  BucketTypes'
  BY <1>1 DEF bucketVars, BucketTypes
<1>2. ASSUME NEW b \in Bindings, MakeBucket(b)
      PROVE  BucketTypes'
  <2>1. content' = IF Exists(Bucket(b)) THEN content ELSE [content EXCEPT ![Bucket(b)] = {}]
    BY <1>2 DEF MakeBucket
  <2> QED
    BY <1>2, <2>1, SpecFacts DEF MakeBucket, BucketTypes, Exists
<1>3. ASSUME NEW b \in Bindings, SetTarget(b)
      PROVE  BucketTypes'
  <2>1. Origin(b, side[b]) \in Buckets /\ Copy(b, side[b]) \in Buckets
    BY <1>3, SpecFacts DEF SetTarget, Replicates, Attempts
  <2>2. CASE targets' = targets
    BY <1>3, <2>2 DEF SetTarget, BucketTypes
  <2>3. CASE /\ Exists(Origin(b, side[b]))
             /\ targets' = [targets EXCEPT ![Origin(b, side[b])] = @ \cup {Copy(b, side[b])}]
    BY <1>3, <2>1, <2>3 DEF SetTarget, BucketTypes, Exists
  <2> QED
    BY <1>3, <2>2, <2>3 DEF SetTarget
<1>4. ASSUME NEW b \in Bindings, WriteRules(b)
      PROVE  BucketTypes'
  <2>1. Origin(b, side[b]) \in Buckets /\ Copy(b, side[b]) \in Buckets
    BY <1>4, SpecFacts DEF WriteRules, CallFits, Replicates, Attempts
  <2>2. CASE rules' = rules
    BY <1>4, <2>2 DEF WriteRules, BucketTypes
  <2>3. CASE /\ Exists(Origin(b, side[b]))
             /\ rules' = [rules EXCEPT ![Origin(b, side[b])] = read[b] \cup {Copy(b, side[b])}]
    BY <1>4, <2>1, <2>3 DEF WriteRules, BucketTypes, Exists, Attempts
  <2> QED
    BY <1>4, <2>2, <2>3 DEF WriteRules
<1>5. ASSUME NEW b \in Bindings, DropRules(b)
      PROVE  BucketTypes'
  BY <1>5 DEF DropRules, BucketTypes
<1>6. ASSUME NEW b \in Bindings, ForgetTarget(b)
      PROVE  BucketTypes'
  BY <1>6 DEF ForgetTarget, BucketTypes
<1>7. ASSUME NEW j \in jobs, MirrorBucket(j) \/ JobFails(j)
      PROVE  BucketTypes'
  BY <1>7, MirrorStep
<1>8. ASSUME NEW j \in jobs, RemoveBucket(j)
      PROVE  BucketTypes'
  <2> DEFINE gone == {k \in j.work.remove : Exists(k)}
  <2>1. /\ content' = [k \in Buckets |-> IF k \in gone THEN None ELSE content[k]]
        /\ rules' = [k \in Buckets |-> IF k \in gone THEN {} ELSE rules[k]]
        /\ targets' = [k \in Buckets |-> IF k \in gone THEN {} ELSE targets[k]]
    BY <1>8 DEF RemoveBucket
  <2> HIDE DEF gone
  <2> QED
    BY <2>1 DEF BucketTypes
<1>9. ASSUME NEW k \in Open[spec], NEW x \in Items, Write(k, x)
      PROVE  BucketTypes'
  BY <1>9, WriteStep
<1>10. ASSUME NEW b \in Bindings,
              Create(b) \/ Delete(b) \/ Fail(b) \/ ReadRules(b) \/ PullOnCreate(b)
                 \/ CreateService(b) \/ LookForBucket(b) \/ FindTarget(b)
                 \/ PushOnDelete(b) \/ DeleteBucket(b) \/ Finish(b)
       PROVE  UNCHANGED bucketVars
  BY <1>10 DEF Create, Delete, Fail, ReadRules, PullOnCreate, CreateService, LookForBucket,
       FindTarget, PushOnDelete, DeleteBucket, Finish
<1>11. ASSUME Tick \/ \E n \in Names : Collect(n)
       PROVE  UNCHANGED bucketVars
  BY <1>11 DEF Tick, Collect
<1> QED
  BY <1>1, <1>2, <1>3, <1>4, <1>5, <1>6, <1>7, <1>8, <1>9, <1>10, <1>11
     DEF Next, Bind, Unbind, RunJob

\* Jobs, and what they may remove.
LEMMA JobsStep ==
    ASSUME Types, \A b \in Bindings : CallFits(b), JobsInv, Next
    PROVE  JobTypes' /\ JobsInv'
<1> USE DEF Types
<1>0. ASSUME NEW w, WorkFits(w), UNCHANGED spec
      PROVE  WorkFits(w)'
  BY <1>0, SpecStill DEF WorkFits, Removes, Sides
<1>1. ASSUME UNCHANGED jobs, UNCHANGED spec
      PROVE  JobTypes' /\ JobsInv'
  BY <1>0, <1>1 DEF JobTypes, JobsInv
<1>2. ASSUME NEW b \in Bindings, NEW name \in Names,
             NEW command \in {"pull", "push", "delete"}, NEW work \in Work,
             CreateJob(b, name, command, work), WorkFits(work), UNCHANGED spec
      PROVE  JobTypes' /\ JobsInv'
  BY <1>0, <1>2, CreateJobStep DEF JobsInv
<1>3. ASSUME NEW b \in Bindings, PullOnCreate(b)
      PROVE  JobTypes' /\ JobsInv'
  <2>1. Policy(b, "pull") = "OnCreate"
    BY <1>3, SpecFacts DEF PullOnCreate, Attempts, Sides
  <2> DEFINE work == Mirror(SourceBucket(b), Bucket(b))
  <2>2. work \in Work /\ WorkFits(work) /\ spec[b].model \in Names
    BY <2>1, WorkTypes
  <2>3. CreateJob(b, spec[b].model, "pull", work) /\ UNCHANGED spec
    BY <1>3 DEF PullOnCreate
  <2> HIDE DEF work
  <2> QED
    BY <1>2, <2>2, <2>3
<1>4. ASSUME NEW b \in Bindings, PushOnDelete(b)
      PROVE  JobTypes' /\ JobsInv'
  <2>1. Policy(b, "push") = "OnDelete"
    BY <1>4, SpecFacts DEF PushOnDelete, Attempts, Sides
  <2> DEFINE remove == IF spec[b].policy = "Delete" THEN {Bucket(b)} ELSE {}
  <2> DEFINE work == [Mirror(Bucket(b), SourceBucket(b)) EXCEPT !.remove = remove]
  <2>2. work \in Work /\ WorkFits(work) /\ SourceBucket(b)[2] \in Names
    BY <2>1, WorkTypes
  <2>3. CreateJob(b, SourceBucket(b)[2], "push", work) /\ UNCHANGED spec
    BY <1>4 DEF PushOnDelete
  <2> HIDE DEF work
  <2> QED
    BY <1>2, <2>2, <2>3
<1>5. ASSUME NEW b \in Bindings, DeleteBucket(b)
      PROVE  JobTypes' /\ JobsInv'
  <2>1. Policy(b, "push") # "OnDelete"
    BY <1>5 DEF DeleteBucket, CallFits
  <2> DEFINE work == [Mirror(None, None) EXCEPT !.remove = {Bucket(b)}]
  <2>2. work \in Work /\ WorkFits(work) /\ spec[b].model \in Names
    BY <2>1, WorkTypes
  <2>3. CreateJob(b, spec[b].model, "delete", work) /\ UNCHANGED spec
    BY <1>5 DEF DeleteBucket
  <2> HIDE DEF work
  <2> QED
    BY <1>2, <2>2, <2>3
<1>6. ASSUME NEW j \in jobs, RunJob(j)
      PROVE  JobTypes' /\ JobsInv'
  <2>1. UNCHANGED spec /\ \E s \in {"mirrored", "finished", "failed"} : Becomes(j, s)
    BY <1>6 DEF RunJob, MirrorBucket, RemoveBucket, JobFails
  <2> QED
    BY <1>0, <2>1, BecomesStep DEF JobsInv
<1>7. CASE Tick
  <2>1. UNCHANGED spec
    BY <1>7 DEF Tick
  <2> QED
    BY <1>0, <1>7, <2>1, TickStep DEF JobsInv
<1>8. ASSUME NEW b \in Bindings,
             Create(b) \/ Delete(b) \/ Fail(b) \/ MakeBucket(b) \/ SetTarget(b)
                \/ ReadRules(b) \/ WriteRules(b) \/ CreateService(b) \/ LookForBucket(b)
                \/ FindTarget(b) \/ DropRules(b) \/ ForgetTarget(b) \/ Finish(b)
      PROVE  UNCHANGED jobs /\ UNCHANGED spec
  BY <1>8 DEF Create, Delete, Fail, MakeBucket, SetTarget, ReadRules, WriteRules, CreateService,
       LookForBucket, FindTarget, DropRules, ForgetTarget, Finish
<1>9. ASSUME NEW k \in Open[spec], NEW x \in Items, Write(k, x)
      PROVE  UNCHANGED jobs /\ UNCHANGED spec
  BY <1>9 DEF Write
<1>10. ASSUME NEW n \in Names, Collect(n)
       PROVE  UNCHANGED jobs /\ UNCHANGED spec
  BY <1>10 DEF Collect
<1> QED
  BY <1>1, <1>3, <1>4, <1>5, <1>6, <1>7, <1>8, <1>9, <1>10 DEF Next, Bind, Unbind

\* Services, counters and histories.
LEMMA OthersStep ==
    ASSUME Types, Next
    PROVE  OtherTypes'
<1> USE DEF Types
<1>0. \A b \in Bindings, k \in Buckets : Sharing(b, k) \subseteq Bindings
  BY DEF Sharing
<1>1. ASSUME NEW b \in Bindings, Create(b)
      PROVE  OtherTypes'
  <2>1. binds[b] + 1 \in 0..2
    BY <1>1 DEF Create, OtherTypes
  <2> QED
    BY <1>1, <2>1 DEF Create, OtherTypes
<1>2. ASSUME NEW b \in Bindings, Fail(b)
      PROVE  OtherTypes'
  BY <1>2, BoundsAssumption DEF Fail, OtherTypes, historyVars
<1>3. ASSUME NEW b \in Bindings, ReadRules(b)
      PROVE  OtherTypes'
  <2>1. fails' \in 0..MaxFails
    BY <1>3, BoundsAssumption DEF ReadRules, OtherTypes
  <2>2. clashed' \subseteq Bindings
    BY <1>3 DEF ReadRules, OtherTypes, Sharing
  <2> QED
    BY <1>3, <2>1, <2>2 DEF ReadRules, OtherTypes
<1>4. ASSUME NEW b \in Bindings, WriteRules(b)
      PROVE  OtherTypes'
  BY <1>4 DEF WriteRules, OtherTypes
<1>5. ASSUME NEW b \in Bindings, CreateService(b)
      PROVE  OtherTypes'
  <2> DEFINE own == [owner |-> b, uid |-> binds[b], host |-> Host(b)]
  <2>1. Host(b) \in Storages
    BY SpecFacts DEF Host, BindingSpec
  <2>2. own \in Services
    BY <2>1 DEF Services, OtherTypes
  <2>3. service' = [service EXCEPT ![spec[b].model] = IF @ = None THEN own ELSE @]
    BY <1>5 DEF CreateService
  <2> HIDE DEF own
  <2>4. service' \in [Names -> Services \cup {None}]
    BY <2>2, <2>3 DEF OtherTypes
  <2> QED
    BY <1>5, <2>4 DEF CreateService, OtherTypes
<1>6. ASSUME NEW b \in Bindings, DropRules(b) \/ ForgetTarget(b)
      PROVE  OtherTypes'
  <2>1. fails' \in 0..MaxFails
    BY <1>6, BoundsAssumption DEF DropRules, ForgetTarget, OtherTypes
  <2>2. clashed' \subseteq Bindings
    BY <1>6 DEF DropRules, ForgetTarget, OtherTypes, Sharing
  <2> QED
    BY <1>6, <2>1, <2>2 DEF DropRules, ForgetTarget, OtherTypes
<1>7. ASSUME NEW j \in jobs, RunJob(j)
      PROVE  OtherTypes'
  <2>1. CASE MirrorBucket(j)
    <3>1. ASSUME j.work.from # None
          PROVE  Differing(j.work.from, j.work.to) \subseteq Items
      BY <2>1, <3>1 DEF MirrorBucket, Ready, Exists, Differing, JobTypes, Jobs, BucketTypes
    <3>2. excused' \subseteq Items
      BY <2>1, <3>1 DEF MirrorBucket, OtherTypes
    <3> QED
      BY <2>1, <3>2 DEF MirrorBucket, OtherTypes
  <2>2. CASE RemoveBucket(j) \/ JobFails(j)
    BY <2>2 DEF RemoveBucket, JobFails, OtherTypes, historyVars
  <2> QED
    BY <1>7, <2>1, <2>2 DEF RunJob
<1>8. ASSUME NEW k \in Open[spec], NEW x \in Items, Write(k, x)
      PROVE  OtherTypes'
  <2>1. k \in Buckets
    BY SpecsAssumption
  <2>2. /\ DOMAIN written' = DOMAIN written \cup {x}
        /\ written' \in [DOMAIN written \cup {x} -> Buckets]
    BY <1>8, <2>1 DEF Write, OtherTypes
  <2>3. excused' \subseteq Items
    BY <1>8, <2>1 DEF Write, Exists, BucketTypes, OtherTypes
  <2> QED
    BY <1>8, <2>2, <2>3 DEF Write, OtherTypes
<1>9. ASSUME NEW n \in Names, Collect(n)
      PROVE  OtherTypes'
  BY <1>9 DEF Collect, OtherTypes, historyVars
<1>10. ASSUME NEW b \in Bindings,
              Delete(b) \/ MakeBucket(b) \/ SetTarget(b) \/ PullOnCreate(b) \/ LookForBucket(b)
                 \/ FindTarget(b) \/ PushOnDelete(b) \/ DeleteBucket(b) \/ Finish(b)
       PROVE  OtherTypes'
  BY <1>10 DEF Delete, MakeBucket, SetTarget, PullOnCreate, LookForBucket, FindTarget,
       PushOnDelete, DeleteBucket, Finish, OtherTypes, historyVars
<1>11. CASE Tick
  BY <1>11 DEF Tick, OtherTypes, historyVars
<1> QED
  BY <1>1, <1>2, <1>3, <1>4, <1>5, <1>6, <1>7, <1>8, <1>9, <1>10, <1>11
     DEF Next, Bind, Unbind

\* The types together.
LEMMA TypesStep ==
    ASSUME Types, \A b \in Bindings : CallFits(b), JobsInv, Next
    PROVE  Types' /\ UNCHANGED spec
  BY AttemptsStep, BucketsStep, JobsStep, OthersStep DEF Types

-------------------------------------------------------------------------------
(* Calls fit the policies. *)

\* A call is made only for a policy that asks for it.
LEMMA CallFitsStep ==
    ASSUME Types, \A b \in Bindings : CallFits(b), Next
    PROVE  \A b \in Bindings : CallFits(b)'
<1> USE DEF Types
<1>0. CallTypes /\ UNCHANGED spec
  BY AttemptsStep DEF CallTypes, Attempts
<1>1. ASSUME NEW c \in Bindings,
             \/ call'[c] = call[c] /\ side'[c] = side[c]
             \/ call'[c] \in {"none", "service", "finish"}
      PROVE  CallFits(c)'
  BY <1>0, <1>1, SpecStill DEF CallFits, Attempts, Sides
<1>2. ASSUME NEW b \in Bindings, OthersStay(b), CallFits(b)'
      PROVE  \A c \in Bindings : CallFits(c)'
  BY <1>1, <1>2 DEF OthersStay
<1>3. ASSUME NEW b \in Bindings,
             Create(b) \/ Delete(b) \/ Fail(b) \/ CreateService(b) \/ PushOnDelete(b)
                \/ DeleteBucket(b) \/ Finish(b)
      PROVE  \A c \in Bindings : CallFits(c)'
  BY <1>1, <1>3 DEF Create, Delete, Fail, GiveUp, Goto, CreateService, PushOnDelete,
       DeleteBucket, Finish, Attempts
<1>4. ASSUME NEW b \in Bindings, MakeBucket(b)
      PROVE  \A c \in Bindings : CallFits(c)'
  <2>1. OthersStay(b) /\ CallFits(b)'
    BY <1>0, <1>4, SyncStep, SpecStill DEF MakeBucket, CallFits, OthersStay
  <2> QED
    BY <1>2, <2>1
<1>5. ASSUME NEW b \in Bindings, AfterSync(b)
      PROVE  \A c \in Bindings : CallFits(c)'
  <2>1. OthersStay(b) /\ CallFits(b)'
    BY <1>0, <1>5, AfterSyncStep, SpecStill DEF CallFits, OthersStay
  <2> QED
    BY <1>2, <2>1
<1>6. ASSUME NEW b \in Bindings, GiveUp(b)
      PROVE  \A c \in Bindings : CallFits(c)'
  BY <1>1, <1>6 DEF GiveUp, Goto, Attempts
<1>7. ASSUME NEW b \in Bindings, Replicates(b, side[b]), UNCHANGED side,
             NEW next \in {"read", "write", "drop", "forget"}, Goto(b, next)
      PROVE  \A c \in Bindings : CallFits(c)'
  <2>1. OthersStay(b) /\ CallFits(b)'
    BY <1>0, <1>7, SpecStill DEF Goto, OthersStay, CallFits, Calls, Attempts
  <2> QED
    BY <1>2, <2>1
<1>8. ASSUME NEW b \in Bindings, LookForBucket(b)
      PROVE  \A c \in Bindings : CallFits(c)'
  <2>1. CASE Unsync(b, Sides)
    <3>1. OthersStay(b) /\ CallFits(b)'
      BY <1>0, <2>1, UnsyncStep, SpecStill DEF CallFits, OthersStay, Sides
    <3> QED
      BY <1>2, <3>1
  <2>2. CASE Goto(b, "finish") /\ UNCHANGED side
    BY <1>1, <2>2 DEF Goto, Attempts
  <2> QED
    BY <1>8, <2>1, <2>2 DEF LookForBucket
<1>9. ASSUME NEW b \in Bindings, Replicates(b, side[b]), AfterUnsync(b)
      PROVE  \A c \in Bindings : CallFits(c)'
  <2>1. side[b] # "pull" => Replicates(b, "push")
    BY <1>9 DEF Attempts, Sides
  <2>2. OthersStay(b) /\ CallFits(b)'
    BY <1>0, <1>9, <2>1, AfterUnsyncStep, SpecStill DEF CallFits, OthersStay, Replicates, Sides
  <2> QED
    BY <1>2, <2>2
<1>10. ASSUME NEW b \in Bindings,
              SetTarget(b) \/ ReadRules(b) \/ WriteRules(b) \/ PullOnCreate(b)
       PROVE  \A c \in Bindings : CallFits(c)'
  <2>1. Replicates(b, side[b]) \/ PullOnCreate(b)
    BY <1>10 DEF SetTarget, ReadRules, WriteRules, CallFits
  <2>2. \/ AfterSync(b) \/ GiveUp(b)
        \/ UNCHANGED side /\ (Goto(b, "read") \/ Goto(b, "write")) /\ ~PullOnCreate(b)
    BY <1>10 DEF SetTarget, ReadRules, WriteRules, PullOnCreate
  <2> QED
    BY <1>5, <1>6, <1>7, <2>1, <2>2
<1>11. ASSUME NEW b \in Bindings, FindTarget(b) \/ DropRules(b) \/ ForgetTarget(b)
       PROVE  \A c \in Bindings : CallFits(c)'
  <2>1. Replicates(b, side[b])
    BY <1>11 DEF FindTarget, DropRules, ForgetTarget, CallFits
  <2>2. AfterUnsync(b) \/ (UNCHANGED side /\ (Goto(b, "drop") \/ Goto(b, "forget")))
    BY <1>11 DEF FindTarget, DropRules, ForgetTarget
  <2> QED
    BY <1>7, <1>9, <2>1, <2>2
<1>12. ASSUME UNCHANGED <<call, side>>
       PROVE  \A c \in Bindings : CallFits(c)'
  BY <1>1, <1>12
<1>13. ASSUME NEW j \in jobs, RunJob(j)
       PROVE  UNCHANGED <<call, side>>
  BY <1>13 DEF RunJob, MirrorBucket, RemoveBucket, JobFails
<1>14. ASSUME NEW k \in Open[spec], NEW x \in Items, Write(k, x)
       PROVE  UNCHANGED <<call, side>>
  BY <1>14 DEF Write
<1>15. ASSUME Tick \/ \E n \in Names : Collect(n)
       PROVE  UNCHANGED <<call, side>>
  BY <1>15 DEF Tick, Collect
<1> QED
  BY <1>3, <1>4, <1>8, <1>10, <1>11, <1>12, <1>13, <1>14, <1>15 DEF Next, Bind, Unbind

-------------------------------------------------------------------------------
(* Binding: what is established stays, or somebody else has clashed with it. *)

\* Nobody but c comes to replace rules that it was not about to replace before.
NoNewWriters(c) ==
    \A d \in Bindings \ {c} :
       call'[d] = "write" => call[d] = "write" /\ side'[d] = side[d] /\ read'[d] = read[d]

\* A replication whose rule and target are there after a step.
LEMMA ReplicatedAfter ==
    ASSUME NEW c \in Bindings, NEW s \in Sides, Attempts', UNCHANGED spec,
           Copy(c, s) \in rules'[Origin(c, s)], Copy(c, s) \in targets'[Origin(c, s)],
           \A d \in Bindings \ {c} :
              call'[d] = "write" /\ Origin(d, side'[d]) = Origin(c, s) => Copy(c, s) \in read'[d]
    PROVE  Replicated(c, s)'
<1>1. /\ Origin(c, s)' = Origin(c, s) /\ Copy(c, s)' = Copy(c, s)
      /\ \A d \in Bindings : Origin(d, side[d])' = Origin(d, side'[d])
  BY SpecStill DEF Attempts
<1> QED
  BY <1>1 DEF Replicated

\* A replication whose rule and target stay is still there.
LEMMA ReplicatedKept ==
    ASSUME NEW c \in Bindings, NEW s \in Sides, Types, Attempts', UNCHANGED spec,
           Replicated(c, s), NoNewWriters(c),
           Copy(c, s) \in rules'[Origin(c, s)], Copy(c, s) \in targets'[Origin(c, s)]
    PROVE  Replicated(c, s)'
<1>1. ASSUME NEW d \in Bindings \ {c}, call'[d] = "write", Origin(d, side'[d]) = Origin(c, s)
      PROVE  Copy(c, s) \in read'[d]
  BY <1>1 DEF Replicated, NoNewWriters
<1> QED
  BY <1>1, ReplicatedAfter

\* A binding that establishes nothing new, and whose replication stays.
LEMMA SyncKept ==
    ASSUME NEW c \in Bindings, Types, Attempts', UNCHANGED spec, SyncInv(c),
           c \in clashed => c \in clashed',
           phase'[c] = phase[c], call'[c] = call[c], side'[c] = side[c],
           \A s \in Sides : Replicates(c, s) /\ c \notin clashed' =>
              /\ Replicated(c, s) => Replicated(c, s)'
              /\ Copy(c, s) \in targets[Origin(c, s)] => Copy(c, s) \in targets'[Origin(c, s)],
           CallFits(c)
    PROVE  SyncInv(c)'
<1> SUFFICES ASSUME c \notin clashed'
             PROVE  /\ \A s \in Sides : Replicates(c, s) /\ Established(c, s)' => Replicated(c, s)'
                    /\ TargetSet(c)'
  BY SpecStill DEF SyncInv
<1>1. ASSUME NEW s \in Sides, Replicates(c, s), Established(c, s)'
      PROVE  Replicated(c, s)'
  BY <1>1 DEF SyncInv, Established
<1>2. TargetSet(c)'
  BY SpecStill DEF TargetSet, SyncInv, CallFits, Types, Attempts
<1> QED
  BY <1>1, <1>2

\* A binding that has established nothing.
LEMMA NothingEstablished ==
    ASSUME NEW c \in Bindings, UNCHANGED spec, call'[c] \notin {"read", "write"},
           \A s \in Sides : Replicates(c, s) => ~Established(c, s)'
    PROVE  SyncInv(c)'
  BY SpecStill DEF SyncInv, TargetSet

\* The side that an attempt leaves is established.
LEMMA SideEstablished ==
    ASSUME NEW b \in Bindings, Types, Attempts', UNCHANGED spec, phase[b] = "binding",
           phase'[b] = "binding", call[b] \in {"read", "write"}, AfterSync(b),
           \A s \in Sides :
              s = side[b] \/ (Replicates(b, s) /\ Established(b, s)) => Replicated(b, s)'
    PROVE  SyncInv(b)'
<1>1. CallTypes
  BY DEF CallTypes, Types, Attempts
<1>2. call'[b] \notin {"read", "write"}
  BY <1>1, AfterSyncStep
<1>3. ASSUME NEW s \in Sides, Replicates(b, s), Established(b, s)'
      PROVE  Replicated(b, s)'
  <2>1. s = side[b] \/ Established(b, s)
    BY <1>1, <1>3, AfterSyncStep DEF Established, Types, Attempts, Sides
  <2> QED
    BY <1>3, <2>1
<1> QED
  BY <1>2, <1>3, SpecStill DEF SyncInv, TargetSet

\* Every step keeps what the bindings have synced: this is where those that overtake
\* each other at a bucket's rules have to be told apart (clashed).
LEMMA SyncedStep ==
    ASSUME Types, \A b \in Bindings : CallFits(b), JobsInv, SyncedInv, Next
    PROVE  SyncedInv'
<1> USE DEF Types
<1>0. /\ CallTypes /\ UNCHANGED spec /\ Attempts' /\ BucketTypes'
      /\ \A c \in Bindings : SyncInv(c)
      /\ \A c \in Bindings : side[c] \in Sides
      /\ \A c \in Bindings : CallFits(c)'
  BY TypesStep, CallFitsStep DEF CallTypes, Attempts, SyncedInv
<1>1. ASSUME \A c \in Bindings : SyncInv(c)'
      PROVE  SyncedInv'
  BY <1>1 DEF SyncedInv
\* Where rules and targets only grow and nobody begins to write.
<1>2. ASSUME NEW b \in Bindings, SyncInv(b)',
             \A c \in Bindings \ {b} : phase'[c] = phase[c] /\ call'[c] = call[c] /\ side'[c] = side[c],
             call'[b] # "write", \A c \in Bindings \ {b} : read'[c] = read[c],
             clashed \ {b} \subseteq clashed',
             UNCHANGED rules, \A k \in Buckets : targets[k] \subseteq targets'[k]
      PROVE  SyncedInv'
  <2>1. ASSUME NEW c \in Bindings \ {b}
        PROVE  SyncInv(c)'
    <3>1. NoNewWriters(c)
      BY <1>2 DEF NoNewWriters
    <3>2. ASSUME NEW s \in Sides, Replicates(c, s)
          PROVE  /\ Replicated(c, s) => Replicated(c, s)'
                 /\ Copy(c, s) \in targets[Origin(c, s)] => Copy(c, s) \in targets'[Origin(c, s)]
      <4>1. Origin(c, s) \in Buckets
        BY <3>2, SpecFacts DEF Replicates
      <4>2. Copy(c, s) \in targets[Origin(c, s)] => Copy(c, s) \in targets'[Origin(c, s)]
        BY <1>2, <4>1
      <4>3. Replicated(c, s) => Copy(c, s) \in rules'[Origin(c, s)] \cap targets'[Origin(c, s)]
        BY <1>2, <4>2 DEF Replicated
      <4> QED
        BY <1>0, <3>1, <4>2, <4>3, ReplicatedKept
    <3> QED
      BY <1>0, <1>2, <3>2, SyncKept
  <2> QED
    BY <1>1, <1>2, <2>1
<1>3. ASSUME UNCHANGED <<phase, call, side, read, rules, targets, clashed>>
      PROVE  SyncedInv'
  <2>1. ASSUME NEW c \in Bindings
        PROVE  SyncInv(c)'
    <3>1. ASSUME NEW s \in Sides, Replicated(c, s)
          PROVE  Replicated(c, s)'
      BY <1>0, <1>3, <3>1, ReplicatedKept DEF Replicated, NoNewWriters
    <3> QED
      BY <1>0, <1>3, <3>1, SyncKept
  <2> QED
    BY <1>1, <2>1
<1>4. ASSUME NEW b \in Bindings, Create(b) \/ Delete(b) \/ Fail(b)
      PROVE  SyncedInv'
  <2>1. phase'[b] # "bound" /\ call'[b] = "none"
    BY <1>4, <1>0, GiveUpStep DEF Create, Delete, Fail, Attempts
  <2>2. SyncInv(b)'
    BY <1>0, <2>1, NothingEstablished DEF Established
  <2> QED
    BY <1>0, <1>2, <1>4, <2>1, <2>2, GiveUpStep
       DEF Create, Delete, Fail, bucketVars, historyVars, OthersStay, Attempts
<1>5. ASSUME NEW b \in Bindings, MakeBucket(b)
      PROVE  SyncedInv'
  <2>1. /\ OthersStay(b) /\ call'[b] \in {"set", "service"} /\ phase'[b] # "bound"
        /\ \A s \in Sides : Replicates(b, s) => ~Established(b, s)'
    BY <1>0, <1>5, SyncStep DEF MakeBucket, Established, Sides
  <2>2. SyncInv(b)'
    BY <1>0, <2>1, NothingEstablished
  <2> QED
    BY <1>2, <1>5, <2>1, <2>2 DEF MakeBucket, historyVars, OthersStay
<1>6. ASSUME NEW b \in Bindings, SetTarget(b)
      PROVE  SyncedInv'
  <2> DEFINE k == Origin(b, side[b])
  <2> DEFINE to == Copy(b, side[b])
  <2>1. CASE GiveUp(b)
    <3>1. UNCHANGED <<phase, rules, clashed>> /\ UNCHANGED targets /\ phase[b] # "bound"
      BY <1>6, <2>1 DEF SetTarget, historyVars, Attempts, GiveUp, Goto
    <3>2. SyncInv(b)'
      BY <1>0, <2>1, <3>1, GiveUpStep, NothingEstablished DEF Established, Attempts
    <3> QED
      BY <1>0, <1>2, <2>1, <3>1, <3>2, GiveUpStep DEF OthersStay, Attempts
  <2>2. CASE /\ targets' = [targets EXCEPT ![k] = @ \cup {to}]
             /\ Goto(b, "read") /\ UNCHANGED <<side, read>>
    <3>1. /\ call'[b] = "read" /\ \A c \in Bindings \ {b} : call'[c] = call[c]
          /\ UNCHANGED <<phase, rules, clashed>> /\ phase[b] = "binding" /\ call[b] = "set"
      BY <1>0, <1>6, <2>2, GotoStep DEF SetTarget, historyVars, Attempts, Calls
    <3>2. /\ k \in Buckets /\ to \in targets'[k]
          /\ \A l \in Buckets : targets[l] \subseteq targets'[l]
      BY <1>0, <1>6, <2>2, SpecFacts DEF SetTarget, Replicates, BucketTypes
    <3>3. ASSUME NEW s \in Sides, Replicates(b, s), Established(b, s)', b \notin clashed
          PROVE  Replicated(b, s)'
      <4>1. Established(b, s)
        BY <2>2, <3>1, <3>3 DEF Established
      <4>2. Replicated(b, s)
        BY <1>0, <3>3, <4>1 DEF SyncInv
      <4>3. Origin(b, s) \in Buckets
        BY <3>3, SpecFacts DEF Replicates
      <4>4. NoNewWriters(b)
        BY <2>2, <3>1 DEF NoNewWriters
      <4> QED
        BY <1>0, <3>1, <3>2, <4>2, <4>3, <4>4, ReplicatedKept DEF Replicated
    <3>4. TargetSet(b)'
      BY <1>0, <2>2, <3>2, SpecStill DEF TargetSet
    <3>5. SyncInv(b)'
      BY <1>0, <3>1, <3>3, <3>4, SpecStill DEF SyncInv
    <3> QED
      BY <1>2, <2>2, <3>1, <3>2, <3>5
  <2> QED
    BY <1>6, <2>1, <2>2 DEF SetTarget
<1>7. ASSUME NEW b \in Bindings, PullOnCreate(b)
      PROVE  SyncedInv'
  <2>1. /\ OthersStay(b) /\ UNCHANGED <<phase, read, rules, targets, clashed>>
        /\ side[b] = "pull" /\ ~Replicates(b, "pull") /\ phase[b] # "bound"
    BY <1>0, <1>7, AfterSyncStep, SpecFacts
       DEF PullOnCreate, bucketVars, Replicates, Sides, Attempts
  <2>2. /\ call'[b] \in {"set", "service"}
        /\ \A s \in Sides : Replicates(b, s) => ~Established(b, s)'
    BY <1>0, <1>7, <2>1, AfterSyncStep DEF PullOnCreate, Established, Sides
  <2>3. SyncInv(b)'
    BY <1>0, <2>2, NothingEstablished
  <2> QED
    BY <1>2, <2>1, <2>2, <2>3 DEF OthersStay
<1>8. ASSUME NEW b \in Bindings, CreateService(b)
      PROVE  SyncedInv'
  <2>1. /\ call[b] = "service" /\ call'[b] = "none"
        /\ \A c \in Bindings \ {b} : call'[c] = call[c] /\ phase'[c] = phase[c]
        /\ UNCHANGED <<side, read, rules, targets, clashed>>
    BY <1>0, <1>8, GotoStep DEF CreateService, bucketVars, Attempts, Calls
  <2>2. ASSUME NEW s \in Sides, Replicates(b, s), b \notin clashed
        PROVE  Replicated(b, s)'
    <3>1. Replicated(b, s)
      BY <1>0, <2>1, <2>2 DEF SyncInv, Established
    <3> QED
      BY <1>0, <2>1, <3>1, ReplicatedKept DEF Replicated, NoNewWriters
  <2>3. SyncInv(b)'
    BY <1>0, <2>1, <2>2, SpecStill DEF SyncInv, TargetSet
  <2> QED
    BY <1>2, <2>1, <2>3
<1>9. ASSUME NEW b \in Bindings,
             LookForBucket(b) \/ FindTarget(b) \/ PushOnDelete(b) \/ DeleteBucket(b) \/ Finish(b)
      PROVE  SyncedInv'
  <2>1. /\ phase'[b] \in {"unbinding", "out"}
        /\ \A c \in Bindings \ {b} : phase'[c] = phase[c]
        /\ UNCHANGED <<read, rules, targets, clashed>>
    BY <1>9 DEF LookForBucket, FindTarget, PushOnDelete, DeleteBucket, Finish, bucketVars,
       historyVars, Attempts
  <2>2. OthersStay(b)
    <3>1. Unsync(b, Sides) => OthersStay(b)
      BY <1>0, UnsyncStep
    <3>2. AfterUnsync(b) => OthersStay(b)
      BY <1>0, AfterUnsyncStep
    <3>3. ASSUME NEW next \in Calls, Goto(b, next), UNCHANGED side
          PROVE  OthersStay(b)
      BY <1>0, <3>3, GotoStep DEF OthersStay, Attempts
    <3>4. ASSUME Goto(b, "finish"), side' = [side EXCEPT ![b] = "pull"]
          PROVE  OthersStay(b)
      BY <1>0, <3>4, GotoStep DEF OthersStay, Attempts, Calls
    <3> QED
      BY <1>9, <3>1, <3>2, <3>3, <3>4
         DEF LookForBucket, FindTarget, PushOnDelete, DeleteBucket, Finish, Calls
  <2>3. call'[b] \notin {"set", "read", "write", "service"}
    BY <1>0, <2>1 DEF Attempts
  <2>4. SyncInv(b)'
    BY <1>0, <2>1, <2>3, NothingEstablished DEF Established
  <2> QED
    BY <1>2, <2>1, <2>2, <2>3, <2>4 DEF OthersStay
<1>10. ASSUME NEW b \in Bindings, ReadRules(b)
       PROVE  SyncedInv'
  <2> DEFINE k == Origin(b, side[b])
  <2> DEFINE to == Copy(b, side[b])
  <2>0. PICK failed \in BOOLEAN :
           LET found == IF failed THEN {} ELSE rules[k] IN
           /\ clashed' = clashed \cup (IF failed THEN Sharing(b, k) ELSE {})
                 \cup (IF to \in found /\ Overtaken(b, k) THEN {b} ELSE {})
           /\ IF to \in found THEN AfterSync(b) /\ UNCHANGED read
              ELSE /\ read' = [read EXCEPT ![b] = found]
                   /\ Goto(b, "write")
                   /\ UNCHANGED side
    BY <1>10 DEF ReadRules
  <2> DEFINE found == IF failed THEN {} ELSE rules[k]
  <2>1. /\ call[b] = "read" /\ phase[b] = "binding" /\ Replicates(b, side[b])
        /\ UNCHANGED <<phase, rules, targets>>
    BY <1>10 DEF ReadRules, bucketVars, CallFits, Attempts
  <2>2. /\ clashed \subseteq clashed'
        /\ failed => Sharing(b, k) \subseteq clashed'
        /\ to \in found /\ Overtaken(b, k) => b \in clashed'
    BY <2>0
  <2>3. /\ OthersStay(b) /\ \A c \in Bindings \ {b} : read'[c] = read[c]
        /\ \/ to \in found /\ AfterSync(b) /\ call'[b] # "write"
           \/ call'[b] = "write" /\ read'[b] = found /\ side'[b] = side[b]
    <3>1. CASE to \in found
      BY <1>0, <2>0, <3>1, AfterSyncStep DEF Attempts
    <3>2. CASE to \notin found
      <4>1. found \in SUBSET Buckets
        BY <1>0, <2>1, SpecFacts DEF Replicates, BucketTypes
      <4>2. read' = [read EXCEPT ![b] = found] /\ Goto(b, "write") /\ UNCHANGED side
        BY <2>0, <3>2
      <4> HIDE DEF found
      <4> QED
        BY <1>0, <4>1, <4>2, GotoStep DEF OthersStay, Attempts, Calls
    <3> QED
      BY <3>1, <3>2
  <2>4. ASSUME NEW s \in Sides, b \notin clashed', Replicates(b, s), Replicated(b, s)
        PROVE  Replicated(b, s)'
    BY <1>0, <2>1, <2>3, <2>4, ReplicatedKept DEF Replicated, NoNewWriters, OthersStay
  <2>5. SyncInv(b)'
    <3>1. CASE to \in found /\ AfterSync(b)
      <4> SUFFICES ASSUME b \notin clashed'
                   PROVE  SyncInv(b)'
        BY SpecStill DEF SyncInv
      <4>1. Replicated(b, side[b])
        <5>1. to \in rules[k] /\ to \in targets[k]
          BY <1>0, <2>1, <2>2, <3>1 DEF SyncInv, TargetSet
        <5>2. \A c \in Bindings \ {b} : ~(call[c] = "write" /\ Origin(c, side[c]) = k)
          BY <2>2, <3>1 DEF Overtaken
        <5> QED
          BY <5>1, <5>2 DEF Replicated
      <4>2. ASSUME NEW s \in Sides, s = side[b] \/ (Replicates(b, s) /\ Established(b, s))
            PROVE  Replicated(b, s)'
        BY <1>0, <2>1, <2>2, <2>4, <4>1, <4>2 DEF SyncInv
      <4> QED
        BY <1>0, <2>1, <3>1, <4>2, SideEstablished
    <3>2. CASE call'[b] = "write" /\ side'[b] = side[b]
      <4>1. ASSUME NEW s \in Sides, Established(b, s)'
            PROVE  Established(b, s)
        BY <2>1, <3>2, <4>1 DEF Established
      <4>2. TargetSet(b) => TargetSet(b)'
        BY <1>0, <2>1, <3>2, SpecStill DEF TargetSet
      <4> QED
        BY <1>0, <2>1, <2>2, <2>4, <4>1, <4>2, SpecStill DEF SyncInv
    <3> QED
      BY <2>3, <3>1, <3>2
  <2>6. ASSUME NEW c \in Bindings \ {b}
        PROVE  SyncInv(c)'
    <3>1. ASSUME NEW s \in Sides, Replicates(c, s), c \notin clashed', Replicated(c, s)
          PROVE  Replicated(c, s)'
      <4>1. CASE call'[b] # "write" \/ Origin(c, s) # k
        <5>1. ASSUME NEW d \in Bindings \ {c}, call'[d] = "write", Origin(d, side'[d]) = Origin(c, s)
              PROVE  Copy(c, s) \in read'[d]
          BY <2>3, <3>1, <4>1, <5>1 DEF OthersStay, Replicated
        <5> QED
          BY <1>0, <2>1, <3>1, <5>1, ReplicatedAfter DEF Replicated
      <4>2. CASE call'[b] = "write" /\ Origin(c, s) = k
        <5>1. ~failed
          BY <2>2, <3>1, <4>2 DEF Sharing
        <5>2. Copy(c, s) \in read'[b]
          BY <2>3, <3>1, <4>2, <5>1 DEF Replicated
        <5>3. ASSUME NEW d \in Bindings \ {c}, call'[d] = "write", Origin(d, side'[d]) = Origin(c, s)
              PROVE  Copy(c, s) \in read'[d]
          BY <2>3, <3>1, <5>2, <5>3 DEF OthersStay, Replicated
        <5> QED
          BY <1>0, <2>1, <3>1, <5>3, ReplicatedAfter DEF Replicated
      <4> QED
        BY <4>1, <4>2
    <3> QED
      BY <1>0, <2>1, <2>2, <2>3, <3>1, SyncKept DEF OthersStay
  <2> QED
    BY <1>1, <2>5, <2>6
<1>11. ASSUME NEW b \in Bindings, WriteRules(b)
       PROVE  SyncedInv'
  <2> DEFINE k == Origin(b, side[b])
  <2> DEFINE to == Copy(b, side[b])
  <2>0. /\ call[b] = "write" /\ phase[b] = "binding" /\ Replicates(b, side[b])
        /\ UNCHANGED <<phase, targets>>
    BY <1>11 DEF WriteRules, CallFits, Attempts
  <2>1. CASE GiveUp(b) /\ UNCHANGED <<rules, clashed>>
    <3>1. SyncInv(b)'
      BY <1>0, <2>0, <2>1, GiveUpStep, NothingEstablished DEF Established, Attempts
    <3> QED
      BY <1>0, <1>2, <2>0, <2>1, <3>1, GiveUpStep DEF OthersStay, Attempts
  <2>2. CASE /\ rules' = [rules EXCEPT ![k] = read[b] \cup {to}]
             /\ read' = [read EXCEPT ![b] = {}]
             /\ clashed' = IF Overtaken(b, k) THEN clashed \cup {b} ELSE clashed
             /\ AfterSync(b)
    <3>1. k \in Buckets
      BY <1>0, <2>0, SpecFacts DEF Replicates
    <3>2. /\ OthersStay(b) /\ call'[b] # "write"
          /\ \A c \in Bindings \ {b} : read'[c] = read[c]
          /\ rules'[k] = read[b] \cup {to}
          /\ \A l \in Buckets \ {k} : rules'[l] = rules[l]
          /\ clashed \subseteq clashed'
      BY <1>0, <2>2, <3>1, AfterSyncStep DEF Attempts, BucketTypes
    <3>3. ASSUME NEW c \in Bindings, NEW s \in Sides, Replicates(c, s), Replicated(c, s),
                 Origin(c, s) = k => Copy(c, s) \in read[b] \cup {to}
          PROVE  Replicated(c, s)'
      <4>1. Origin(c, s) \in Buckets
        BY <3>3, SpecFacts DEF Replicates
      <4>2. NoNewWriters(c)
        BY <3>2 DEF NoNewWriters, OthersStay
      <4> QED
        BY <1>0, <2>0, <3>2, <3>3, <4>1, <4>2, ReplicatedKept DEF Replicated
    <3>4. SyncInv(b)'
      <4> SUFFICES ASSUME b \notin clashed'
                   PROVE  SyncInv(b)'
        BY SpecStill DEF SyncInv
      <4>1. ASSUME NEW s \in Sides, s = side[b]
            PROVE  Replicated(b, s)'
        <5>1. Copy(b, s) \in rules'[Origin(b, s)] /\ Copy(b, s) \in targets'[Origin(b, s)]
          BY <1>0, <2>0, <3>2, <4>1 DEF SyncInv, TargetSet
        <5>2. \A c \in Bindings \ {b} : ~(call'[c] = "write" /\ Origin(c, side'[c]) = Origin(b, s))
          BY <2>2, <3>2, <4>1 DEF Overtaken, OthersStay
        <5> QED
          BY <1>0, <5>1, <5>2, ReplicatedAfter
      <4>2. ASSUME NEW s \in Sides, s = side[b] \/ (Replicates(b, s) /\ Established(b, s))
            PROVE  Replicated(b, s)'
        <5>1. CASE s = side[b]
          BY <4>1, <5>1
        <5>2. CASE Replicates(b, s) /\ Established(b, s)
          <6>1. Replicated(b, s)
            BY <1>0, <3>2, <5>2 DEF SyncInv
          <6>2. Origin(b, s) = k => Copy(b, s) = to
            BY <1>0 DEF Origin, Copy, Sides
          <6> QED
            BY <3>3, <5>2, <6>1, <6>2
        <5> QED
          BY <4>2, <5>1, <5>2
      <4> QED
        BY <1>0, <2>0, <2>2, <4>2, SideEstablished
    <3>5. ASSUME NEW c \in Bindings \ {b}
          PROVE  SyncInv(c)'
      <4>1. ASSUME NEW s \in Sides, Replicates(c, s), Replicated(c, s)
            PROVE  Replicated(c, s)'
        <5>1. Origin(c, s) = k => Copy(c, s) \in read[b]
          BY <2>0, <4>1 DEF Replicated
        <5> QED
          BY <3>3, <4>1, <5>1
      <4> QED
        BY <1>0, <2>0, <3>2, <4>1, SyncKept DEF OthersStay
    <3> QED
      BY <1>1, <3>4, <3>5
  <2> QED
    BY <1>11, <2>1, <2>2 DEF WriteRules
<1>12. ASSUME NEW b \in Bindings, DropRules(b) \/ ForgetTarget(b)
       PROVE  SyncedInv'
  <2> DEFINE k == Origin(b, side[b])
  <2>1. /\ UNCHANGED <<phase, read>> /\ phase[b] = "unbinding"
        /\ clashed \subseteq clashed'
        /\ \/ UNCHANGED <<rules, targets>>
           \/ /\ Sharing(b, k) \subseteq clashed'
              /\ \A l \in Buckets \ {k} : rules'[l] = rules[l] /\ targets'[l] = targets[l]
    BY <1>12 DEF DropRules, ForgetTarget, Attempts, BucketTypes
  <2>2. OthersStay(b)
    BY <1>0, <1>12, GotoStep, AfterUnsyncStep DEF DropRules, ForgetTarget, OthersStay, Attempts, Calls
  <2>3. call'[b] \notin {"set", "read", "write", "service"}
    BY <1>0, <2>1 DEF Attempts
  <2>4. SyncInv(b)'
    BY <1>0, <2>1, <2>3, NothingEstablished DEF Established
  <2>5. ASSUME NEW c \in Bindings \ {b}
        PROVE  SyncInv(c)'
    <3>1. NoNewWriters(c)
      BY <2>1, <2>2, <2>3 DEF NoNewWriters, OthersStay
    <3>2. ASSUME NEW s \in Sides, Replicates(c, s), c \notin clashed'
          PROVE  /\ rules'[Origin(c, s)] = rules[Origin(c, s)]
                 /\ targets'[Origin(c, s)] = targets[Origin(c, s)]
      <4>1. Origin(c, s) \in Buckets
        BY <3>2, SpecFacts DEF Replicates
      <4> QED
        BY <2>1, <3>2, <4>1 DEF Sharing
    <3>3. ASSUME NEW s \in Sides, Replicates(c, s), c \notin clashed', Replicated(c, s)
          PROVE  Replicated(c, s)'
      BY <1>0, <3>1, <3>2, <3>3, ReplicatedKept DEF Replicated
    <3> QED
      BY <1>0, <2>1, <2>2, <3>2, <3>3, SyncKept DEF OthersStay
  <2> QED
    BY <1>1, <2>4, <2>5
<1>13. ASSUME NEW j \in jobs, RemoveBucket(j)
       PROVE  SyncedInv'
  <2> DEFINE gone == {k \in j.work.remove : Exists(k)}
  <2>1. /\ \A k \in Buckets \ gone : rules'[k] = rules[k] /\ targets'[k] = targets[k]
        /\ clashed' = clashed \cup {b \in Bindings : \E s \in Sides : Origin(b, s) \in gone}
        /\ UNCHANGED <<phase, call, side, read>>
    BY <1>13 DEF RemoveBucket
  <2> HIDE DEF gone
  <2>2. ASSUME NEW c \in Bindings
        PROVE  SyncInv(c)'
    <3>1. NoNewWriters(c)
      BY <2>1 DEF NoNewWriters
    <3>2. ASSUME NEW s \in Sides, Replicates(c, s), c \notin clashed'
          PROVE  /\ rules'[Origin(c, s)] = rules[Origin(c, s)]
                 /\ targets'[Origin(c, s)] = targets[Origin(c, s)]
      <4>1. Origin(c, s) \in Buckets
        BY <3>2, SpecFacts DEF Replicates
      <4> QED
        BY <2>1, <3>2, <4>1
    <3>3. ASSUME NEW s \in Sides, Replicates(c, s), c \notin clashed', Replicated(c, s)
          PROVE  Replicated(c, s)'
      BY <1>0, <3>1, <3>2, <3>3, ReplicatedKept DEF Replicated
    <3> QED
      BY <1>0, <2>1, <3>2, <3>3, SyncKept
  <2> QED
    BY <1>1, <2>2
<1>14. ASSUME NEW j \in jobs, MirrorBucket(j) \/ JobFails(j)
       PROVE  SyncedInv'
  BY <1>3, <1>14 DEF MirrorBucket, JobFails, historyVars, bucketVars
<1>15. ASSUME NEW k \in Open[spec], NEW x \in Items, Write(k, x)
       PROVE  SyncedInv'
  BY <1>3, <1>15 DEF Write
<1>16. CASE Tick \/ \E n \in Names : Collect(n)
  BY <1>3, <1>16 DEF Tick, Collect, historyVars, bucketVars
<1> QED
  BY <1>4, <1>5, <1>6, <1>7, <1>8, <1>9, <1>10, <1>11, <1>12, <1>13, <1>14, <1>15, <1>16
     DEF Next, Bind, Unbind, RunJob

-------------------------------------------------------------------------------
(* Unbinding: what has been found has been deleted. *)

\* What has to be shown of a binding after a step.
LEMMA UnsyncAfter ==
    ASSUME NEW c \in Bindings, NEW s \in Sides, UNCHANGED spec,
           Replicates(c, s) /\ Alone(c, s) /\ <<c, "rule">> \notin missed' =>
              /\ Copy(c, s) \in rules'[Origin(c, s)] => Copy(c, s) \in targets'[Origin(c, s)]
              /\ call'[c] \in {"read", "write"} /\ side'[c] = s => Copy(c, s) \in targets'[Origin(c, s)]
              /\ call'[c] = "forget" /\ side'[c] = s => Copy(c, s) \notin rules'[Origin(c, s)]
              /\ /\ Processed(c, s)' /\ Origin(c, s)[2] = Copy(c, s)[2]
                 /\ <<c, "unsync">> \notin missed'
                 => Copy(c, s) \notin rules'[Origin(c, s)]
    PROVE  UnsyncInv(c, s)'
  BY SpecStill DEF UnsyncInv

\* A binding that is not at another call, and whose replication does not change for
\* the worse.
LEMMA UnsyncKept ==
    ASSUME NEW c \in Bindings, NEW s \in Sides, UNCHANGED spec, UnsyncInv(c, s),
           phase'[c] = phase[c], call'[c] = call[c], side'[c] = side[c],
           <<c, "unsync">> \in missed => <<c, "unsync">> \in missed',
           Replicates(c, s) /\ Alone(c, s) /\ <<c, "rule">> \notin missed' =>
              /\ <<c, "rule">> \notin missed
              /\ Copy(c, s) \in rules'[Origin(c, s)] => Copy(c, s) \in rules[Origin(c, s)]
              /\ Copy(c, s) \in targets[Origin(c, s)] => Copy(c, s) \in targets'[Origin(c, s)]
    PROVE  UnsyncInv(c, s)'
<1>1. Processed(c, s)' <=> Processed(c, s)
  BY DEF Processed
<1> QED
  BY <1>1, UnsyncAfter DEF UnsyncInv

\* A binding at a call that neither comes after the remote target nor ends a side.
LEMMA UnsyncIdle ==
    ASSUME NEW c \in Bindings, NEW s \in Sides, UNCHANGED spec, UnsyncInv(c, s),
           phase'[c] # "out",
           call'[c] \in {"none", "set", "service"} \/
              (call'[c] \in {"read", "write"} /\ call[c] \in {"read", "write"} /\ side'[c] = side[c]),
           UNCHANGED <<rules, targets>>,
           <<c, "rule">> \in missed => <<c, "rule">> \in missed'
    PROVE  UnsyncInv(c, s)'
<1>1. ~Processed(c, s)'
  BY DEF Processed
<1> QED
  BY <1>1, UnsyncAfter DEF UnsyncInv

\* Every step keeps what the bindings rely on when they take a replication down: a rule
\* has its remote target, by which it is found, and what was taken down stays down.
LEMMA UnsyncedStep ==
    ASSUME Types, \A b \in Bindings : CallFits(b), JobsInv, UnsyncedInv, Next
    PROVE  UnsyncedInv'
<1> USE DEF Types
<1>0. /\ CallTypes /\ UNCHANGED spec /\ Attempts' /\ BucketTypes'
      /\ \A c \in Bindings, s \in Sides : UnsyncInv(c, s)
      /\ \A c \in Bindings : side[c] \in Sides
      /\ \A c \in Bindings : CallFits(c)'
  BY TypesStep, CallFitsStep DEF CallTypes, Attempts, UnsyncedInv
<1>1. ASSUME \A c \in Bindings, s \in Sides : UnsyncInv(c, s)'
      PROVE  UnsyncedInv'
  BY <1>1 DEF UnsyncedInv
\* Where the rules and targets stay, and one binding moves.
<1>2. ASSUME NEW b \in Bindings, \A s \in Sides : UnsyncInv(b, s)',
             \A c \in Bindings \ {b} : phase'[c] = phase[c] /\ call'[c] = call[c] /\ side'[c] = side[c],
             UNCHANGED rules, \A k \in Buckets : targets[k] \subseteq targets'[k],
             \A p \in missed : p \in missed' \/ p[1] = b
      PROVE  UnsyncedInv'
  <2>1. ASSUME NEW c \in Bindings \ {b}, NEW s \in Sides
        PROVE  UnsyncInv(c, s)'
    <3>1. Replicates(c, s) => Origin(c, s) \in Buckets
      BY SpecFacts DEF Replicates
    <3>2. Replicates(c, s) /\ Copy(c, s) \in targets[Origin(c, s)] => Copy(c, s) \in targets'[Origin(c, s)]
      BY <1>2, <3>1
    <3>3. \A p \in {<<c, "rule">>, <<c, "unsync">>} : p \in missed => p \in missed'
      BY <1>2
    <3> QED
      BY <1>0, <1>2, <3>2, <3>3, UnsyncKept
  <2> QED
    BY <1>1, <1>2, <2>1
<1>3. ASSUME UNCHANGED <<phase, call, side, rules, targets>>,
             \A p \in missed : p \in missed'
      PROVE  UnsyncedInv'
  <2>1. ASSUME NEW c \in Bindings, NEW s \in Sides
        PROVE  UnsyncInv(c, s)'
    BY <1>0, <1>3, UnsyncKept
  <2> QED
    BY <1>1, <2>1
<1>4. ASSUME NEW b \in Bindings, Create(b) \/ Delete(b) \/ Fail(b)
      PROVE  UnsyncedInv'
  <2>1. /\ phase'[b] # "out" /\ call'[b] = "none"
        /\ \A c \in Bindings \ {b} : phase'[c] = phase[c] /\ call'[c] = call[c] /\ side'[c] = side[c]
        /\ UNCHANGED <<rules, targets>>
    BY <1>4, <1>0, GiveUpStep DEF Create, Delete, Fail, Attempts, OthersStay, bucketVars
  <2>2. /\ <<b, "rule">> \in missed => <<b, "rule">> \in missed'
        /\ \A p \in missed : p \in missed' \/ p[1] = b
    BY <1>4 DEF Create, Delete, Fail, historyVars
  <2>3. \A s \in Sides : UnsyncInv(b, s)'
    BY <1>0, <2>1, <2>2, UnsyncIdle
  <2> QED
    BY <1>2, <2>1, <2>2, <2>3
<1>5. ASSUME NEW b \in Bindings, MakeBucket(b) \/ ReadRules(b) \/ PullOnCreate(b) \/ CreateService(b)
      PROVE  UnsyncedInv'
  <2>1. UNCHANGED <<rules, targets>> /\ missed \subseteq missed'
    <3>1. ASSUME PullOnCreate(b)
          PROVE  missed \subseteq missed'
      BY <3>1 DEF PullOnCreate, CreateJob
    <3> QED
      BY <1>5, <3>1 DEF MakeBucket, ReadRules, PullOnCreate, CreateService, bucketVars, historyVars
  <2>2. /\ phase'[b] # "out"
        /\ \A c \in Bindings \ {b} : phase'[c] = phase[c]
    BY <1>5 DEF MakeBucket, ReadRules, PullOnCreate, CreateService, Attempts
  <2>3. /\ OthersStay(b)
        /\ \/ call'[b] \in {"none", "set", "service"}
           \/ call'[b] = "write" /\ call[b] = "read" /\ side'[b] = side[b]
    <3>1. ASSUME AfterSync(b) \/ Sync(b, Sides)
          PROVE  OthersStay(b) /\ call'[b] \in {"set", "service"}
      BY <1>0, <3>1, SyncStep, AfterSyncStep
    <3>2. ASSUME NEW next \in Calls, Goto(b, next), UNCHANGED side
          PROVE  OthersStay(b) /\ call'[b] = next /\ side'[b] = side[b]
      BY <1>0, <3>2, GotoStep DEF OthersStay, Attempts
    <3> QED
      BY <1>5, <3>1, <3>2 DEF MakeBucket, ReadRules, PullOnCreate, CreateService, Calls
  <2>4. \A s \in Sides : UnsyncInv(b, s)'
    BY <1>0, <2>1, <2>2, <2>3, UnsyncIdle
  <2> QED
    BY <1>2, <2>1, <2>2, <2>3, <2>4 DEF OthersStay
<1>6. ASSUME NEW b \in Bindings, SetTarget(b)
      PROVE  UnsyncedInv'
  <2> DEFINE k == Origin(b, side[b])
  <2> DEFINE to == Copy(b, side[b])
  <2>1. /\ UNCHANGED <<phase, rules, missed>> /\ phase[b] = "binding"
    BY <1>6 DEF SetTarget, historyVars, Attempts
  <2>2. CASE GiveUp(b) /\ UNCHANGED targets
    <3>1. \A s \in Sides : UnsyncInv(b, s)'
      BY <1>0, <2>1, <2>2, GiveUpStep, UnsyncIdle DEF Attempts
    <3> QED
      BY <1>0, <1>2, <2>1, <2>2, <3>1, GiveUpStep DEF OthersStay, Attempts
  <2>3. CASE /\ targets' = [targets EXCEPT ![k] = @ \cup {to}]
             /\ Goto(b, "read") /\ UNCHANGED side
    <3>1. /\ call'[b] = "read" /\ \A c \in Bindings \ {b} : call'[c] = call[c]
      BY <1>0, <2>3, GotoStep DEF Calls
    <3>2. /\ k \in Buckets /\ to \in targets'[k]
          /\ \A l \in Buckets : targets[l] \subseteq targets'[l]
      BY <1>0, <1>6, <2>3, SpecFacts DEF SetTarget, Replicates, BucketTypes
    <3>3. ASSUME NEW s \in Sides
          PROVE  UnsyncInv(b, s)'
      <4>1. Replicates(b, s) => Origin(b, s) \in Buckets
        BY SpecFacts DEF Replicates
      <4>2. ~Processed(b, s)'
        BY <2>1, <3>1 DEF Processed
      <4> QED
        BY <1>0, <2>1, <2>3, <3>1, <3>2, <4>1, <4>2, UnsyncAfter DEF UnsyncInv
    <3> QED
      BY <1>2, <2>1, <2>3, <3>1, <3>2, <3>3
  <2> QED
    BY <1>6, <2>2, <2>3 DEF SetTarget
<1>7. ASSUME NEW b \in Bindings, WriteRules(b)
      PROVE  UnsyncedInv'
  <2> DEFINE k == Origin(b, side[b])
  <2> DEFINE to == Copy(b, side[b])
  <2>0. /\ call[b] = "write" /\ phase[b] = "binding" /\ Replicates(b, side[b])
        /\ UNCHANGED <<phase, targets>>
    BY <1>7 DEF WriteRules, CallFits, Attempts
  <2>1. CASE GiveUp(b) /\ UNCHANGED <<rules, missed>>
    <3>1. \A s \in Sides : UnsyncInv(b, s)'
      BY <1>0, <2>0, <2>1, GiveUpStep, UnsyncIdle DEF Attempts
    <3> QED
      BY <1>0, <1>2, <2>0, <2>1, <3>1, GiveUpStep DEF OthersStay, Attempts
  <2>2. CASE /\ rules' = [rules EXCEPT ![k] = read[b] \cup {to}]
             /\ missed' = missed \cup
                  {<<c, "rule">> : c \in {d \in Sharing(b, k) : \E s \in Sides :
                     Origin(d, s) = k /\ Copy(d, s) \in read[b] \ rules[k]}}
             /\ AfterSync(b)
    <3>1. k \in Buckets
      BY <1>0, <2>0, SpecFacts DEF Replicates
    <3>2. /\ OthersStay(b) /\ call'[b] \in {"set", "service"}
          /\ rules'[k] = read[b] \cup {to}
          /\ \A l \in Buckets \ {k} : rules'[l] = rules[l]
          /\ missed \subseteq missed'
      BY <1>0, <2>2, <3>1, AfterSyncStep DEF BucketTypes
    <3>3. \A c \in Bindings, s \in Sides : Replicates(c, s) => Origin(c, s) \in Buckets
      BY SpecFacts DEF Replicates
    <3>4. ASSUME NEW s \in Sides
          PROVE  UnsyncInv(b, s)'
      <4>1. ~Processed(b, s)'
        BY <2>0, <3>2 DEF Processed
      <4>2. ASSUME Replicates(b, s), Alone(b, s), <<b, "rule">> \notin missed',
                   Copy(b, s) \in rules'[Origin(b, s)]
            PROVE  Copy(b, s) \in targets'[Origin(b, s)]
        <5>1. CASE Origin(b, s) # k
          BY <1>0, <2>0, <3>2, <3>3, <4>2, <5>1 DEF UnsyncInv
        <5>2. CASE Origin(b, s) = k
          <6>1. Copy(b, s) = to
            BY <1>0, <5>2 DEF Origin, Copy, Sides
          <6>2. Alone(b, side[b])
            BY <4>2, <5>2, <6>1 DEF Alone
          <6> QED
            BY <1>0, <2>0, <3>2, <4>2, <5>2, <6>1, <6>2 DEF UnsyncInv
        <5> QED
          BY <5>1, <5>2
      <4> QED
        BY <1>0, <3>2, <4>1, <4>2, UnsyncAfter
    <3>5. ASSUME NEW c \in Bindings \ {b}, NEW s \in Sides
          PROVE  UnsyncInv(c, s)'
      <4>1. ASSUME Replicates(c, s), Alone(c, s), <<c, "rule">> \notin missed',
                   Copy(c, s) \in rules'[Origin(c, s)]
            PROVE  Copy(c, s) \in rules[Origin(c, s)]
        <5>1. CASE Origin(c, s) # k
          BY <3>2, <3>3, <4>1, <5>1
        <5>2. CASE Origin(c, s) = k
          <6>1. Copy(c, s) # to
            BY <1>0, <2>0, <4>1, <5>2 DEF Alone
          <6>2. Copy(c, s) \in read[b]
            BY <3>2, <4>1, <5>2, <6>1
          <6>3. c \in Sharing(b, k)
            BY <4>1, <5>2 DEF Sharing
          <6> QED
            BY <2>2, <4>1, <5>2, <6>2, <6>3
        <5> QED
          BY <5>1, <5>2
      <4> QED
        BY <1>0, <2>0, <3>2, <4>1, UnsyncKept DEF OthersStay
    <3> QED
      BY <1>1, <3>4, <3>5
  <2> QED
    BY <1>7, <2>1, <2>2 DEF WriteRules
\* Where an attempt to unbind goes on, with rules and targets as they are.
<1>8. ASSUME NEW b \in Bindings, OthersStay(b), UNCHANGED <<rules, targets>>,
             \A c \in Bindings \ {b} : phase'[c] = phase[c], missed \subseteq missed',
             call'[b] \notin {"read", "write", "forget"},
             \A s \in Sides :
                /\ Processed(b, s)' /\ Origin(b, s)[2] = Copy(b, s)[2]
                /\ Replicates(b, s) /\ Alone(b, s) /\ <<b, "rule">> \notin missed
                /\ <<b, "unsync">> \notin missed'
                => Processed(b, s) \/ Copy(b, s) \notin rules[Origin(b, s)]
      PROVE  UnsyncedInv'
  <2>1. ASSUME NEW s \in Sides
        PROVE  UnsyncInv(b, s)'
    BY <1>0, <1>8, UnsyncAfter DEF UnsyncInv
  <2> QED
    BY <1>2, <1>8, <2>1 DEF OthersStay
<1>9. ASSUME NEW b \in Bindings, LookForBucket(b)
      PROVE  UnsyncedInv'
  <2>1. UNCHANGED <<phase, rules, targets>> /\ phase[b] = "unbinding"
    BY <1>9 DEF LookForBucket, bucketVars
  <2>2. CASE Goto(b, "finish") /\ missed' = missed \cup {<<b, "unsync">>} /\ UNCHANGED side
    <3>1. OthersStay(b) /\ call'[b] = "finish"
      BY <1>0, <2>2, GotoStep DEF OthersStay, Attempts, Calls
    <3> QED
      BY <1>8, <2>1, <2>2, <3>1
  <2>3. CASE Unsync(b, Sides) /\ UNCHANGED missed
    <3>1. /\ OthersStay(b) /\ call'[b] \in {"find", "job", "finish"}
          /\ \A s \in Sides : Processed(b, s)' => ~Replicates(b, s)
      BY <1>0, <2>1, <2>3, UnsyncStep DEF Processed, Replicates, Sides
    <3> QED
      BY <1>8, <2>1, <2>3, <3>1
  <2> QED
    BY <1>9, <2>2, <2>3 DEF LookForBucket
<1>10. ASSUME NEW b \in Bindings, FindTarget(b)
       PROVE  UnsyncedInv'
  <2>1. /\ UNCHANGED <<phase, rules, targets, missed>> /\ phase[b] = "unbinding"
        /\ call[b] = "find" /\ Replicates(b, side[b])
    BY <1>10 DEF FindTarget, bucketVars, historyVars, Attempts
  <2>2. CASE Goto(b, "drop") /\ UNCHANGED side
    <3>1. OthersStay(b) /\ call'[b] = "drop" /\ side'[b] = side[b]
      BY <1>0, <2>2, GotoStep DEF OthersStay, Attempts, Calls
    <3>2. \A s \in Sides : Processed(b, s)' => Processed(b, s)
      BY <2>1, <3>1 DEF Processed
    <3> QED
      BY <1>8, <2>1, <3>1, <3>2
  <2>3. CASE AfterUnsync(b) /\ ~Found(Origin(b, side[b]), Copy(b, side[b]))
    <3>1. /\ OthersStay(b) /\ call'[b] \in {"find", "job", "finish"}
          /\ \A s \in Sides : Processed(b, s)' /\ Replicates(b, s) => s = side[b] \/ Processed(b, s)
      BY <1>0, <2>1, <2>3, AfterUnsyncStep DEF Processed, Replicates, Sides
    <3>2. ASSUME NEW s \in Sides, s = side[b], Origin(b, s)[2] = Copy(b, s)[2],
                 Replicates(b, s), Alone(b, s), <<b, "rule">> \notin missed
          PROVE  Copy(b, s) \notin rules[Origin(b, s)]
      BY <1>0, <2>3, <3>2 DEF Found, UnsyncInv
    <3> QED
      BY <1>8, <2>1, <3>1, <3>2
  <2> QED
    BY <1>10, <2>2, <2>3 DEF FindTarget
<1>11. ASSUME NEW b \in Bindings, PushOnDelete(b) \/ DeleteBucket(b) \/ Finish(b)
       PROVE  UnsyncedInv'
  <2>1. /\ UNCHANGED <<rules, targets>>
        /\ \A c \in Bindings \ {b} : phase'[c] = phase[c]
        /\ missed \subseteq missed'
    BY <1>11 DEF PushOnDelete, DeleteBucket, Finish, CreateJob, bucketVars, historyVars, Attempts
  <2>2. OthersStay(b) /\ call'[b] \in {"finish", "none"}
    BY <1>0, <1>11, GotoStep DEF PushOnDelete, DeleteBucket, Finish, OthersStay, Attempts, Calls, Sides
  <2>3. ASSUME NEW s \in Sides, Replicates(b, s)
        PROVE  Processed(b, s)
    <3>1. CASE PushOnDelete(b)
      BY <1>0, <2>3, <3>1, SpecFacts DEF PushOnDelete, Processed, Replicates, Sides
    <3>2. CASE DeleteBucket(b) \/ Finish(b)
      BY <3>2 DEF DeleteBucket, Finish, Processed
    <3> QED
      BY <1>11, <3>1, <3>2
  <2> QED
    BY <1>8, <2>1, <2>2, <2>3
<1>12. ASSUME NEW b \in Bindings, DropRules(b)
       PROVE  UnsyncedInv'
  <2> DEFINE k == Origin(b, side[b])
  <2>1. /\ UNCHANGED <<phase, targets, missed, side>> /\ phase[b] = "unbinding"
        /\ call[b] = "drop" /\ Replicates(b, side[b])
        /\ rules' = [rules EXCEPT ![k] = {}]
    BY <1>12 DEF DropRules, CallFits, Attempts
  <2>2. call'[b] = "forget" /\ \A c \in Bindings \ {b} : call'[c] = call[c]
    BY <1>0, <1>12, GotoStep DEF DropRules, Calls
  <2>3. k \in Buckets /\ rules'[k] = {} /\ \A l \in Buckets : rules'[l] \subseteq rules[l]
    BY <1>0, <2>1, SpecFacts DEF Replicates, BucketTypes
  <2>4. \A c \in Bindings, s \in Sides : Replicates(c, s) => Origin(c, s) \in Buckets
    BY SpecFacts DEF Replicates
  <2>5. ASSUME NEW s \in Sides
        PROVE  UnsyncInv(b, s)'
    <3>1. Processed(b, s)' => Processed(b, s)
      BY <2>1, <2>2 DEF Processed
    <3>2. Replicates(b, s) => rules'[Origin(b, s)] \subseteq rules[Origin(b, s)]
      BY <2>3, <2>4
    <3> QED
      BY <1>0, <2>1, <2>2, <2>3, <3>1, <3>2, UnsyncAfter DEF UnsyncInv
  <2>6. ASSUME NEW c \in Bindings \ {b}, NEW s \in Sides
        PROVE  UnsyncInv(c, s)'
    <3>1. Replicates(c, s) => rules'[Origin(c, s)] \subseteq rules[Origin(c, s)]
      BY <2>3, <2>4
    <3> QED
      BY <1>0, <2>1, <2>2, <3>1, UnsyncKept
  <2> QED
    BY <1>1, <2>5, <2>6
<1>13. ASSUME NEW b \in Bindings, ForgetTarget(b)
       PROVE  UnsyncedInv'
  <2> DEFINE k == Origin(b, side[b])
  <2> DEFINE to == Copy(b, side[b])
  <2>1. /\ UNCHANGED <<phase, rules, missed>> /\ phase[b] = "unbinding"
        /\ call[b] = "forget" /\ Replicates(b, side[b])
        /\ \A l \in Buckets : l # k => targets'[l] = targets[l]
        /\ \A l \in Buckets, m \in Buckets : m \in targets[l] => m \in targets'[l] \/ <<l, m>> = <<k, to>>
    BY <1>13 DEF ForgetTarget, CallFits, Attempts, BucketTypes
  <2>2. /\ OthersStay(b) /\ call'[b] \in {"find", "job", "finish"}
        /\ \A s \in Sides : Processed(b, s)' /\ Replicates(b, s) => s = side[b] \/ Processed(b, s)
    BY <1>0, <1>13, <2>1, AfterUnsyncStep DEF ForgetTarget, Processed, Replicates, Sides
  <2>3. \A c \in Bindings, s \in Sides :
           Replicates(c, s) => Origin(c, s) \in Buckets /\ Copy(c, s) \in Buckets
    BY SpecFacts DEF Replicates
  <2>4. ASSUME NEW s \in Sides
        PROVE  UnsyncInv(b, s)'
    <3>1. ASSUME Replicates(b, s), Alone(b, s), <<b, "rule">> \notin missed,
                 <<Origin(b, s), Copy(b, s)>> = <<k, to>>
          PROVE  Copy(b, s) \notin rules[Origin(b, s)]
      <4>1. Alone(b, side[b])
        BY <3>1 DEF Alone
      <4> QED
        BY <1>0, <2>1, <3>1, <4>1 DEF UnsyncInv
    <3>2. ASSUME Replicates(b, s), Copy(b, s) \in targets[Origin(b, s)],
                 <<Origin(b, s), Copy(b, s)>> # <<k, to>>
          PROVE  Copy(b, s) \in targets'[Origin(b, s)]
      BY <2>1, <2>3, <3>2
    <3> QED
      BY <1>0, <2>1, <2>2, <3>1, <3>2, UnsyncAfter DEF UnsyncInv
  <2>5. ASSUME NEW c \in Bindings \ {b}, NEW s \in Sides
        PROVE  UnsyncInv(c, s)'
    <3>1. ASSUME Replicates(c, s), Alone(c, s), Copy(c, s) \in targets[Origin(c, s)]
          PROVE  Copy(c, s) \in targets'[Origin(c, s)]
      <4>1. <<Origin(c, s), Copy(c, s)>> # <<k, to>>
        BY <1>0, <2>1, <3>1 DEF Alone
      <4> QED
        BY <2>1, <2>3, <3>1, <4>1
    <3> QED
      BY <1>0, <2>1, <2>2, <3>1, UnsyncKept DEF OthersStay
  <2> QED
    BY <1>1, <2>4, <2>5
<1>14. ASSUME NEW j \in jobs, RemoveBucket(j)
       PROVE  UnsyncedInv'
  <2> DEFINE gone == {k \in j.work.remove : Exists(k)}
  <2> DEFINE writing == {b \in Bindings : call[b] \in {"read", "write"} /\ Origin(b, side[b]) \in gone}
  <2>1. /\ \A k \in Buckets \ gone : rules'[k] = rules[k] /\ targets'[k] = targets[k]
        /\ \A k \in Buckets \cap gone : rules'[k] = {}
        /\ missed' = missed \cup {<<b, "rule">> : b \in writing}
        /\ UNCHANGED <<phase, call, side>>
    BY <1>14 DEF RemoveBucket
  <2> HIDE DEF gone
  <2>2. ASSUME NEW c \in Bindings, NEW s \in Sides
        PROVE  UnsyncInv(c, s)'
    <3>0. /\ Replicates(c, s) => Origin(c, s) \in Buckets
          /\ \A p \in missed : p \in missed'
      BY <2>1, SpecFacts DEF Replicates
    <3>1. CASE Origin(c, s) \in gone
      <4>1. Replicates(c, s) => rules'[Origin(c, s)] = {}
        BY <2>1, <3>0, <3>1
      <4>2. call'[c] \in {"read", "write"} /\ side'[c] = s => <<c, "rule">> \in missed'
        BY <2>1, <3>1
      <4> QED
        BY <1>0, <4>1, <4>2, UnsyncAfter
    <3>2. CASE Origin(c, s) \notin gone
      BY <1>0, <2>1, <3>0, <3>2, UnsyncKept
    <3> QED
      BY <3>1, <3>2
  <2> QED
    BY <1>1, <2>2
<1>15. ASSUME NEW j \in jobs, MirrorBucket(j) \/ JobFails(j)
       PROVE  UnsyncedInv'
  BY <1>3, <1>15 DEF MirrorBucket, JobFails, historyVars, bucketVars
<1>16. ASSUME NEW k \in Open[spec], NEW x \in Items, Write(k, x)
       PROVE  UnsyncedInv'
  <2>1. UNCHANGED <<phase, call, side, rules, targets>> /\ \A p \in missed : p \in missed'
    BY <1>16 DEF Write
  <2> QED
    BY <1>3, <2>1
<1>17. CASE Tick \/ \E n \in Names : Collect(n)
  BY <1>3, <1>17 DEF Tick, Collect, historyVars, bucketVars
<1> QED
  BY <1>4, <1>5, <1>6, <1>7, <1>9, <1>10, <1>11, <1>12, <1>13, <1>14, <1>15, <1>16, <1>17
     DEF Next, Bind, Unbind, RunJob

-------------------------------------------------------------------------------
(* What is written reaches the source before its bucket is removed. *)

\* A Job that removes the bucket of a binding that owns it pushes it first, and
\* none removes the source.
LEMMA OwnedRemoval ==
    ASSUME Types, JobsInv, NEW b \in Bindings, Owned(b), NEW j \in jobs
    PROVE  /\ SourceBucket(b) \notin j.work.remove
           /\ Bucket(b) \in j.work.remove => j.work.from = Bucket(b) /\ j.work.to = SourceBucket(b)
<1>1. CASE j.work.remove = {}
  BY <1>1
<1>2. ASSUME NEW c \in Bindings, Removes(j.work, c)
      PROVE  /\ SourceBucket(b) \notin j.work.remove
             /\ Bucket(b) \in j.work.remove => j.work.from = Bucket(b) /\ j.work.to = SourceBucket(b)
  <2>1. CASE c = b
    BY <1>2, <2>1 DEF Removes, Owned
  <2>2. CASE c # b
    BY <1>2, <2>2 DEF Removes, Owned
  <2> QED
    BY <2>1, <2>2
<1> QED
  BY <1>1, <1>2 DEF JobsInv, WorkFits

\* What an owned bucket and its source hold, where no bucket loses anything and no
\* Job has come to the point of removing one.
LEMMA KeptStays ==
    ASSUME NEW b \in Bindings, NEW x, UNCHANGED spec, Types, Owned(b), Kept(b, x),
           \A k \in Buckets : Holds(k, x) => Holds(k, x)',
           \A i \in jobs' : Bucket(b) \in i.work.remove =>
              i.state # "mirrored" \/ \E j \in jobs : i.work = j.work /\ i.state = j.state
    PROVE  Kept(b, x)'
<1>1. /\ Bucket(b)' = Bucket(b) /\ SourceBucket(b)' = SourceBucket(b)
      /\ Bucket(b) \in Buckets /\ SourceBucket(b) \in Buckets
  BY SpecStill, SpecFacts DEF Types, Owned, Sides
<1>2. /\ Holds(SourceBucket(b), x)' <=> (content'[SourceBucket(b)] # None /\ x \in content'[SourceBucket(b)])
      /\ Holds(Bucket(b), x)' <=> (content'[Bucket(b)] # None /\ x \in content'[Bucket(b)])
      /\ \A k \in Buckets : Holds(k, x)' <=> (content'[k] # None /\ x \in content'[k])
  BY <1>1 DEF Holds, Exists
<1> QED
  BY <1>1, <1>2 DEF Kept

\* Every step keeps what was written to a bucket that is pushed on deletion.
LEMMA KeptStep ==
    ASSUME Types, \A b \in Bindings : CallFits(b), JobsInv, KeptInv, Next
    PROVE  KeptInv'
<1> USE DEF Types
<1>0. UNCHANGED spec /\ BucketTypes'
  BY TypesStep
<1>1. \A b \in Bindings : Bucket(b)' = Bucket(b) /\ (Owned(b)' <=> Owned(b))
  BY <1>0, SpecStill DEF Owned, Sides
\* Where nothing new is written.
<1>2. ASSUME UNCHANGED written, excused \subseteq excused',
             \A x \in DOMAIN written \ excused', b \in Bindings :
                Owned(b) /\ Kept(b, x) => Kept(b, x)'
      PROVE  KeptInv'
  <2>1. ASSUME NEW x \in DOMAIN written \ excused', NEW b \in Bindings,
               written[x] = Bucket(b), Owned(b)
        PROVE  Kept(b, x)'
    <3>1. Kept(b, x)
      BY <1>2, <2>1 DEF KeptInv
    <3> QED
      BY <1>2, <2>1, <3>1
  <2> QED
    BY <1>1, <1>2, <2>1 DEF KeptInv
\* Where moreover no bucket loses anything.
<1>3. ASSUME UNCHANGED <<written, excused>>,
             \A k \in Buckets, x \in Items : Holds(k, x) => Holds(k, x)',
             \A i \in jobs' : i.state # "mirrored" \/ \E j \in jobs : i.work = j.work /\ i.state = j.state
      PROVE  KeptInv'
  <2>1. ASSUME NEW x \in DOMAIN written, NEW b \in Bindings, Owned(b), Kept(b, x)
        PROVE  Kept(b, x)'
    <3>1. x \in Items
      BY DEF OtherTypes
    <3> QED
      BY <1>0, <1>3, <2>1, <3>1, KeptStays
  <2> QED
    BY <1>2, <1>3, <2>1
<1>4. ASSUME UNCHANGED <<content, written, excused>>,
             \A i \in jobs' : i.state # "mirrored" \/ \E j \in jobs : i.work = j.work /\ i.state = j.state
      PROVE  KeptInv'
  <2>1. \A k \in Buckets, x \in Items : Holds(k, x) => Holds(k, x)'
    BY <1>4 DEF Holds, Exists
  <2> QED
    BY <1>3, <1>4, <2>1
<1>5. ASSUME NEW b \in Bindings, MakeBucket(b)
      PROVE  KeptInv'
  <2>1. content' = IF Exists(Bucket(b)) THEN content ELSE [content EXCEPT ![Bucket(b)] = {}]
    BY <1>5 DEF MakeBucket
  <2>2. \A k \in Buckets, x \in Items : Holds(k, x) => Holds(k, x)'
    BY <2>1 DEF Holds, Exists, BucketTypes
  <2> QED
    BY <1>3, <1>5, <2>2 DEF MakeBucket, historyVars
<1>6. ASSUME NEW b \in Bindings, PullOnCreate(b) \/ PushOnDelete(b) \/ DeleteBucket(b)
      PROVE  KeptInv'
  <2>1. UNCHANGED <<content, written, excused>>
    BY <1>6 DEF PullOnCreate, PushOnDelete, DeleteBucket, bucketVars
  <2>2. ASSUME NEW name, NEW command, NEW work, CreateJob(b, name, command, work)
        PROVE  \A i \in jobs' : i.state # "mirrored" \/ i \in jobs
    <3> DEFINE job(n) == [name |-> name, command |-> command, work |-> work, state |-> "created",
                          fresh |-> TRUE, made |-> n]
    <3>1. jobs' = jobs \/ \E n : jobs' = jobs \cup {job(n)}
      BY <2>2 DEF CreateJob
    <3>2. \A n : job(n).state # "mirrored"
      OBVIOUS
    <3> HIDE DEF job
    <3> QED
      BY <3>1, <3>2
  <2>3. \A i \in jobs' : i.state # "mirrored" \/ i \in jobs
    BY <1>6, <2>2 DEF PullOnCreate, PushOnDelete, DeleteBucket
  <2> QED
    BY <1>4, <2>1, <2>3
<1>7. CASE Tick
  BY <1>4, <1>7, TickStep DEF Tick, bucketVars, historyVars
<1>8. ASSUME NEW j \in jobs, JobFails(j)
      PROVE  KeptInv'
  <2>1. \A i \in jobs' : i.state # "mirrored" \/ i \in jobs
    BY <1>8, BecomesStep DEF JobFails
  <2>2. \A k \in Buckets, x \in Items : Holds(k, x) => Holds(k, x)'
    BY <1>8, MirrorStep DEF Holds, Exists
  <2> QED
    BY <1>3, <1>8, <2>1, <2>2 DEF JobFails, historyVars
<1>9. ASSUME NEW j \in jobs, MirrorBucket(j)
      PROVE  KeptInv'
  <2> DEFINE from == j.work.from
  <2> DEFINE to == j.work.to
  <2>1. /\ UNCHANGED written /\ excused \subseteq excused'
        /\ from # None => /\ content' = [content EXCEPT ![to] = @ \cup Lacking(from, to)]
                          /\ from \in j.work.remove => Differing(from, to) \subseteq excused'
        /\ \A i \in jobs' : i \in jobs \/ i.work = j.work
    BY <1>9, BecomesStep DEF MirrorBucket
  <2>2. \A k \in Buckets, x \in Items : Holds(k, x) => Holds(k, x)'
    BY <1>9, MirrorStep DEF Holds, Exists
  <2>3. ASSUME NEW x \in DOMAIN written \ excused', NEW b \in Bindings, Owned(b), Kept(b, x)
        PROVE  Kept(b, x)'
    <3>1. x \in Items
      BY DEF OtherTypes
    <3>2. /\ Bucket(b) \in Buckets /\ SourceBucket(b) \in Buckets
          /\ SourceBucket(b)' = SourceBucket(b)
      BY <1>0, <2>3, SpecFacts, SpecStill DEF Owned, Sides
    <3>3. CASE Holds(SourceBucket(b), x)
      <4>1. Holds(SourceBucket(b), x)'
        BY <2>2, <3>1, <3>2, <3>3 DEF Holds, Exists
      <4> QED
        BY <4>1 DEF Kept
    <3>4. CASE Bucket(b) \in j.work.remove /\ ~Holds(SourceBucket(b), x)
      <4>1. from = Bucket(b) /\ to = SourceBucket(b) /\ from # None
        BY <2>3, <3>2, <3>4, OwnedRemoval, NoneAssumption
      <4>2. x \in content[from] /\ x \notin Differing(from, to)
        BY <2>1, <2>3, <3>4, <4>1 DEF Kept, Holds
      <4>3. Exists(to)
        BY <1>9, <4>1 DEF MirrorBucket, Ready
      <4>4. x \in Lacking(from, to)
        BY <3>4, <4>1, <4>2, <4>3 DEF Lacking, Differing, Holds
      <4>5. x \in content'[to]
        BY <2>1, <3>2, <4>1, <4>4 DEF BucketTypes
      <4>6. content'[to] # None
        BY <1>9, <3>2, <4>1, <4>3, MirrorStep DEF Exists
      <4>7. Holds(SourceBucket(b), x)'
        BY <3>2, <4>1, <4>5, <4>6 DEF Holds, Exists
      <4> QED
        BY <4>7 DEF Kept
    <3>5. CASE Bucket(b) \notin j.work.remove
      <4>1. \A i \in jobs' : Bucket(b) \in i.work.remove => i \in jobs
        BY <2>1, <3>5
      <4> QED
        BY <1>0, <2>2, <2>3, <3>1, <4>1, KeptStays
    <3> QED
      BY <3>3, <3>4, <3>5
  <2> QED
    BY <1>2, <2>1, <2>3
<1>10. ASSUME NEW j \in jobs, RemoveBucket(j)
       PROVE  KeptInv'
  <2> DEFINE gone == {k \in j.work.remove : Exists(k)}
  <2>1. /\ content' = [k \in Buckets |-> IF k \in gone THEN None ELSE content[k]]
        /\ UNCHANGED <<written, excused>> /\ j.state = "mirrored"
        /\ \A i \in jobs' : i \in jobs \/ i.state = "finished"
    BY <1>10, BecomesStep DEF RemoveBucket
  <2>2. ASSUME NEW x \in DOMAIN written, NEW b \in Bindings, Owned(b), Kept(b, x)
        PROVE  Kept(b, x)'
    <3>1. /\ Bucket(b) \in Buckets /\ SourceBucket(b) \in Buckets
          /\ Bucket(b)' = Bucket(b) /\ SourceBucket(b)' = SourceBucket(b)
      BY <1>0, <2>2, SpecFacts, SpecStill DEF Owned, Sides
    <3>2. \A k \in Buckets \ j.work.remove : Holds(k, x) => content'[k] # None /\ x \in content'[k]
      BY <2>1 DEF Holds, Exists
    <3>3. CASE Holds(SourceBucket(b), x)
      <4>1. SourceBucket(b) \notin j.work.remove
        BY <2>2, OwnedRemoval
      <4> QED
        BY <3>1, <3>2, <3>3, <4>1 DEF Kept, Holds, Exists
    <3>4. CASE ~Holds(SourceBucket(b), x)
      <4>1. /\ Holds(Bucket(b), x) /\ Bucket(b) \notin j.work.remove
            /\ \A i \in jobs : Bucket(b) \in i.work.remove => i.state # "mirrored"
        BY <2>1, <2>2, <3>4 DEF Kept
      <4>2. \A i \in jobs' : Bucket(b) \in i.work.remove => i.state # "mirrored"
        BY <2>1, <4>1
      <4> QED
        BY <3>1, <3>2, <4>1, <4>2 DEF Kept, Holds, Exists
    <3> QED
      BY <3>3, <3>4
  <2> QED
    BY <1>2, <2>1, <2>2
<1>11. ASSUME NEW k \in Open[spec], NEW x \in Items, Write(k, x)
       PROVE  KeptInv'
  <2> DEFINE replaced == {y \in content[k] : Same(x, y)}
  <2>1. /\ x \notin DOMAIN written
        /\ DOMAIN written' = DOMAIN written \cup {x}
        /\ written'[x] = k /\ \A y \in DOMAIN written : written'[y] = written[y]
        /\ jobs' = jobs
        /\ excused \cup replaced \subseteq excused'
        /\ (\E j \in jobs : k \in j.work.remove /\ j.state = "mirrored") => x \in excused'
    BY <1>11 DEF Write
  <2>2. /\ k \in Buckets /\ content'[k] # None /\ x \in content'[k]
        /\ \A i \in Buckets, y \in Items :
              Holds(i, y) /\ y \notin replaced => content'[i] # None /\ y \in content'[i]
    BY <1>11, WriteStep
  <2>3. ASSUME NEW b \in Bindings, x \notin excused', Bucket(b) = k
        PROVE  Kept(b, x)'
    <3>1. Bucket(b)' = k
      BY <1>1, <2>3
    <3>2. \A j \in jobs' : k \in j.work.remove => j.state # "mirrored"
      BY <2>1, <2>3
    <3> QED
      BY <2>2, <3>1, <3>2 DEF Kept, Holds, Exists
  <2>4. ASSUME NEW y \in DOMAIN written \ excused', NEW b \in Bindings,
               written[y] = Bucket(b), Owned(b)
        PROVE  Kept(b, y)'
    <3>1. Kept(b, y) /\ y \in Items
      BY <2>1, <2>4 DEF KeptInv, OtherTypes
    <3>2. ASSUME NEW i \in Buckets, Holds(i, y)
          PROVE  Holds(i, y)'
      BY <2>1, <2>2, <2>4, <3>1, <3>2 DEF Holds, Exists
    <3> QED
      BY <1>0, <2>1, <2>4, <3>1, <3>2, KeptStays
  <2>5. ASSUME NEW y \in DOMAIN written' \ excused', NEW b \in Bindings,
               written'[y] = Bucket(b), Owned(b)
        PROVE  Kept(b, y)'
    BY <2>1, <2>3, <2>4, <2>5
  <2> QED
    BY <1>1, <2>5 DEF KeptInv
<1>12. ASSUME NEW b \in Bindings,
              Create(b) \/ Delete(b) \/ Fail(b) \/ SetTarget(b) \/ ReadRules(b) \/ WriteRules(b)
                 \/ CreateService(b) \/ LookForBucket(b) \/ FindTarget(b) \/ DropRules(b)
                 \/ ForgetTarget(b) \/ Finish(b)
       PROVE  UNCHANGED <<content, written, excused, jobs>>
  BY <1>12 DEF Create, Delete, Fail, SetTarget, ReadRules, WriteRules, CreateService, LookForBucket,
       FindTarget, DropRules, ForgetTarget, Finish, bucketVars, historyVars
<1>13. ASSUME NEW n \in Names, Collect(n)
       PROVE  UNCHANGED <<content, written, excused, jobs>>
  BY <1>13 DEF Collect, bucketVars, historyVars
<1>14. ASSUME UNCHANGED <<content, written, excused, jobs>>
       PROVE  KeptInv'
  BY <1>4, <1>14
<1> QED
  BY <1>5, <1>6, <1>7, <1>8, <1>9, <1>10, <1>11, <1>12, <1>13, <1>14 DEF Next, Bind, Unbind, RunJob

-------------------------------------------------------------------------------
(* Services. *)

\* The Service of a binding, as it makes it.
Own(b) == [owner |-> b, uid |-> binds[b], host |-> Host(b)]

\* Every step keeps the Services of the bound bindings.
LEMMA ServiceStep ==
    ASSUME Types, \A b \in Bindings : CallFits(b), JobsInv, BoundHasService, Next
    PROVE  BoundHasService'
<1> USE DEF Types
<1>0. /\ UNCHANGED spec
      /\ \A b \in Bindings : spec[b].model \in Names
  BY TypesStep, SpecFacts DEF BindingSpec
<1>1. ASSUME NEW b \in Bindings
      PROVE  /\ Own(b) \in Services
             /\ binds'[b] = binds[b] => Own(b)' = Own(b)
  <2>1. Host(b) \in Storages
    BY SpecFacts DEF Host, BindingSpec
  <2> QED
    BY <1>0, <2>1, SpecStill DEF Own, Services, OtherTypes
<1>2. BoundHasService <=> \A b \in Bindings :
         phase[b] = "bound" /\ <<b, "service">> \notin missed => service[spec[b].model] = Own(b)
  BY DEF BoundHasService, Own
<1>3. BoundHasService' <=> \A b \in Bindings :
         phase'[b] = "bound" /\ <<b, "service">> \notin missed' => service'[spec[b].model] = Own(b)'
  BY <1>0 DEF BoundHasService, Own
\* Where nobody else becomes bound, and Services stay.
<1>4. ASSUME UNCHANGED service,
             \A b \in Bindings : phase'[b] = "bound" =>
                /\ phase[b] = "bound" /\ binds'[b] = binds[b]
                /\ <<b, "service">> \in missed => <<b, "service">> \in missed'
      PROVE  BoundHasService'
  BY <1>1, <1>2, <1>3, <1>4
<1>5. ASSUME NEW b \in Bindings, CreateService(b)
      PROVE  BoundHasService'
  <2> DEFINE name == spec[b].model
  <2>1. /\ service' = [service EXCEPT ![name] = IF @ = None THEN Own(b) ELSE @]
        /\ missed' = IF service[name] \in {None, Own(b)} THEN missed
                     ELSE missed \cup {<<b, "service">>}
        /\ phase' = [phase EXCEPT ![b] = "bound"]
        /\ UNCHANGED binds
    BY <1>5 DEF CreateService, Own
  <2>2. ASSUME NEW c \in Bindings, phase'[c] = "bound", <<c, "service">> \notin missed'
        PROVE  service'[spec[c].model] = Own(c)'
    <3>1. Own(c)' = Own(c) /\ Own(c) \in Services /\ Own(c) # None
      BY <1>1, <2>1, NoneAssumption
    <3>2. CASE c = b
      BY <1>0, <2>1, <2>2, <3>1, <3>2 DEF OtherTypes
    <3>3. CASE c # b
      <4>1. service[spec[c].model] = Own(c)
        BY <1>2, <2>1, <2>2, <3>3 DEF Attempts
      <4> QED
        BY <1>0, <2>1, <3>1, <4>1 DEF OtherTypes
    <3> QED
      BY <3>2, <3>3
  <2> QED
    BY <1>3, <2>2
<1>6. ASSUME NEW n \in Names, Collect(n)
      PROVE  BoundHasService'
  <2>1. /\ service' = [service EXCEPT ![n] = None]
        /\ UNCHANGED <<phase, binds, missed>>
        /\ phase[service[n].owner] = "out" \/ binds[service[n].owner] # service[n].uid
    BY <1>6 DEF Collect, historyVars
  <2>2. ASSUME NEW c \in Bindings, phase'[c] = "bound", <<c, "service">> \notin missed'
        PROVE  service'[spec[c].model] = Own(c)'
    <3>1. service[spec[c].model] = Own(c) /\ Own(c)' = Own(c)
      BY <1>1, <1>2, <2>1, <2>2
    <3>2. Own(c).owner = c /\ Own(c).uid = binds[c]
      BY DEF Own
    <3>3. n # spec[c].model
      BY <2>1, <2>2, <3>1, <3>2
    <3> QED
      BY <1>0, <2>1, <3>1, <3>3 DEF OtherTypes
  <2> QED
    BY <1>3, <2>2
<1>7. ASSUME NEW b \in Bindings, Create(b) \/ Delete(b)
      PROVE  BoundHasService'
  <2>1. /\ UNCHANGED service /\ phase'[b] # "bound"
        /\ \A c \in Bindings \ {b} :
              /\ phase'[c] = phase[c] /\ binds'[c] = binds[c]
              /\ <<c, "service">> \in missed => <<c, "service">> \in missed'
    BY <1>7 DEF Create, Delete, Attempts, OtherTypes, historyVars
  <2> QED
    BY <1>4, <2>1
<1>8. ASSUME NEW b \in Bindings,
             Fail(b) \/ MakeBucket(b) \/ SetTarget(b) \/ ReadRules(b) \/ WriteRules(b) \/ PullOnCreate(b)
                \/ LookForBucket(b) \/ FindTarget(b) \/ DropRules(b) \/ ForgetTarget(b)
                \/ PushOnDelete(b) \/ DeleteBucket(b) \/ Finish(b)
      PROVE  BoundHasService'
  <2>1. /\ UNCHANGED <<service, binds>> /\ missed \subseteq missed'
    BY <1>8 DEF Fail, MakeBucket, SetTarget, ReadRules, WriteRules, PullOnCreate, LookForBucket,
       FindTarget, DropRules, ForgetTarget, PushOnDelete, DeleteBucket, Finish, CreateJob, historyVars
  <2>2. \A c \in Bindings : phase'[c] = "bound" => phase[c] = "bound"
    BY <1>8 DEF Fail, MakeBucket, SetTarget, ReadRules, WriteRules, PullOnCreate, LookForBucket,
       FindTarget, DropRules, ForgetTarget, PushOnDelete, DeleteBucket, Finish, Attempts
  <2> QED
    BY <1>4, <2>1, <2>2
<1>9. ASSUME NEW j \in jobs, RunJob(j)
      PROVE  BoundHasService'
  <2>1. UNCHANGED <<service, binds, phase>> /\ missed \subseteq missed'
    BY <1>9 DEF RunJob, MirrorBucket, RemoveBucket, JobFails, historyVars
  <2> QED
    BY <1>4, <2>1
<1>10. ASSUME NEW k \in Open[spec], NEW x \in Items, Write(k, x)
       PROVE  BoundHasService'
  <2>1. UNCHANGED <<service, binds, phase>> /\ missed \subseteq missed'
    BY <1>10 DEF Write
  <2> QED
    BY <1>4, <2>1
<1>11. CASE Tick
  BY <1>4, <1>11 DEF Tick, historyVars
<1> QED
  BY <1>5, <1>6, <1>7, <1>8, <1>9, <1>10, <1>11 DEF Next, Bind, Unbind

-------------------------------------------------------------------------------
(* The invariant, and what follows from it. *)

\* The invariant holds at first, when nothing is bound.
LEMMA InvInit == Init => Inv
<1> SUFFICES ASSUME Init
             PROVE  Inv
  OBVIOUS
<1> USE DEF Init
<1>1. spec \in Specs /\ Attempts
  BY DEF Attempts, Calls, Sides
<1>2. BucketTypes
  BY DEF BucketTypes
<1>3. JobTypes
  BY FS_EmptySet DEF JobTypes
<1>4. OtherTypes
  BY BoundsAssumption DEF OtherTypes
<1>5. \A b \in Bindings : CallFits(b) /\ SyncInv(b)
  BY DEF CallFits, SyncInv, Established, TargetSet
<1>6. \A b \in Bindings, s \in Sides : UnsyncInv(b, s)
  <2> SUFFICES ASSUME NEW b \in Bindings, NEW s \in Sides, Replicates(b, s)
               PROVE  Copy(b, s) \notin rules[Origin(b, s)] /\ call[b] = "none"
    BY DEF UnsyncInv
  <2>1. Origin(b, s) \in Buckets
    BY SpecFacts, <1>1 DEF Replicates
  <2> QED
    BY <2>1
<1>7. JobsInv /\ KeptInv /\ BoundHasService
  BY DEF JobsInv, KeptInv, BoundHasService
<1> QED
  BY <1>1, <1>2, <1>3, <1>4, <1>5, <1>6, <1>7, TypesSplit DEF Inv, Types, SyncedInv, UnsyncedInv

\* Every step keeps the invariant.
LEMMA InvStep == Inv /\ [Next]_vars => Inv'
<1> SUFFICES ASSUME Inv, [Next]_vars
             PROVE  Inv'
  OBVIOUS
<1>0. /\ Types /\ \A b \in Bindings : CallFits(b)
      /\ SyncedInv /\ UnsyncedInv /\ JobsInv /\ KeptInv /\ BoundHasService
  BY TypesSplit DEF Inv
<1>1. CASE Next
  <2>1. Types' /\ JobsInv'
    BY <1>0, <1>1, TypesStep, JobsStep
  <2>2. TypeOK' /\ Shapes'
    BY <2>1, TypesSplit, PTL
  <2>3. \A b \in Bindings : CallFits(b)'
    BY <1>0, <1>1, CallFitsStep
  <2>4. SyncedInv' /\ UnsyncedInv' /\ KeptInv' /\ BoundHasService'
    BY <1>0, <1>1, SyncedStep, UnsyncedStep, KeptStep, ServiceStep
  <2> QED
    BY <2>1, <2>2, <2>3, <2>4 DEF Inv
<1>2. CASE UNCHANGED vars
  <2> USE <1>2 DEF vars
  <2>1. TypeOK' /\ Shapes'
    BY DEF Inv, TypeOK, Shapes, Exists
  <2>2. \A b \in Bindings : CallFits(b)'
    BY DEF Inv, CallFits, Policy, Replicates
  <2>3. SyncedInv'
    BY DEF Inv, SyncedInv, SyncInv, Established, Replicated, TargetSet, Replicates, Policy,
       Origin, Copy, Bucket, SourceBucket
  <2>4. UnsyncedInv'
    <3>1. ASSUME NEW c \in Bindings, NEW s \in Sides
          PROVE  UnsyncInv(c, s)'
      BY UnsyncKept DEF Inv, UnsyncedInv
    <3> QED
      BY <3>1 DEF UnsyncedInv
  <2>5. JobsInv'
    BY DEF Inv, JobsInv, WorkFits, Removes, Policy, Bucket, SourceBucket
  <2>6. KeptInv'
    BY DEF Inv, KeptInv, Owned, Kept, Holds, Exists, Policy, Replicates, Bucket, SourceBucket
  <2>7. BoundHasService'
    BY DEF Inv, BoundHasService, Host
  <2> QED
    BY <2>1, <2>2, <2>3, <2>4, <2>5, <2>6, <2>7 DEF Inv
<1> QED
  BY <1>1, <1>2

\* The inductive invariant holds in every state: of any number of bindings that
\* share any buckets, and with any number of failures.
THEOREM Invariance == Spec => []Inv
  BY InvInit, InvStep, PTL DEF Spec

\* Bindings, buckets and Jobs are of their types; only a bucket that exists is
\* replicated, and a binding is at a call only while it is worked on.
THEOREM TypeCorrect == Spec => []TypeOK
<1>1. Inv => TypeOK
  BY DEF Inv
<1> QED
  BY Invariance, <1>1, PTL

\* A bound binding's replication, rule and remote target, is there unless another
\* binding or a Job has clashed with it (set_bucket_replication replaces all rules).
THEOREM SyncedWhenBound == Spec => []BoundIsSynced
<1>1. Inv => BoundIsSynced
  BY DEF Inv, SyncedInv, SyncInv, BoundIsSynced, Established, Replicated
<1> QED
  BY Invariance, <1>1, PTL

\* A binding that has gone leaves no rule behind, however often its unbinding was cut
\* off, with the exceptions that GoneIsUnsynced names.
THEOREM UnsyncedWhenGone == Spec => []GoneIsUnsynced
<1>1. Inv => GoneIsUnsynced
  BY DEF Inv, UnsyncedInv, UnsyncInv, GoneIsUnsynced, Alone, Processed
<1> QED
  BY Invariance, <1>1, PTL

\* What a user writes to a bucket that is pushed on deletion is at the source before
\* the bucket goes, unless it is written again, the source has another version, or it
\* comes after the mirroring (the Job's script: mc mirror, then mc rb --force).
THEOREM PushComesFirst == Spec => []PushedBeforeRemoved
<1>1. Inv => PushedBeforeRemoved
  BY DEF Inv, KeptInv, PushedBeforeRemoved, Owned, Kept, Holds
<1> QED
  BY Invariance, <1>1, PTL

\* A bound binding has its own Service, unless it took another's for its own.
THEOREM ServiceWhenBound == Spec => []BoundHasService
<1>1. Inv => BoundHasService
  BY DEF Inv
<1> QED
  BY Invariance, <1>1, PTL
=============================================================================
