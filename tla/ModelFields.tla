---------------------------- MODULE ModelFields ----------------------------
(***************************************************************************)
(* How a Model's spec becomes the fields of its status                     *)
(* (ModelValidator, ModelFieldsParser in cdl-k8s-operator and the types of *)
(* cdl-openapi's model.rs).                                                *)
(*                                                                         *)
(* Fields have names like paths.  A spec may give its fields one by one,   *)
(* take over all fields of other models below some name, or name a         *)
(* CustomResourceDefinition whose schema is converted.  Objects that are   *)
(* not given are made up from the names below them.  A name is a sequence  *)
(* of components here: "/" is <<>>, "/a/b/" is <<a, b>>.                   *)
(*                                                                         *)
(* The operator reads each model from a copy of its own, which may be old: *)
(* it then validates a model that is Ready already, or records fields that *)
(* the model no longer has.                                                *)
(***************************************************************************)
EXTENDS Integers, FiniteSets, SequencesExt, TLC

CONSTANTS
    Models,       \* names of models
    Components,   \* components of names, in the order of their characters
    BadComponents,\* those that name::RE does not allow
    Specs,        \* bound: the specs that each model may be created with ...
    Revisions,    \* bound: ... and that it may be edited to
    Schemas,      \* the schema of each CustomResourceDefinition, or None
    SnakeCase,    \* to_snake_case of the names in schemas
    Below,        \* names below which fields are embedded (bound, see EmbedsBelow)
    Together,     \* bound: the models that users ever edit are in one of these sets
    MaxEdits,     \* bound: what users do with each model
    Err, None

VARIABLES
    spec,       \* the spec of each model, None when it does not exist
    state,      \* of its status
    fields,     \* of its status: the fields by name, or None
    deleted,    \* models that users have deleted: their deletion timestamp
    cache,      \* the operator's copy of each model, which may be an old one
    work,       \* the validation of a model: its spec and what is parsed of it
    edits,      \* how many edits there have been of each model
    validated,  \* history: the spec that a model's fields were made from
    changed,    \* history: models whose fields were ever replaced or removed
    behind      \* history: models whose validation began from a copy without
                \* the fields that they had

vars == <<spec, state, fields, deleted, cache, work, edits, validated, changed, behind>>
history == <<validated, changed, behind>>

----------------------------------------------------------------------------
(* Names. *)

Rank(c) == CHOOSE i \in DOMAIN Components : Components[i] = c

\* The order of the BTreeMap.
Before(n, o) ==
    \/ IsStrictPrefix(n, o)
    \/ \E i \in DOMAIN n \cap DOMAIN o :
          /\ SubSeq(n, 1, i - 1) = SubSeq(o, 1, i - 1)
          /\ Rank(n[i]) < Rank(o[i])

Parent(n) == Front(n)  \* parent_name; "/" has none
Ancestors(n) == {SubSeq(n, 1, i) : i \in 0..Len(n) - 1}
Children(names, p) == {n \in names \ {<<>>} : Parent(n) = p}

ValidName(n) == Range(n) \cap BadComponents = {}

----------------------------------------------------------------------------
(* Kinds. *)

Object(children) == [type |-> "Object", children |-> children, kind |-> "Static"]
DynamicObject == [Object({}) EXCEPT !.kind = "Dynamic"]
Simple(type) == [type |-> type]

\* get_children: those that Object and ObjectArray have.
IsAggregate(kind) == kind.type \in {"Object", "ObjectArray"}

\* assert_cmp: two bounds that are both there are in order.
AtMost(a, b) == a = None \/ b = None \/ a <= b

\* What parse_field asks of a kind.  The default of a String stands for its
\* length here.
InOrder(kind) ==
    /\ AtMost(kind.default, kind.maximum)
    /\ AtMost(kind.minimum, kind.default)
    /\ AtMost(kind.minimum, kind.maximum)

ValidKind(kind) ==
    /\ kind.type \in {"Integer", "Number"} => InOrder(kind)
    /\ kind.type = "String" => /\ kind.kind = "Static" => kind.default \in {None, kind.length}
                               /\ kind.kind = "Range" => InOrder(kind)
    /\ kind.type = "OneOfStrings" => kind.default \in kind.choices \cup {None}

----------------------------------------------------------------------------
(* ModelFieldsParser: a map of fields, or Err.                             *)

Empty == <<>>

\* What parse_field asks of each of some fields before insert_field.
Accepts(map, more) ==
    \A f \in more : f.name \notin DOMAIN map /\ ValidName(f.name) /\ ValidKind(f.kind)

\* The map with more fields, each by its name.
Extended(map, more) ==
    LET names == {f.name : f \in more}
    IN  [n \in DOMAIN map \cup names |-> IF n \in names THEN CHOOSE f \in more : f.name = n
                                        ELSE map[n]]

ParseField(map, f) == IF Accepts(map, {f}) THEN Extended(map, {f}) ELSE Err

\* A plausible bug: children keep their names.
ShiftName(parent, f) == [f EXCEPT !.name = parent \o @]

\* merge_field: name and children move below the parent.
ShiftKind(parent, kind) ==
    IF IsAggregate(kind) THEN [kind EXCEPT !.children = {parent \o c : c \in @}] ELSE kind
Shift(parent, f) == [f EXCEPT !.name = parent \o @, !.kind = ShiftKind(parent, @)]

Moved(parent, given) == {Shift(parent, given[n]) : n \in DOMAIN given}

\* A plausible bug: a field that is there already stays.
MergeMissing(map, parent, given) ==
    IF Accepts(Empty, Moved(parent, given))
    THEN Extended(Extended(Empty, Moved(parent, given)), {map[n] : n \in DOMAIN map}) ELSE Err

MergeFields(map, parent, given) ==
    IF Accepts(map, Moved(parent, given)) THEN Extended(map, Moved(parent, given)) ELSE Err

\* A plausible bug: a parent that was made is not made anew.
MadeOnce(map, generated, n) == Ancestors(n) \ DOMAIN map

\* create_parent_objects makes the parents that were not given, and makes anew
\* those that it has made.
Made(map, generated, n) == {a \in Ancestors(n) : a \notin DOMAIN map \/ a \in generated}

\* The errors of finalize at one of the fields: a child that is not there
\* (assert_child compares prefixes only), a given parent, from the nearest to
\* "/", with other children than those that are there by now.
Rejects(map, keys, generated, n) ==
    LET made == Made(map, generated, n)
    IN  \/ /\ IsAggregate(map[n].kind)
           /\ \E c \in map[n].kind.children : ~IsPrefix(n, c) \/ c \notin keys
        \/ \E a \in Ancestors(n) \ made :
              /\ IsAggregate(map[a].kind)
              /\ map[a].kind.children # Children(DOMAIN map \cup made, a)

\* A plausible bug: only the nearest parent is made.
FinalizeNearest(map, keys, generated, n) ==
    LET made == {a \in Ancestors(n) : Len(a) = Len(n) - 1 /\ (a \notin DOMAIN map \/ a \in generated)}
        names == DOMAIN map \cup made
    IN  IF /\ IsAggregate(map[n].kind)
           /\ \E c \in map[n].kind.children : ~IsPrefix(n, c) \/ c \notin keys
        THEN Err
        ELSE [a \in names |-> IF a \in made THEN [name |-> a, kind |-> Object(Children(names, a))]
                              ELSE map[a]]

\* The part of finalize for one of the fields.
FinalizeField(map, keys, generated, n) ==
    LET made == Made(map, generated, n)
        names == DOMAIN map \cup made
    IN  IF Rejects(map, keys, generated, n) THEN Err
        ELSE [a \in names |-> IF a \in made THEN [name |-> a, kind |-> Object(Children(names, a))]
                              ELSE map[a]]

----------------------------------------------------------------------------
(* The schema of a CustomResourceDefinition: the types of its properties by  *)
(* their path, that of the root included.                                    *)

Convert(path) == [i \in DOMAIN path |-> SnakeCase[path[i]]]

\* What parse_json_property makes of the types; the children of an array are
\* taken from its properties as well.  There are more primitive types and string
\* formats, all without children.
JsonKind(schema, path) ==
    LET children == {Convert(p) : p \in Children(DOMAIN schema, path)}
    IN  CASE schema[path] = "object" -> Object(children)
          [] schema[path] = "array" -> [type |-> "ObjectArray", children |-> children]
          [] schema[path] = "boolean" -> Simple("Boolean")
          [] OTHER -> Err

\* insert_custom_resource_metadata_fields: these take the place of "/" and
\* "/metadata/".
MetadataNames == {<<"metadata", "annotations">>, <<"metadata", "labels">>, <<"metadata", "name">>}
MetadataFields ==
    {[name |-> <<"metadata">>, kind |-> Object(MetadataNames)]} \cup
    {[name |-> n, kind |-> IF Last(n) = "name"
                           THEN [type |-> "String", kind |-> "Dynamic", default |-> None]
                           ELSE DynamicObject] : n \in MetadataNames}

ParseSchema(schema) ==
    LET paths == DOMAIN schema
        found == {[name |-> Convert(p), kind |-> JsonKind(schema, p)] : p \in paths}
        kept == {f \in found : f.name \notin {<<>>, <<"metadata">>}}
    IN  IF schema = Empty THEN Empty
        ELSE IF \/ \E f \in found : f.kind = Err \/ ~ValidName(f.name)
                \/ \E p, q \in paths : p # q /\ Convert(p) = Convert(q)
                \/ \E f \in kept : f.name \in MetadataNames
        THEN Err
        ELSE Extended(Empty, kept \cup MetadataFields)

----------------------------------------------------------------------------
(* Names, fields and specs as they are. *)

Name == Seq(Range(Components))

IsField(f) ==
    /\ f = [name |-> f.name, kind |-> f.kind]
    /\ f.name \in Name
    /\ "type" \in DOMAIN f.kind
    /\ f.kind.type = "Model" => f.kind.name \in Models
    /\ IsAggregate(f.kind) => "children" \in DOMAIN f.kind /\ f.kind.children \subseteq Name

IsFields(map) ==
    /\ map = [n \in DOMAIN map |-> map[n]]
    /\ \A n \in DOMAIN map : map[n].name = n /\ IsField(map[n])

IsSpec(s) ==
    /\ s.type \in {"Dynamic", "Fields", "CustomResourceDefinitionRef"}
    /\ s.type = "Fields" => /\ s.fields \in Seq(Range(s.fields))
                            /\ \A i \in DOMAIN s.fields : IsField(s.fields[i])
    /\ s.type = "CustomResourceDefinitionRef" => s.name \in DOMAIN Schemas

ASSUME SpecsAssumption ==
    /\ \A m \in Models : None \notin Specs[m] /\ \A s \in Specs[m] : IsSpec(s)
    /\ \A c \in DOMAIN Schemas :
          Schemas[c] # None => DOMAIN Schemas[c] \subseteq Seq(DOMAIN SnakeCase)
    /\ SnakeCase \in [DOMAIN SnakeCase -> Range(Components)]
    /\ {"metadata", "annotations", "labels", "name"} \subseteq Range(Components)
    /\ MaxEdits \in [Models -> Nat]
    /\ Below \subseteq Name /\ \A p \in Below : ValidName(p)

----------------------------------------------------------------------------
(* What users do. *)

\* A model is there from the time when it has the operator's finalizer; a spec
\* that is edited after the deletion is not read any more.
Edit(m, s) ==
    /\ edits[m] < MaxEdits[m]
    /\ m \notin deleted
    /\ spec[m] # None => s \in Revisions[m] \ {spec[m]}
    /\ \E T \in Together : {r \in Models : edits[r] > 0} \cup {m} \subseteq T
    /\ edits' = [edits EXCEPT ![m] = @ + 1]
    /\ spec' = [spec EXCEPT ![m] = s]
    /\ UNCHANGED <<state, fields, deleted, cache, work, history>>

Delete(m) ==
    /\ edits[m] < MaxEdits[m]
    /\ spec[m] # None
    /\ m \notin deleted
    /\ edits' = [edits EXCEPT ![m] = @ + 1]
    /\ deleted' = deleted \cup {m}
    /\ UNCHANGED <<spec, state, fields, cache, work, history>>

----------------------------------------------------------------------------
(* The operator reads its own copies of the models, never the models. *)

Copy(m) == [spec |-> spec[m], state |-> state[m], fields |-> fields[m], deleted |-> m \in deleted]

Watch(m) ==
    /\ cache[m] # Copy(m)
    /\ cache' = [cache EXCEPT ![m] = Copy(m)]
    /\ UNCHANGED <<spec, state, fields, deleted, work, edits, history>>

\* update_fields: the status of the model of that name; a merge patch replaces
\* the list of fields, or removes it.
UpdateFields(m, map, st) ==
    /\ state' = [state EXCEPT ![m] = st]
    /\ fields' = [fields EXCEPT ![m] = map]
    /\ changed' = IF fields[m] \notin {None, map} THEN changed \cup {m} ELSE changed

\* A copy that is marked for deletion: the fields of the copy are recorded.
MarkDeleting(m) ==
    /\ cache[m].deleted /\ cache[m].state # "Deleting"
    /\ work[m] = None
    /\ UpdateFields(m, cache[m].fields, "Deleting")
    /\ UNCHANGED <<spec, deleted, cache, work, edits, validated, behind>>

\* Nothing is bound to the model any longer: its finalizer is removed.  Of a model
\* that was created again meanwhile and lives, that changes nothing.
Release(m) ==
    /\ cache[m].state = "Deleting"
    /\ work[m] = None
    /\ m \in deleted
    /\ spec' = [spec EXCEPT ![m] = None]
    /\ deleted' = deleted \ {m}
    /\ UpdateFields(m, None, "Pending")
    /\ validated' = [validated EXCEPT ![m] = None]
    /\ UNCHANGED <<cache, work, edits, behind>>

----------------------------------------------------------------------------
(* reconcile of a Pending copy: validate_model of the spec in the copy. *)

\* A plausible bug: a Ready model is validated again.
StartAgain(m) ==
    /\ cache[m].spec # None /\ ~cache[m].deleted /\ cache[m].state # "Deleting"
    /\ work[m] = None
    /\ work' = [work EXCEPT ![m] = [spec |-> cache[m].spec, step |-> "parse", map |-> Empty, next |-> 1]]
    /\ behind' = IF cache[m].fields # fields[m] THEN behind \cup {m} ELSE behind \ {m}
    /\ UNCHANGED <<spec, state, fields, deleted, cache, edits, validated, changed>>

Start(m) ==
    /\ cache[m].spec # None /\ ~cache[m].deleted /\ cache[m].state = "Pending"
    /\ work[m] = None
    /\ work' = [work EXCEPT ![m] = [spec |-> cache[m].spec, step |-> "parse", map |-> Empty, next |-> 1]]
    /\ behind' = IF cache[m].fields # fields[m] THEN behind \cup {m} ELSE behind \ {m}
    /\ UNCHANGED <<spec, state, fields, deleted, cache, edits, validated, changed>>

\* A plausible bug: after an error a model is not tried again.
GoOnOrStop(m, w) ==
    /\ work' = [work EXCEPT ![m] = IF w = None THEN [@ EXCEPT !.step = "failed"] ELSE w]
    /\ UNCHANGED <<spec, state, fields, deleted, cache, edits, history>>

\* An error ends a validation, which is tried again later.
GoOn(m, w) ==
    /\ work' = [work EXCEPT ![m] = w]
    /\ UNCHANGED <<spec, state, fields, deleted, cache, edits, history>>

\* load_model: only a Ready model is loaded.
Loaded(r) == IF spec[r] # None /\ state[r] = "Ready" THEN fields[r] ELSE None

\* The map after the next field of the spec.
Parsed(map, f) ==
    IF f.kind.type # "Model" THEN ParseField(map, f)
    ELSE IF Loaded(f.kind.name) = None THEN Err
    ELSE MergeFields(map, f.name, Loaded(f.kind.name))

Working(m, step) == work[m] # None /\ work[m].step = step

\* validate_fields: the next field; a model that it refers to is loaded.
ParseNext(m) ==
    /\ Working(m, "parse")
    /\ work[m].spec.type = "Fields"
    /\ work[m].next <= Len(work[m].spec.fields)
    /\ LET map == Parsed(work[m].map, work[m].spec.fields[work[m].next])
       IN  GoOn(m, IF map = Err THEN None ELSE [work[m] EXCEPT !.map = map, !.next = @ + 1])

\* finalize begins with what has been parsed; todo are the fields to come.
Finalizing(s, map, again) ==
    [spec |-> s, step |-> "finalize", parsed |-> map, map |-> map, generated |-> {},
     todo |-> DOMAIN map, again |-> again]

FinishParse(m) ==
    /\ Working(m, "parse")
    /\ work[m].spec.type = "Fields"
    /\ work[m].next > Len(work[m].spec.fields)
    /\ GoOn(m, Finalizing(work[m].spec, work[m].map, FALSE))

\* validate_custom_resource_definition_ref: what finalize makes of the schema is
\* validated again, as native fields.
ParseDefinition(m) ==
    /\ Working(m, "parse")
    /\ work[m].spec.type = "CustomResourceDefinitionRef"
    /\ LET schema == Schemas[work[m].spec.name]
           map == IF schema = None THEN Err ELSE ParseSchema(schema)
       IN  GoOn(m, IF map = Err THEN None ELSE Finalizing(work[m].spec, map, TRUE))

\* The rest of finalize when the field n is done.
Finalized(w, n, map) ==
    [w EXCEPT !.map = map, !.todo = @ \ {n}, !.generated = @ \cup (DOMAIN map \ DOMAIN w.map)]

\* finalize: the next field, in the order of the names.
FinalizeNext(m) ==
    /\ Working(m, "finalize")
    /\ LET w == work[m]
       IN  \E n \in w.todo :
             /\ \A o \in w.todo \ {n} : Before(n, o)
             /\ LET map == FinalizeField(w.map, DOMAIN w.parsed, w.generated, n)
                IN  GoOn(m, IF map = Err THEN None ELSE Finalized(w, n, map))

\* validate_native_fields: parse_field for each of the fields.
ParseAgain(m) ==
    /\ Working(m, "finalize")
    /\ work[m].todo = {} /\ work[m].again
    /\ LET map == MergeFields(Empty, <<>>, work[m].map)
       IN  GoOn(m, IF map = Err THEN None ELSE Finalizing(work[m].spec, map, FALSE))

\* update_fields_or_requeue, whatever the state is by now; a Dynamic model needs no
\* parser.
Patch(m) ==
    /\ work[m] # None
    /\ \/ work[m].spec.type = "Dynamic"
       \/ Working(m, "finalize") /\ work[m].todo = {} /\ ~work[m].again
    /\ LET map == IF work[m].spec.type = "Dynamic"
                  THEN Extended(Empty, {[name |-> <<>>, kind |-> DynamicObject]})
                  ELSE work[m].map
       IN  UpdateFields(m, map, "Ready")
    /\ validated' = [validated EXCEPT ![m] = work[m].spec]
    /\ work' = [work EXCEPT ![m] = None]
    /\ UNCHANGED <<spec, deleted, cache, edits, behind>>

----------------------------------------------------------------------------

Init ==
    /\ spec = [m \in Models |-> None]
    /\ state = [m \in Models |-> "Pending"]
    /\ fields = [m \in Models |-> None]
    /\ deleted = {}
    /\ cache = [m \in Models |-> Copy(m)]
    /\ work = [m \in Models |-> None]
    /\ edits = [m \in Models |-> 0]
    /\ validated = [m \in Models |-> None]
    /\ changed = {}
    /\ behind = {}

Reconcile(m) ==
    \/ MarkDeleting(m) \/ Start(m) \/ ParseNext(m) \/ FinishParse(m) \/ ParseDefinition(m)
    \/ FinalizeNext(m) \/ ParseAgain(m) \/ Patch(m)

Next ==
    \/ \E m \in Models : \E s \in Specs[m] : Edit(m, s)
    \/ \E m \in Models : Delete(m) \/ Watch(m) \/ Reconcile(m) \/ Release(m)

Spec == Init /\ [][Next]_vars

\* The copies follow the models, and a Pending model is requeued until it is
\* Ready.  A model may be bound for ever: Release need not come.
FairSpec == Spec /\ \A m \in Models : WF_vars(Watch(m)) /\ WF_vars(Reconcile(m))

----------------------------------------------------------------------------
(* Properties. *)

\* What a model, or a copy of it, looks like: a Ready one has fields
\* (get_fields_unchecked relies on it), a Pending one has none, and one that is not
\* there is Pending.
CopyOK(c) ==
    /\ c = [spec |-> c.spec, state |-> c.state, fields |-> c.fields, deleted |-> c.deleted]
    /\ c.state \in {"Pending", "Ready", "Deleting"}
    /\ c.state = "Ready" => IsFields(c.fields)
    /\ c.state = "Pending" => c.fields = None
    /\ c.spec = None => c.state = "Pending" /\ ~c.deleted
    /\ c.fields = None \/ IsFields(c.fields)
    /\ c.spec = None \/ IsSpec(c.spec)

\* A model whose copy is not Deleting is there, whatever the copy is like else,
\* and so is one that is validated.
ModelOK(m) ==
    /\ CopyOK(Copy(m)) /\ CopyOK(cache[m])
    /\ cache[m].spec # None /\ cache[m].state # "Deleting" => spec[m] # None
    /\ work[m] # None => spec[m] # None /\ IsSpec(work[m].spec) /\ IsFields(work[m].map)

TypeOK ==
    /\ DOMAIN spec = Models /\ DOMAIN state = Models /\ DOMAIN fields = Models
    /\ DOMAIN cache = Models /\ DOMAIN work = Models /\ DOMAIN validated = Models
    /\ edits \in [Models -> Nat] /\ \A m \in Models : edits[m] <= MaxEdits[m]
    /\ deleted \subseteq Models /\ changed \subseteq Models /\ behind \subseteq Models
    /\ \A m \in Models : ModelOK(m)

\* What finalize is for, said without its order: an aggregate that is given has
\* the children that are there, all of them given, and the objects that are not
\* given are made up.  An aggregate without fields below it may name itself its
\* child, because assert_child compares prefixes.
StrictlyBelow(names, n) == {o \in names : IsStrictPrefix(n, o)}
Complete(map) == DOMAIN map \cup UNION {Ancestors(n) : n \in DOMAIN map}
Consistent(map) ==
    \A n \in DOMAIN map : IsAggregate(map[n].kind) =>
       IF StrictlyBelow(DOMAIN map, n) = {} THEN map[n].kind.children \subseteq {n}
       ELSE /\ map[n].kind.children = Children(Complete(map), n)
            /\ map[n].kind.children \subseteq DOMAIN map
Reference(map) ==
    IF ~Consistent(map) THEN Err
    ELSE [n \in Complete(map) |->
            IF n \in DOMAIN map THEN map[n]
            ELSE [name |-> n, kind |-> Object(Children(Complete(map), n))]]

\* The loop with its growing map, which finds each of the errors at some field,
\* accepts and makes just what the reference does.
FinalizeIsExact ==
    \A m \in Models : Working(m, "finalize") =>
       LET w == work[m]
       IN  /\ w.todo = {} => Consistent(w.parsed) /\ w.map = Reference(w.parsed)
           /\ \A n \in w.todo : (\A o \in w.todo \ {n} : Before(n, o))
                                 /\ Rejects(w.map, DOMAIN w.parsed, w.generated, n)
                                    => ~Consistent(w.parsed)

\* The fields of a Ready model form a tree: the parent of each is there, and if
\* it is an aggregate, a Dynamic one included, names it as its child.
FieldsAreTree ==
    \A m \in Models : state[m] = "Ready" =>
       \A n \in DOMAIN fields[m] \ {<<>>} :
          /\ Parent(n) \in DOMAIN fields[m]
          /\ LET kind == fields[m][Parent(n)].kind
             IN  IsAggregate(kind) => n \in kind.children

\* What one model publishes another can take over: below any name, its fields
\* are accepted, none is lost or changed, and only parents are added.
EmbedsBelow ==
    \A m \in Models, p \in Below : state[m] = "Ready" =>
       LET merged == MergeFields(Empty, p, fields[m])
           result == Reference(merged)
       IN  /\ Accepts(Empty, Moved(p, fields[m])) /\ Consistent(merged)
           /\ DOMAIN result = Complete(merged)
           /\ \A n \in DOMAIN fields[m] : result[p \o n] = Shift(p, fields[m][n])

\* Fields that a model has taken over stay those of the model they came from,
\* unless its fields have been replaced or removed: of each model that a Ready one
\* refers to there are fields, and they are found below the name.
EmbeddedFieldsAgree ==
    \A m \in Models, r \in Models \ changed :
       state[m] = "Ready" /\ validated[m].type = "Fields" =>
         \A i \in DOMAIN validated[m].fields :
            LET f == validated[m].fields[i]
            IN  f.kind = [type |-> "Model", name |-> r] =>
                  /\ fields[r] # None
                  /\ \A n \in DOMAIN fields[r] : fields[m][f.name \o n] = Shift(f.name, fields[r][n])

\* The fields of a model do not change as long as it lives: bindings and other
\* models have taken them over.  Only a copy that lags behind them lets the
\* operator validate a Ready model again, or record other fields of a deleted one.
FieldsStay ==
    [][\A m \in Models : fields[m] \notin {None, fields'[m]} =>
          \/ spec'[m] = None
          \/ IF work[m] # None THEN m \in behind ELSE cache[m].fields # fields[m]]_vars

\* Would the model be accepted, if it were validated now?
Acceptable(s) ==
    CASE s.type = "Dynamic" -> TRUE
      [] s.type = "Fields" ->
            LET Further(map, f) == IF map = Err THEN Err ELSE Parsed(map, f)
                map == FoldLeft(Further, Empty, s.fields)
            IN  map # Err /\ Consistent(map)
      [] s.type = "CustomResourceDefinitionRef" ->
            /\ Schemas[s.name] # None
            /\ ParseSchema(Schemas[s.name]) # Err
            /\ Consistent(ParseSchema(Schemas[s.name]))

\* A model stays Pending only if its spec is wrong or refers to a model that is
\* not Ready; of models that refer to each other, or to themselves, none ever is.
ModelsSettle ==
    <>[](\A m \in Models : spec[m] # None /\ state[m] = "Pending" => ~Acceptable(spec[m]))
=============================================================================
