--------------------------- MODULE ModelFieldsInv ---------------------------
(***************************************************************************)
(* Why the properties of ModelFields hold: its inductive invariant.  TLC   *)
(* checks it on the instance of MCModelFields, ModelFieldsProofs proves it *)
(* for all.                                                                *)
(***************************************************************************)
EXTENDS ModelFields

\* What a validation holds at each of its two steps.
IsParse(w) ==
    /\ w = [spec |-> w.spec, step |-> "parse", map |-> w.map, next |-> w.next]
    /\ w.next \in Nat \ {0}
    /\ w.spec.type = "Fields" => w.next <= Len(w.spec.fields) + 1

IsFinalize(w) ==
    /\ w = [spec |-> w.spec, step |-> "finalize", parsed |-> w.parsed, map |-> w.map,
            generated |-> w.generated, todo |-> w.todo, again |-> w.again]
    /\ IsFields(w.parsed)
    /\ w.again \in BOOLEAN
    /\ w.spec.type = "Fields" => ~w.again

\* All names and kinds are those that parse_field lets pass.
Valid(map) == \A n \in DOMAIN map : ValidName(n) /\ ValidKind(map[n].kind)

\* Fields that are published: closed under parents, and right.
Published(map) == Complete(map) = DOMAIN map /\ Consistent(map) /\ Valid(map)

\* The keys of a finalize that are done.
Done(w) == DOMAIN w.parsed \ w.todo

\* What was parsed is kept, what is made is an ancestor of a key that is done
\* and has the children that are there by now ...
MadeOK(w) ==
    /\ w.todo \subseteq DOMAIN w.parsed
    /\ DOMAIN w.map = DOMAIN w.parsed \cup w.generated
    /\ DOMAIN w.parsed \cap w.generated = {}
    /\ \A n \in DOMAIN w.parsed : w.map[n] = w.parsed[n]
    /\ \A g \in w.generated :
          /\ \E n \in Done(w) : g \in Ancestors(n)
          /\ w.map[g] = [name |-> g, kind |-> Object(Children(DOMAIN w.map, g))]

\* ... and of a key that is done the parents are there, the children given, and
\* given parents have the children that are there by now.
CheckedOK(w) ==
    \A n \in Done(w) :
       /\ Ancestors(n) \subseteq DOMAIN w.map
       /\ IsAggregate(w.parsed[n].kind) =>
             \A c \in w.parsed[n].kind.children : IsPrefix(n, c) /\ c \in DOMAIN w.parsed
       /\ \A a \in Ancestors(n) \cap DOMAIN w.parsed :
             IsAggregate(w.parsed[a].kind) =>
                w.parsed[a].kind.children = Children(DOMAIN w.map, a)

\* The first k fields of the spec that take over the fields of another model
\* have them in the map as that model publishes them, unless these have changed.
\* fs and gone are fields and changed.
Agrees(map, s, k, fs, gone) ==
    \A i \in 1..k : \A r \in Models \ gone :
       LET f == s.fields[i]
       IN  f.kind.type = "Model" /\ f.kind.name = r =>
              /\ fs[r] # None
              /\ \A n \in DOMAIN fs[r] :
                    f.name \o n \in DOMAIN map /\ map[f.name \o n] = Shift(f.name, fs[r][n])

AgreesAll(map, s, fs, gone) ==
    s.type = "Fields" => Agrees(map, s, Len(s.fields), fs, gone)

ParseOK(w) == IsParse(w) /\ Valid(w.map)

FinalizeOK(w) == IsFinalize(w) /\ MadeOK(w) /\ CheckedOK(w) /\ (~w.again => Valid(w.parsed))

WorkOK(w) ==
    /\ w.step \in {"parse", "finalize"}
    /\ w.step = "parse" => ParseOK(w)
    /\ w.step = "finalize" => FinalizeOK(w)

WorkAgrees(w, fs, gone) ==
    IF w.step = "parse" THEN w.spec.type = "Fields" => Agrees(w.map, w.spec, w.next - 1, fs, gone)
    ELSE AgreesAll(w.parsed, w.spec, fs, gone)

\* A validation is right as far as it has come, and when the model has fields by
\* now, it began from an old copy; fields that are published are right, and what
\* they took over agrees.
FieldsOK(m) ==
    /\ work[m] # None => /\ WorkOK(work[m]) /\ WorkAgrees(work[m], fields, changed)
                         /\ fields[m] # None => m \in behind
    /\ state[m] = "Ready" =>
          /\ Published(fields[m])
          /\ IsSpec(validated[m])
          /\ AgreesAll(fields[m], validated[m], fields, changed)

\* The inductive invariant.
Inv == TypeOK /\ \A m \in Models : FieldsOK(m)
=============================================================================
