--------------------------- MODULE MCModelFields ---------------------------
(* Small instances of ModelFields for TLC. *)
EXTENDS ModelFieldsInv

CONSTANTS m0, m1, m2

ComponentOrder == <<"A", "a", "annotations", "b", "labels", "metadata", "name">>
Snake == [c \in {"a", "b", "metadata", "name"} |-> c] @@ ("B" :> "b")

Field(n, kind) == [name |-> n, kind |-> kind]
Bounded(min, default, max) ==
    [type |-> "Integer", minimum |-> min, default |-> default, maximum |-> max]
Ref(m) == [type |-> "Model", name |-> m]

\* Objects with right, missing and wrong children, one that names itself, names
\* at three depths, references.
Candidates == <<
    Field(<<>>, DynamicObject),
    Field(<<>>, Object({<<"a">>})),
    Field(<<"a">>, Object({})),
    Field(<<"a">>, Object({<<"a">>})),
    Field(<<"a">>, [type |-> "ObjectArray", children |-> {<<"a", "b">>}]),
    Field(<<"a">>, Object({<<"a", "b">>, <<"a", "b", "a">>})),
    Field(<<"a">>, Bounded(None, 1, None)),
    Field(<<"a", "b">>, Simple("Boolean")),
    Field(<<"a", "b", "a">>, [type |-> "String", kind |-> "Static", default |-> 2, length |-> 2]),
    Field(<<"a">>, Ref(m2)),
    Field(<<"b", "a">>, Ref(m2))>>

\* Bad bounds, a bad name, a model that refers to itself.
Singles == {
    Field(<<"b">>, Bounded(1, 0, None)),
    Field(<<"b">>, [type |-> "OneOfStrings", default |-> 3, choices |-> {1, 2}]),
    Field(<<"A">>, Simple("None")),
    Field(<<"b">>, Ref(m1))}

FieldsOf(fs) == [type |-> "Fields", fields |-> fs]
Rising(k) == {c \in [1..k -> DOMAIN Candidates] : \A i \in 1..k - 1 : c[i] < c[i + 1]}
Refers(c) == \E i \in DOMAIN c : Candidates[c[i]].kind.type = "Model"
Chosen(cs) == {FieldsOf([i \in DOMAIN c |-> Candidates[c[i]]]) : c \in cs}

\* Schemas: none, one, and one with two names for the same field.
CrdSchemas ==
    [missing |-> None, bare |-> Empty,
     good |-> (<<>> :> "object") @@ (<<"metadata">> :> "object") @@ (<<"b">> :> "object")
              @@ (<<"b", "a">> :> "boolean") @@ (<<"a">> :> "array"),
     odd |-> (<<>> :> "object") @@ (<<"metadata">> :> "object")
             @@ (<<"metadata", "name">> :> "boolean"),
     double |-> (<<>> :> "object") @@ (<<"b">> :> "boolean") @@ (<<"B">> :> "boolean"),
     strange |-> (<<>> :> "object") @@ (<<"b">> :> "int-or-string")]
CrdSpecs == {[type |-> "CustomResourceDefinitionRef", name |-> c] : c \in DOMAIN CrdSchemas}

\* One model is given all of them that refer to no other.  Beside one another there
\* are one that refers to the second and one that refers back, or is given what
\* fits below a field; the second may be edited, and be created again.
OtherSpecs ==
    {FieldsOf(<<Candidates[4]>>), FieldsOf(<<Candidates[5], Candidates[8]>>),
     FieldsOf(<<Field(<<"b">>, Ref(m1))>>)}
SpecsOf ==
    (m0 :> Chosen({c \in UNION {Rising(k) : k \in 0..3} : ~Refers(c)})
           \cup CrdSpecs \cup {FieldsOf(<<f>>) : f \in Singles} \cup {[type |-> "Dynamic"]})
    @@ (m1 :> Chosen({c \in UNION {Rising(k) : k \in 1..2} : Refers(c)}))
    @@ (m2 :> OtherSpecs)
RevisionsOf == (m0 :> {[type |-> "Dynamic"]}) @@ (m1 :> {}) @@ (m2 :> {FieldsOf(<<Candidates[4]>>)})
Beside == {{m0}, {m1, m2}}
Edits == (m0 :> 2) @@ (m1 :> 1) @@ (m2 :> 2)

BelowNames == {<<>>, <<"a">>, <<"b", "a">>}
=============================================================================
