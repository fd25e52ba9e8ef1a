------------------------- MODULE ModelFieldsProofs -------------------------
(***************************************************************************)
(* Proofs about ModelFields, for all models, specs, schemas and names.     *)
(***************************************************************************)
EXTENDS ModelFieldsInv, SequenceTheorems, TLAPS

----------------------------------------------------------------------------
(* Names. *)

\* What a name begins with is a name.
LEMMA PartOfName ==
    ASSUME NEW n \in Name, NEW i \in 0..Len(n)
    PROVE  /\ SubSeq(n, 1, i) \in Name
           /\ Len(SubSeq(n, 1, i)) = i
           /\ \A j \in 1..i : SubSeq(n, 1, i)[j] = n[j]
BY DEF Name

\* The ancestors of a name are the names strictly before it.
LEMMA AncestorsAre ==
    ASSUME NEW n \in Name
    PROVE  /\ Ancestors(n) = {a \in Name : IsStrictPrefix(a, n)}
           /\ \A a \in Ancestors(n) : Len(a) < Len(n)
<1>1. ASSUME NEW i \in 0..Len(n) - 1
      PROVE  LET a == SubSeq(n, 1, i) IN a \in Name /\ IsStrictPrefix(a, n) /\ Len(a) < Len(n)
  <2> DEFINE a == SubSeq(n, 1, i)
  <2>1. a \in Name /\ Len(a) = i /\ \A j \in 1..i : a[j] = n[j]
    BY DEF Name
  <2>2. SubSeq(a, 1, i) = SubSeq(n, 1, i)
    BY <2>1 DEF Name
  <2> QED BY <2>1, <2>2 DEF IsStrictPrefix, IsPrefix, Name
<1>2. ASSUME NEW a \in Name, IsStrictPrefix(a, n)
      PROVE  a \in Ancestors(n)
  <2>1. Len(a) <= Len(n) /\ SubSeq(a, 1, Len(a)) = SubSeq(n, 1, Len(a)) /\ a # n
    BY <1>2 DEF IsStrictPrefix, IsPrefix
  <2>2. SubSeq(a, 1, Len(a)) = a
    BY DEF Name
  <2>3. Len(a) # Len(n)
    <3> SUFFICES ASSUME Len(a) = Len(n) PROVE FALSE
      OBVIOUS
    <3>1. SubSeq(n, 1, Len(n)) = n
      BY DEF Name
    <3> QED BY <2>1, <2>2, <3>1
  <2>4. Len(a) \in 0..Len(n) - 1
    BY <2>1, <2>3 DEF Name
  <2> QED BY <2>1, <2>2, <2>4 DEF Ancestors
<1> QED BY <1>1, <1>2 DEF Ancestors

\* A name strictly before one that is strictly before another is strictly
\* before that.
LEMMA AncestorsOfAncestors ==
    ASSUME NEW n \in Name, NEW b \in Ancestors(n), NEW a \in Ancestors(b)
    PROVE  a \in Ancestors(n)
<1>1. PICK i \in 0..Len(n) - 1 : b = SubSeq(n, 1, i)
  BY DEF Ancestors
<1>2. Len(b) = i /\ b \in Name
  BY <1>1 DEF Name
<1>3. PICK j \in 0..Len(b) - 1 : a = SubSeq(b, 1, j)
  BY DEF Ancestors
<1>4. a = SubSeq(n, 1, j)
  BY <1>1, <1>2, <1>3 DEF Name
<1>5. j \in 0..Len(n) - 1
  <2>1. Len(n) \in Nat
    BY DEF Name
  <2> QED BY <1>2, <1>3, <2>1
<1> QED BY <1>4, <1>5 DEF Ancestors

\* The parent of a name other than "/" is its nearest ancestor.
LEMMA ParentIsAncestor ==
    ASSUME NEW n \in Name, n # <<>>
    PROVE  /\ Parent(n) \in Ancestors(n)
           /\ IsPrefix(Parent(n), n)
           /\ \A a \in Ancestors(n) : a = Parent(n) \/ a \in Ancestors(Parent(n))
<1>1. Len(n) \in Nat \ {0}
  BY DEF Name
<1>2. Parent(n) = SubSeq(n, 1, Len(n) - 1)
  BY DEF Parent, Front
<1>3. Parent(n) \in Ancestors(n)
  BY <1>1, <1>2 DEF Ancestors
<1>4. ASSUME NEW a \in Ancestors(n), a # Parent(n)
      PROVE  a \in Ancestors(Parent(n))
  <2>1. PICK i \in 0..Len(n) - 1 : a = SubSeq(n, 1, i)
    BY DEF Ancestors
  <2>2. i # Len(n) - 1
    BY <1>2, <1>4, <2>1
  <2>3. Len(Parent(n)) = Len(n) - 1
    <3>1. Len(SubSeq(n, 1, Len(n) - 1)) = Len(n) - 1
      <4>1. Len(n) - 1 \in 0..Len(n)
        BY <1>1
      <4> QED BY <4>1, PartOfName
    <3> QED BY <1>2, <3>1
  <2>4. a = SubSeq(Parent(n), 1, i)
    BY <1>1, <1>2, <2>1, <2>2 DEF Name
  <2>5. i \in 0..Len(Parent(n)) - 1
    BY <1>1, <2>2, <2>3
  <2> QED BY <2>4, <2>5 DEF Ancestors
<1>5. IsPrefix(Parent(n), n)
  BY <1>3, AncestorsAre DEF IsStrictPrefix
<1> QED BY <1>3, <1>4, <1>5

\* Children are names whose parent is an ancestor of theirs.
LEMMA ChildrenAre ==
    ASSUME NEW S, S \subseteq Name, NEW p, NEW c \in Children(S, p)
    PROVE  c \in S /\ c # <<>> /\ Parent(c) = p /\ p \in Ancestors(c) /\ IsPrefix(p, c)
BY ParentIsAncestor DEF Children

\* An ancestor of a valid name is valid.
LEMMA AncestorsValid ==
    ASSUME NEW n \in Name, ValidName(n), NEW a \in Ancestors(n)
    PROVE  ValidName(a)
<1>1. PICK i \in 0..Len(n) - 1 : a = SubSeq(n, 1, i)
  BY DEF Ancestors
<1>2. DOMAIN a = 1..i /\ DOMAIN n = 1..Len(n) /\ \A j \in 1..i : a[j] = n[j]
  BY <1>1 DEF Name
<1>3. Range(a) \subseteq Range(n)
  BY <1>2 DEF Range, Name
<1> QED BY <1>3 DEF ValidName

----------------------------------------------------------------------------
(* Names below names. *)

\* A name below another is a name, valid if both are, and tells which it was.
LEMMA JoinedName ==
    ASSUME NEW p \in Name, NEW n \in Name
    PROVE  /\ p \o n \in Name
           /\ ValidName(p) /\ ValidName(n) => ValidName(p \o n)
           /\ \A o \in Name : p \o n = p \o o => n = o
<1>1. p \o n \in Name
  BY DEF Name
<1>2. ASSUME ValidName(p), ValidName(n)
      PROVE  ValidName(p \o n)
  <2>1. ASSUME NEW i \in DOMAIN (p \o n)
        PROVE  (p \o n)[i] \notin BadComponents
    <3>1. i \in 1..Len(p) + Len(n)
      BY DEF Name
    <3>2. CASE i <= Len(p)
      <4>1. i \in DOMAIN p /\ (p \o n)[i] = p[i]
        BY <3>1, <3>2 DEF Name
      <4> QED BY <1>2, <4>1 DEF ValidName, Range
    <3>3. CASE i > Len(p)
      <4>1. i - Len(p) \in DOMAIN n /\ (p \o n)[i] = n[i - Len(p)]
        BY <3>1, <3>3 DEF Name
      <4> QED BY <1>2, <4>1 DEF ValidName, Range
    <3> QED BY <3>1, <3>2, <3>3 DEF Name
  <2> QED BY <2>1 DEF ValidName, Range
<1>3. ASSUME NEW o \in Name, p \o n = p \o o
      PROVE  n = o
  <2>1. Len(n) = Len(o)
    BY <1>3 DEF Name
  <2>2. \A i \in 1..Len(n) : n[i] = (p \o n)[Len(p) + i]
    BY DEF Name
  <2>3. \A i \in 1..Len(o) : o[i] = (p \o o)[Len(p) + i]
    BY DEF Name
  <2>4. \A i \in 1..Len(n) : n[i] = o[i]
    BY <1>3, <2>1, <2>2, <2>3
  <2>5. n \in Seq(Range(Components)) /\ o \in Seq(Range(Components))
    BY DEF Name
  <2> QED BY <2>1, <2>4, <2>5, SeqEqual
<1> QED BY <1>1, <1>2, <1>3

\* "/" is a name, and what is below it keeps its name.
LEMMA RootName == /\ <<>> \in Name
                  /\ ValidName(<<>>)
                  /\ \A n \in Name : <<>> \o n = n
<1>1. ValidName(<<>>)
  BY DEF ValidName, Range
<1> QED BY <1>1 DEF Name

----------------------------------------------------------------------------
(* Maps of fields. *)

\* No fields are fields.
LEMMA EmptyIsFields == IsFields(Empty) /\ Valid(Empty) /\ DOMAIN Empty = {}
BY DEF IsFields, Valid, Empty

\* What a map becomes with more fields.
LEMMA ExtendedIs ==
    ASSUME NEW map, IsFields(map), NEW more, \A f \in more : IsField(f)
    PROVE  LET result == Extended(map, more)
           IN  /\ IsFields(result)
               /\ DOMAIN result = DOMAIN map \cup {f.name : f \in more}
               /\ \A f \in more : result[f.name] \in more /\ result[f.name].name = f.name
               /\ \A n \in DOMAIN map \ {f.name : f \in more} : result[n] = map[n]
<1> DEFINE names == {f.name : f \in more}
           result == Extended(map, more)
<1>1. result = [n \in DOMAIN map \cup names |->
                  IF n \in names THEN CHOOSE f \in more : f.name = n ELSE map[n]]
  BY DEF Extended
<1>2. DOMAIN result = DOMAIN map \cup names
  BY <1>1
<1>3. ASSUME NEW n \in names
      PROVE  result[n] \in more /\ result[n].name = n
  BY <1>1
<1>4. \A n \in DOMAIN map \ names : result[n] = map[n]
  BY <1>1
<1>5. IsFields(result)
  <2>1. result = [n \in DOMAIN result |-> result[n]]
    BY <1>1
  <2> HIDE DEF result
  <2>2. ASSUME NEW n \in DOMAIN result
        PROVE  result[n].name = n /\ IsField(result[n])
    BY <1>2, <1>3, <1>4 DEF IsFields
  <2> QED BY <2>1, <2>2 DEF IsFields
<1> QED BY <1>2, <1>3, <1>4, <1>5

\* A field below a name is a field; its kind is as valid as it was.
LEMMA ShiftIs ==
    ASSUME NEW p \in Name, NEW f, IsField(f)
    PROVE  /\ IsField(Shift(p, f))
           /\ Shift(p, f).name = p \o f.name
           /\ IsAggregate(Shift(p, f).kind) <=> IsAggregate(f.kind)
           /\ IsAggregate(f.kind) =>
                Shift(p, f).kind.children = {p \o c : c \in f.kind.children}
           /\ ValidKind(Shift(p, f).kind) <=> ValidKind(f.kind)
<1> DEFINE kind == ShiftKind(p, f.kind)
<1>1. f = [name |-> f.name, kind |-> f.kind] /\ f.name \in Name
  BY DEF IsField
<1>2. Shift(p, f) = [name |-> p \o f.name, kind |-> kind]
  <2> DEFINE g == Shift(p, f)
  <2>1. g = [x \in DOMAIN g |-> g[x]]
    BY <1>1 DEF Shift
  <2>2. DOMAIN g = {"name", "kind"}
    BY <1>1 DEF Shift
  <2>3. g.name = p \o f.name
    BY <1>1 DEF Shift
  <2>4. g.kind = kind
    BY <1>1 DEF Shift
  <2> HIDE DEF g, kind
  <2>5. g = [name |-> p \o f.name, kind |-> kind]
    BY <2>1, <2>2, <2>3, <2>4
  <2> QED BY <2>5 DEF g
<1>3. ASSUME IsAggregate(f.kind)
      PROVE  /\ kind.type = f.kind.type /\ "type" \in DOMAIN kind
             /\ "children" \in DOMAIN kind
             /\ kind.children = {p \o c : c \in f.kind.children}
             /\ kind.children \subseteq Name
  <2>1. "type" \in DOMAIN f.kind /\ "children" \in DOMAIN f.kind /\ f.kind.children \subseteq Name
    BY <1>3 DEF IsField
  <2>2. {p \o c : c \in f.kind.children} \subseteq Name
    BY <2>1, JoinedName
  <2>3. kind = [f.kind EXCEPT !.children = {p \o c : c \in f.kind.children}]
    BY <1>3 DEF ShiftKind
  <2> HIDE DEF kind
  <2> QED BY <1>3, <2>1, <2>2, <2>3
<1>4. IsAggregate(kind) <=> IsAggregate(f.kind)
  BY <1>3 DEF IsAggregate, ShiftKind
<1>5. ValidKind(kind) <=> ValidKind(f.kind)
  <2>1. CASE IsAggregate(f.kind)
    BY <2>1, <1>3 DEF ValidKind, IsAggregate
  <2>2. CASE ~IsAggregate(f.kind)
    BY <2>2 DEF ShiftKind
  <2> QED BY <2>1, <2>2
<1>6. p \o f.name \in Name
  BY <1>1, JoinedName
<1>7. CASE IsAggregate(f.kind)
  <2> HIDE DEF kind
  <2>1. kind.type # "Model"
    BY <1>3, <1>7 DEF IsAggregate
  <2>2. Shift(p, f).name = p \o f.name /\ Shift(p, f).kind = kind
    BY <1>2
  <2>3. IsField(Shift(p, f))
    BY <1>2, <1>3, <1>6, <1>7, <2>1, <2>2 DEF IsField
  <2> QED BY <1>3, <1>4, <1>5, <1>7, <2>2, <2>3
<1>8. CASE ~IsAggregate(f.kind)
  <2>1. kind = f.kind
    BY <1>8 DEF ShiftKind
  <2> QED BY <1>2, <1>6, <1>8, <2>1 DEF IsField
<1> QED BY <1>7, <1>8

\* parse_field adds one field, with a new and valid name and a valid kind.
LEMMA ParseFieldIs ==
    ASSUME NEW map, IsFields(map), NEW f, IsField(f), ParseField(map, f) # Err
    PROVE  LET result == ParseField(map, f)
           IN  /\ IsFields(result)
               /\ Valid(map) => Valid(result)
               /\ DOMAIN map \subseteq DOMAIN result
               /\ \A n \in DOMAIN map : result[n] = map[n]
<1> DEFINE result == ParseField(map, f)
<1>1. /\ f.name \notin DOMAIN map /\ ValidName(f.name) /\ ValidKind(f.kind)
      /\ result = Extended(map, {f})
  BY DEF ParseField, Accepts
<1>2. /\ IsFields(result)
      /\ DOMAIN result = DOMAIN map \cup {f.name}
      /\ result[f.name] = f
      /\ \A n \in DOMAIN map : result[n] = map[n]
  <2>1. \A g \in {f} : IsField(g)
    OBVIOUS
  <2>2. {g.name : g \in {f}} = {f.name}
    OBVIOUS
  <2>3. LET r == Extended(map, {f})
        IN  /\ IsFields(r)
            /\ DOMAIN r = DOMAIN map \cup {g.name : g \in {f}}
            /\ \A g \in {f} : r[g.name] \in {f} /\ r[g.name].name = g.name
            /\ \A n \in DOMAIN map \ {g.name : g \in {f}} : r[n] = map[n]
    BY <2>1, ExtendedIs
  <2> HIDE DEF result
  <2> QED BY <1>1, <2>2, <2>3
<1> HIDE DEF result
<1>3. ASSUME Valid(map)
      PROVE  Valid(result)
  <2> SUFFICES ASSUME NEW n \in DOMAIN result
               PROVE  ValidName(n) /\ ValidKind(result[n].kind)
    BY DEF Valid
  <2>1. CASE n = f.name
    BY <1>1, <1>2, <2>1
  <2>2. CASE n \in DOMAIN map
    BY <1>2, <1>3, <2>2 DEF Valid
  <2> QED BY <1>2, <2>1, <2>2
<1> QED BY <1>2, <1>3 DEF result

\* A map with the given fields below the parent, all of them new.
Merged(map, p, given, result) ==
    /\ IsFields(result)
    /\ Valid(map) => Valid(result)
    /\ DOMAIN result = DOMAIN map \cup {p \o n : n \in DOMAIN given}
    /\ \A n \in DOMAIN map : result[n] = map[n]
    /\ \A n \in DOMAIN given : result[p \o n] = Shift(p, given[n])

\* merge_fields makes such a map, if it accepts the fields.
LEMMA MergeFieldsIs ==
    ASSUME NEW map, IsFields(map), NEW p \in Name, NEW given, IsFields(given),
           Accepts(map, Moved(p, given))
    PROVE  Merged(map, p, given, MergeFields(map, p, given))
<1> DEFINE result == MergeFields(map, p, given)
           moved == {Shift(p, given[n]) : n \in DOMAIN given}
<1>1. /\ \A f \in moved : f.name \notin DOMAIN map /\ ValidName(f.name) /\ ValidKind(f.kind)
      /\ result = Extended(map, moved)
  BY DEF MergeFields, Accepts, Moved
<1>2. ASSUME NEW n \in DOMAIN given
      PROVE  /\ n \in Name /\ IsField(given[n]) /\ IsField(Shift(p, given[n]))
             /\ Shift(p, given[n]).name = p \o n
  <2>1. given[n].name = n /\ IsField(given[n])
    BY DEF IsFields
  <2>2. n \in Name
    BY <2>1 DEF IsField
  <2>3. IsField(Shift(p, given[n])) /\ Shift(p, given[n]).name = p \o given[n].name
    BY <2>1, ShiftIs
  <2> QED BY <2>1, <2>2, <2>3
<1>3. \A f \in moved : IsField(f)
  BY <1>2
<1>4. {f.name : f \in moved} = {p \o n : n \in DOMAIN given}
  BY <1>2
<1>5. /\ IsFields(result)
      /\ DOMAIN result = DOMAIN map \cup {p \o n : n \in DOMAIN given}
      /\ \A f \in moved : result[f.name] \in moved /\ result[f.name].name = f.name
      /\ \A n \in DOMAIN map \ {p \o o : o \in DOMAIN given} : result[n] = map[n]
  <2> HIDE DEF moved
  <2>1. LET r == Extended(map, moved)
        IN  /\ IsFields(r)
            /\ DOMAIN r = DOMAIN map \cup {g.name : g \in moved}
            /\ \A g \in moved : r[g.name] \in moved /\ r[g.name].name = g.name
            /\ \A n \in DOMAIN map \ {g.name : g \in moved} : r[n] = map[n]
    BY <1>3, ExtendedIs
  <2> HIDE DEF result
  <2> QED BY <1>1, <1>4, <2>1
<1> HIDE DEF result
<1>6. \A n \in DOMAIN given : p \o n \notin DOMAIN map
  BY <1>1, <1>2
<1>7. ASSUME NEW n \in DOMAIN given
      PROVE  result[p \o n] = Shift(p, given[n])
  <2>1. result[p \o n] \in moved /\ result[p \o n].name = p \o n
    BY <1>2, <1>5
  <2>2. PICK o \in DOMAIN given : result[p \o n] = Shift(p, given[o])
    BY <2>1
  <2>3. p \o n = p \o o
    BY <1>2, <2>1, <2>2
  <2>4. n = o
    BY <1>2, <2>3, JoinedName
  <2> QED BY <2>2, <2>4
<1>8. ASSUME Valid(map)
      PROVE  Valid(result)
  <2> SUFFICES ASSUME NEW n \in DOMAIN result
               PROVE  ValidName(n) /\ ValidKind(result[n].kind)
    BY DEF Valid
  <2>1. CASE n \in DOMAIN map
    BY <1>5, <1>6, <1>8, <2>1 DEF Valid
  <2>2. CASE n \notin DOMAIN map
    <3>1. PICK o \in DOMAIN given : n = p \o o
      BY <1>5, <2>2
    <3> QED BY <1>1, <1>2, <1>7, <3>1
  <2> QED BY <2>1, <2>2
<1> QED BY <1>5, <1>6, <1>7, <1>8 DEF Merged, result

\* The map after a field of finalize that is not rejected, from the one before.
Grown(map, keys, generated, n, result) ==
    /\ ~Rejects(map, keys, generated, n)
    /\ IsFields(result)
    /\ DOMAIN result = DOMAIN map \cup Made(map, generated, n)
    /\ \A a \in Made(map, generated, n) :
          result[a] = [name |-> a, kind |-> Object(Children(DOMAIN result, a))]
    /\ \A a \in DOMAIN map \ Made(map, generated, n) : result[a] = map[a]

\* finalize keeps the fields that are not made anew, and makes the others with
\* the children that are there.
LEMMA FinalizeFieldIs ==
    ASSUME NEW map, IsFields(map), NEW keys, NEW generated, NEW n \in DOMAIN map,
           FinalizeField(map, keys, generated, n) # Err
    PROVE  Grown(map, keys, generated, n, FinalizeField(map, keys, generated, n))
<1> DEFINE result == FinalizeField(map, keys, generated, n)
<1> DEFINE made == Made(map, generated, n)
           names == DOMAIN map \cup made
<1>1. /\ ~Rejects(map, keys, generated, n)
      /\ result = [a \in names |->
                     IF a \in made THEN [name |-> a, kind |-> Object(Children(names, a))]
                     ELSE map[a]]
  BY DEF FinalizeField
<1>2. DOMAIN map \subseteq Name
  BY DEF IsFields, IsField
<1>3. made \subseteq Name
  BY <1>2, AncestorsAre DEF Made
<1>4. DOMAIN result = names
  BY <1>1
<1>5. \A a \in made : result[a] = [name |-> a, kind |-> Object(Children(names, a))]
  BY <1>1
<1>6. \A a \in DOMAIN map \ made : result[a] = map[a]
  BY <1>1
<1> HIDE DEF result
<1>7. IsFields(result)
  <2>1. result = [a \in DOMAIN result |-> result[a]]
    BY <1>1, <1>4
  <2> SUFFICES ASSUME NEW a \in DOMAIN result
               PROVE  result[a].name = a /\ IsField(result[a])
    BY <2>1 DEF IsFields
  <2>2. CASE a \in made
    <3>1. Children(names, a) \subseteq Name
      BY <1>2, <1>3 DEF Children
    <3>2. a \in Name
      BY <1>3, <2>2
    <3> HIDE DEF names, made
    <3> DEFINE kind == Object(Children(names, a))
    <3>3. /\ kind.type = "Object" /\ "type" \in DOMAIN kind
          /\ kind.children = Children(names, a) /\ "children" \in DOMAIN kind
      BY DEF Object
    <3> HIDE DEF kind
    <3>4. result[a] = [name |-> a, kind |-> kind]
      BY <1>5, <2>2 DEF kind
    <3>5. result[a].name = a /\ result[a].kind = kind
      BY <3>4
    <3> QED BY <3>1, <3>2, <3>3, <3>4, <3>5 DEF IsField
  <2>3. CASE a \in DOMAIN map \ made
    BY <1>6, <2>3 DEF IsFields
  <2> QED BY <1>4, <2>2, <2>3
<1> QED BY <1>1, <1>4, <1>5, <1>6, <1>7 DEF Grown, result

----------------------------------------------------------------------------
(* The schema of a CustomResourceDefinition. *)

\* The fields that are put in for the metadata are fields.
LEMMA MetadataIs == \A f \in MetadataFields : IsField(f)
<1> USE SpecsAssumption
<1>1. {<<"metadata">>} \cup MetadataNames \subseteq Name
  BY DEF Name, MetadataNames
<1>2. IsField([name |-> <<"metadata">>, kind |-> Object(MetadataNames)])
  BY <1>1 DEF IsField, Object, IsAggregate
<1>3. ASSUME NEW n \in MetadataNames
      PROVE  IsField([name |-> n, kind |-> DynamicObject])
  BY <1>1 DEF IsField, DynamicObject, Object, IsAggregate
<1>4. ASSUME NEW n \in MetadataNames
      PROVE  IsField([name |-> n, kind |-> [type |-> "String", kind |-> "Dynamic", default |-> None]])
  BY <1>1 DEF IsField, IsAggregate
<1> QED BY <1>2, <1>3, <1>4 DEF MetadataFields

\* The converted names are names.
LEMMA ConvertIs ==
    ASSUME NEW p \in Seq(DOMAIN SnakeCase)
    PROVE  Convert(p) \in Name
BY SpecsAssumption DEF Convert, Name

\* What is parsed of a schema are fields.
LEMMA ParseSchemaIs ==
    ASSUME NEW schema, DOMAIN schema \subseteq Seq(DOMAIN SnakeCase), ParseSchema(schema) # Err
    PROVE  IsFields(ParseSchema(schema))
<1> DEFINE found == {[name |-> Convert(p), kind |-> JsonKind(schema, p)] : p \in DOMAIN schema}
           kept == {f \in found : f.name \notin {<<>>, <<"metadata">>}}
<1>1. CASE schema = Empty
  BY <1>1, EmptyIsFields DEF ParseSchema
<1>2. CASE schema # Empty
  <2>1. /\ \A f \in found : f.kind # Err
        /\ ParseSchema(schema) = Extended(Empty, kept \cup MetadataFields)
    BY <1>2 DEF ParseSchema
  <2>2. ASSUME NEW p \in DOMAIN schema
        PROVE  IsField([name |-> Convert(p), kind |-> JsonKind(schema, p)])
    <3> DEFINE kind == JsonKind(schema, p)
               children == {Convert(c) : c \in Children(DOMAIN schema, p)}
    <3>1. Convert(p) \in Name /\ children \subseteq Name
      BY ConvertIs DEF Children
    <3>2. kind # Err
      <4>1. [name |-> Convert(p), kind |-> kind] \in found
        OBVIOUS
      <4>2. [name |-> Convert(p), kind |-> kind].kind = kind
        OBVIOUS
      <4> HIDE DEF kind, found
      <4> QED BY <2>1, <4>1, <4>2
    <3>3. kind \in {Object(children), [type |-> "ObjectArray", children |-> children],
                    Simple("Boolean")}
      BY <3>2 DEF JsonKind
    <3> HIDE DEF kind, children
    <3>4. CASE kind = Object(children)
      BY <3>1, <3>4 DEF kind, IsField, Object, IsAggregate
    <3>5. CASE kind = [type |-> "ObjectArray", children |-> children]
      BY <3>1, <3>5 DEF kind, IsField, IsAggregate
    <3>6. CASE kind = Simple("Boolean")
      BY <3>1, <3>6 DEF kind, IsField, IsAggregate, Simple
    <3> QED BY <3>3, <3>4, <3>5, <3>6
  <2>3. \A f \in kept \cup MetadataFields : IsField(f)
    BY <2>2, MetadataIs
  <2> HIDE DEF kept
  <2>4. IsFields(Extended(Empty, kept \cup MetadataFields))
    BY <2>3, EmptyIsFields, ExtendedIs
  <2> QED BY <2>1, <2>4
<1> QED BY <1>1, <1>2

----------------------------------------------------------------------------
(* Finalize. *)

\* Names before n change only the children of names before n.
LEMMA ChildrenStay ==
    ASSUME NEW names \in SUBSET Name, NEW n \in Name, NEW more \in SUBSET Ancestors(n),
           NEW a, a \notin Ancestors(n)
    PROVE  Children(names \cup more, a) = Children(names, a)
<1>1. more \subseteq Name
  BY AncestorsAre
<1>2. ASSUME NEW c \in more, c # <<>>, Parent(c) = a
      PROVE  FALSE
  <2>1. a \in Ancestors(c)
    BY <1>1, <1>2, ParentIsAncestor
  <2>2. a \in Ancestors(n)
    BY <2>1, AncestorsOfAncestors
  <2> QED BY <2>2
<1> QED BY <1>2 DEF Children

\* The validation after one more field of finalize.
LEMMA FinalizedIs ==
    ASSUME NEW w, IsFinalize(w), NEW n, NEW map
    PROVE  Finalized(w, n, map)
             = [spec |-> w.spec, step |-> "finalize", parsed |-> w.parsed, map |-> map,
                generated |-> w.generated \cup (DOMAIN map \ DOMAIN w.map),
                todo |-> w.todo \ {n}, again |-> w.again]
<1> DEFINE todo == w.todo \ {n}
           generated == w.generated \cup (DOMAIN map \ DOMAIN w.map)
           v == [w EXCEPT !.map = map, !.todo = todo, !.generated = generated]
<1>1. w = [spec |-> w.spec, step |-> "finalize", parsed |-> w.parsed, map |-> w.map,
           generated |-> w.generated, todo |-> w.todo, again |-> w.again]
  BY DEF IsFinalize
<1>2. Finalized(w, n, map) = v
  BY DEF Finalized
<1> HIDE DEF todo, generated
<1>3. v = [x \in DOMAIN v |-> v[x]]
  OBVIOUS
<1>4. DOMAIN v = {"spec", "step", "parsed", "map", "generated", "todo", "again"}
  BY <1>1
<1>5. v.spec = w.spec /\ v.step = "finalize" /\ v.parsed = w.parsed /\ v.again = w.again
  BY <1>1
<1>6. v.map = map /\ v.todo = todo /\ v.generated = generated
  BY <1>1
<1> HIDE DEF v
<1>7. v = [spec |-> w.spec, step |-> "finalize", parsed |-> w.parsed, map |-> map,
           generated |-> generated, todo |-> todo, again |-> w.again]
  BY <1>3, <1>4, <1>5, <1>6
<1> QED BY <1>2, <1>7 DEF todo, generated

\* One field of finalize keeps what holds between fields: names that were not
\* there are ancestors of its name, so only the children of ancestors change, and
\* those are made anew or compared.
LEMMA FinalizeFieldKeeps ==
    ASSUME NEW w, IsFinalize(w), IsFields(w.map), MadeOK(w), CheckedOK(w), NEW n \in w.todo,
           NEW map, map = FinalizeField(w.map, DOMAIN w.parsed, w.generated, n), map # Err,
           NEW v, v = Finalized(w, n, map)
    PROVE  /\ IsFinalize(v) /\ IsFields(v.map) /\ MadeOK(v) /\ CheckedOK(v)
           /\ v.spec = w.spec /\ v.parsed = w.parsed /\ v.again = w.again
           /\ v.step = "finalize" /\ v.map = map
<1> DEFINE keys == DOMAIN w.parsed
           made == Made(w.map, w.generated, n)
           generated == w.generated \cup (DOMAIN map \ DOMAIN w.map)
<1>1. v = [spec |-> w.spec, step |-> "finalize", parsed |-> w.parsed, map |-> map,
           generated |-> generated, todo |-> w.todo \ {n}, again |-> w.again]
  BY FinalizedIs
<1>2. /\ v.spec = w.spec /\ v.step = "finalize" /\ v.parsed = w.parsed /\ v.map = map
      /\ v.generated = generated /\ v.todo = w.todo \ {n} /\ v.again = w.again
  <2> HIDE DEF generated
  <2> QED BY <1>1
<1>3. /\ n \in keys /\ n \in DOMAIN w.map
      /\ DOMAIN w.map = keys \cup w.generated
      /\ keys \cap w.generated = {}
      /\ \A k \in keys : w.map[k] = w.parsed[k]
  BY DEF MadeOK
<1>4. /\ ~Rejects(w.map, keys, w.generated, n)
      /\ IsFields(map)
      /\ DOMAIN map = DOMAIN w.map \cup made
      /\ \A a \in made : map[a] = [name |-> a, kind |-> Object(Children(DOMAIN map, a))]
      /\ \A a \in DOMAIN w.map \ made : map[a] = w.map[a]
  <2>1. Grown(w.map, keys, w.generated, n, map)
    BY <1>3, FinalizeFieldIs
  <2> QED BY <2>1 DEF Grown
<1>5. DOMAIN w.map \subseteq Name /\ n \in Name
  <2>1. \A k \in DOMAIN w.map : w.map[k].name = k /\ w.map[k].name \in Name
    BY DEF IsFields, IsField
  <2> HIDE DEF keys
  <2> QED BY <1>3, <2>1
<1>6. made \subseteq Ancestors(n) /\ made \cap keys = {}
  BY <1>3 DEF Made
<1>7. generated = w.generated \cup made /\ w.generated \cap Ancestors(n) \subseteq made
  BY <1>3, <1>4 DEF Made
<1>8. \A a : a \notin Ancestors(n) => Children(DOMAIN map, a) = Children(DOMAIN w.map, a)
  <2> SUFFICES ASSUME NEW a, a \notin Ancestors(n)
               PROVE  Children(DOMAIN map, a) = Children(DOMAIN w.map, a)
    OBVIOUS
  <2> DEFINE names == DOMAIN w.map
  <2>1. names \in SUBSET Name /\ made \in SUBSET Ancestors(n)
    BY <1>5, <1>6
  <2>2. DOMAIN map = names \cup made
    BY <1>4
  <2> HIDE DEF made, names
  <2>3. Children(names \cup made, a) = Children(names, a)
    BY <1>5, <2>1, ChildrenStay
  <2> QED BY <2>2, <2>3 DEF names
<1>9. Done(v) = Done(w) \cup {n}
  BY <1>2, <1>3 DEF Done
<1> HIDE DEF keys, made, generated
<1>10. IsFinalize(v)
  BY <1>1, <1>2 DEF IsFinalize
<1>11. MadeOK(v)
  <2>1. v.todo \subseteq DOMAIN v.parsed
    BY <1>2 DEF MadeOK
  <2>2. DOMAIN v.map = keys \cup generated /\ keys \cap generated = {}
    BY <1>2, <1>3, <1>4, <1>6, <1>7
  <2>3. \A k \in keys : map[k] = w.parsed[k]
    BY <1>3, <1>4, <1>6
  <2>4. ASSUME NEW g \in generated
        PROVE  /\ \E k \in Done(v) : g \in Ancestors(k)
               /\ map[g] = [name |-> g, kind |-> Object(Children(DOMAIN map, g))]
    <3>1. CASE g \in made
      BY <1>4, <1>6, <1>9, <3>1
    <3>2. CASE g \notin made
      <4>1. g \in w.generated /\ g \notin Ancestors(n)
        BY <1>7, <3>2
      <4>2. /\ \E k \in Done(w) : g \in Ancestors(k)
            /\ w.map[g] = [name |-> g, kind |-> Object(Children(DOMAIN w.map, g))]
        BY <4>1 DEF MadeOK
      <4>3. map[g] = w.map[g]
        BY <1>3, <1>4, <3>2, <4>1
      <4> QED BY <1>8, <1>9, <4>1, <4>2, <4>3
    <3> QED BY <3>1, <3>2
  <2> QED BY <1>2, <2>1, <2>2, <2>3, <2>4 DEF MadeOK, keys
<1>12. CheckedOK(v)
  <2>1. ASSUME NEW k \in Done(v)
        PROVE  Ancestors(k) \subseteq DOMAIN map
    <3>1. CASE k = n
      BY <1>4, <3>1 DEF made, Made
    <3>2. CASE k \in Done(w)
      BY <1>4, <3>2 DEF CheckedOK
    <3> QED BY <1>9, <3>1, <3>2
  <2>2. ASSUME NEW k \in Done(v), IsAggregate(w.parsed[k].kind),
               NEW c \in w.parsed[k].kind.children
        PROVE  IsPrefix(k, c) /\ c \in keys
    <3>1. CASE k = n
      BY <1>3, <1>4, <2>2, <3>1 DEF Rejects
    <3>2. CASE k \in Done(w)
      BY <2>2, <3>2 DEF CheckedOK, keys
    <3> QED BY <1>9, <3>1, <3>2
  <2>3. ASSUME NEW k \in Done(v), NEW a \in Ancestors(k) \cap keys,
               IsAggregate(w.parsed[a].kind)
        PROVE  w.parsed[a].kind.children = Children(DOMAIN map, a)
    <3>1. CASE a \in Ancestors(n)
      <4>1. a \in Ancestors(n) \ made
        BY <1>6, <2>3, <3>1
      <4>2. w.map[a] = w.parsed[a]
        BY <1>3, <2>3
      <4> QED BY <1>4, <2>3, <4>1, <4>2 DEF Rejects, made
    <3>2. CASE a \notin Ancestors(n)
      <4>1. k \in Done(w)
        BY <1>9, <2>3, <3>2
      <4>2. w.parsed[a].kind.children = Children(DOMAIN w.map, a)
        BY <2>3, <4>1 DEF CheckedOK, keys
      <4> QED BY <1>8, <3>2, <4>2
    <3> QED BY <3>1, <3>2
  <2> QED BY <1>2, <2>1, <2>2, <2>3 DEF CheckedOK, keys
<1> QED BY <1>2, <1>4, <1>10, <1>11, <1>12

\* The names strictly below a name are those that it is an ancestor of.
LEMMA BelowAre ==
    ASSUME NEW names \in SUBSET Name, NEW n \in Name
    PROVE  StrictlyBelow(names, n) = {o \in names : n \in Ancestors(o)}
<1>1. \A o \in names : IsStrictPrefix(n, o) <=> n \in Ancestors(o)
  BY AncestorsAre
<1> QED BY <1>1 DEF StrictlyBelow

\* Every name of a completed map is a key or an ancestor of one, and there are
\* only names.
LEMMA CompleteIs ==
    ASSUME NEW map, IsFields(map)
    PROVE  /\ DOMAIN map \subseteq Name
           /\ Complete(map) \subseteq Name
           /\ \A n \in Complete(map) : Ancestors(n) \subseteq Complete(map)
<1>1. DOMAIN map \subseteq Name
  BY DEF IsFields, IsField
<1>2. Complete(map) \subseteq Name
  BY <1>1, AncestorsAre DEF Complete
<1>3. ASSUME NEW n \in Complete(map), NEW a \in Ancestors(n)
      PROVE  a \in Complete(map)
  <2>1. CASE n \in DOMAIN map
    BY <2>1 DEF Complete
  <2>2. CASE n \notin DOMAIN map
    <3>1. PICK k \in DOMAIN map : n \in Ancestors(k)
      BY <2>2 DEF Complete
    <3>2. a \in Ancestors(k)
      BY <1>1, <3>1, AncestorsOfAncestors
    <3> QED BY <3>2 DEF Complete
  <2> QED BY <2>1, <2>2
<1> QED BY <1>1, <1>2, <1>3

\* At the end of finalize the parsed fields are consistent and completed.
LEMMA FinalizeEnds ==
    ASSUME NEW w, IsFinalize(w), IsFields(w.map), MadeOK(w), CheckedOK(w), w.todo = {}
    PROVE  /\ Consistent(w.parsed)
           /\ w.map = Reference(w.parsed)
<1> DEFINE keys == DOMAIN w.parsed
           names == DOMAIN w.map
<1>1. Done(w) = keys
  BY DEF Done
<1>2. IsFields(w.parsed)
  BY DEF IsFinalize
<1>3. Complete(w.parsed) = names
  <2>1. Complete(w.parsed) \subseteq names
    BY <1>1 DEF Complete, MadeOK, CheckedOK
  <2>2. names \subseteq Complete(w.parsed)
    BY <1>1 DEF Complete, MadeOK
  <2> QED BY <2>1, <2>2
<1>4. keys \subseteq Name /\ names \subseteq Name
  BY <1>2, <1>3, CompleteIs
<1>5. Consistent(w.parsed)
  <2> SUFFICES ASSUME NEW n \in keys, IsAggregate(w.parsed[n].kind)
               PROVE  IF StrictlyBelow(keys, n) = {} THEN w.parsed[n].kind.children \subseteq {n}
                      ELSE /\ w.parsed[n].kind.children = Children(Complete(w.parsed), n)
                           /\ w.parsed[n].kind.children \subseteq keys
    BY DEF Consistent
  <2>1. \A c \in w.parsed[n].kind.children : IsPrefix(n, c) /\ c \in keys
    BY <1>1 DEF CheckedOK
  <2>2. CASE StrictlyBelow(keys, n) = {}
    BY <2>1, <2>2 DEF StrictlyBelow, IsStrictPrefix
  <2>3. CASE StrictlyBelow(keys, n) # {}
    <3>1. PICK o \in keys : n \in Ancestors(o)
      BY <1>4, <2>3, BelowAre
    <3>2. w.parsed[n].kind.children = Children(names, n)
      BY <1>1, <3>1 DEF CheckedOK
    <3> QED BY <1>3, <2>1, <2>3, <3>2
  <2> QED BY <2>2, <2>3
<1>6. w.map = Reference(w.parsed)
  <2>1. w.map = [n \in names |-> w.map[n]]
    BY DEF IsFields
  <2>2. ASSUME NEW n \in names
        PROVE  w.map[n] = IF n \in keys THEN w.parsed[n]
                          ELSE [name |-> n, kind |-> Object(Children(names, n))]
    BY DEF MadeOK
  <2> HIDE DEF names, keys
  <2>3. w.map = [n \in names |-> IF n \in keys THEN w.parsed[n]
                                 ELSE [name |-> n, kind |-> Object(Children(names, n))]]
    BY <2>1, <2>2
  <2> QED BY <1>3, <1>5, <2>3 DEF Reference, keys
<1> QED BY <1>5, <1>6

\* What finalize makes of consistent and valid fields can be published.
LEMMA ReferenceIsPublished ==
    ASSUME NEW map, IsFields(map), Consistent(map), Valid(map)
    PROVE  Published(Reference(map))
<1> DEFINE keys == DOMAIN map
           names == Complete(map)
           result == Reference(map)
<1>1. result = [n \in names |->
                  IF n \in keys THEN map[n]
                  ELSE [name |-> n, kind |-> Object(Children(names, n))]]
  BY DEF Reference
<1>2. DOMAIN result = names
  BY <1>1
<1>3. \A n \in names \cap keys : result[n] = map[n]
  BY <1>1
<1>4. ASSUME NEW n \in names \ keys
      PROVE  /\ result[n].kind.type = "Object"
             /\ result[n].kind.children = Children(names, n)
  BY <1>1 DEF Object
<1>5. /\ keys \subseteq names /\ names \subseteq Name
      /\ \A n \in names : Ancestors(n) \subseteq names
      /\ \A n \in names \ keys : \E k \in keys : n \in Ancestors(k)
  BY CompleteIs DEF Complete
<1> HIDE DEF result, names
<1>6. Complete(result) = names
  BY <1>2, <1>5 DEF Complete
<1>7. Consistent(result)
  <2> SUFFICES ASSUME NEW n \in names, IsAggregate(result[n].kind)
               PROVE  IF StrictlyBelow(names, n) = {} THEN result[n].kind.children \subseteq {n}
                      ELSE /\ result[n].kind.children = Children(names, n)
                           /\ result[n].kind.children \subseteq names
    BY <1>2, <1>6 DEF Consistent
  <2>1. CASE n \in keys
    <3>1. result[n] = map[n]
      BY <1>3, <2>1
    <3>2. IF StrictlyBelow(keys, n) = {} THEN map[n].kind.children \subseteq {n}
          ELSE /\ map[n].kind.children = Children(names, n)
               /\ map[n].kind.children \subseteq keys
      BY <2>1, <3>1 DEF Consistent, names
    <3>3. StrictlyBelow(keys, n) = {} => StrictlyBelow(names, n) = {}
      <4>1. ASSUME NEW o \in names, n \in Ancestors(o)
            PROVE  \E k \in keys : n \in Ancestors(k)
        <5>1. CASE o \in keys
          BY <4>1, <5>1
        <5>2. CASE o \notin keys
          <6>1. PICK k \in keys : o \in Ancestors(k)
            BY <1>5, <5>2
          <6> QED BY <1>5, <4>1, <6>1, AncestorsOfAncestors
        <5> QED BY <5>1, <5>2
      <4> QED BY SMTT(30), <1>5, <4>1, BelowAre
    <3>4. StrictlyBelow(keys, n) \subseteq StrictlyBelow(names, n)
      BY <1>5 DEF StrictlyBelow
    <3> QED BY <1>5, <3>1, <3>2, <3>3, <3>4
  <2>2. CASE n \notin keys
    <3>1. PICK k \in keys : n \in Ancestors(k)
      BY <1>5, <2>2
    <3>2. StrictlyBelow(names, n) # {}
      BY <1>5, <3>1, BelowAre
    <3>3. Children(names, n) \subseteq names
      BY DEF Children
    <3> QED BY <1>4, <2>2, <3>2, <3>3
  <2> QED BY <2>1, <2>2
<1>8. Valid(result)
  <2> SUFFICES ASSUME NEW n \in names
               PROVE  ValidName(n) /\ ValidKind(result[n].kind)
    BY <1>2 DEF Valid
  <2>1. CASE n \in keys
    BY <1>3, <2>1 DEF Valid
  <2>2. CASE n \notin keys
    <3>1. PICK k \in keys : n \in Ancestors(k)
      BY <1>5, <2>2
    <3>2. ValidName(n)
      BY <1>5, <3>1, AncestorsValid DEF Valid
    <3>3. ValidKind(result[n].kind)
      BY <1>4, <2>2 DEF ValidKind
    <3> QED BY <3>2, <3>3
  <2> QED BY <2>1, <2>2
<1> QED BY <1>2, <1>6, <1>7, <1>8 DEF Published, result

\* A field that finalize rejects is an inconsistency of what was parsed.
LEMMA RejectsIsRight ==
    ASSUME NEW w, IsFinalize(w), IsFields(w.map), MadeOK(w), NEW n \in w.todo,
           Rejects(w.map, DOMAIN w.parsed, w.generated, n)
    PROVE  ~Consistent(w.parsed)
<1> DEFINE keys == DOMAIN w.parsed
           names == Complete(w.parsed)
           made == Made(w.map, w.generated, n)
           grown == DOMAIN w.map \cup made
<1> SUFFICES ASSUME Consistent(w.parsed)
             PROVE  FALSE
  OBVIOUS
<1>1. IsFields(w.parsed) /\ n \in keys
  BY DEF IsFinalize, MadeOK
<1>2. keys \subseteq Name /\ names \subseteq Name /\ keys \subseteq names
  BY <1>1, CompleteIs DEF Complete
<1>3. DOMAIN w.map = keys \cup w.generated /\ \A k \in keys : w.map[k] = w.parsed[k]
  BY DEF MadeOK
<1>4. keys \subseteq grown /\ grown \subseteq names
  <2>1. \A g \in w.generated : \E k \in keys : g \in Ancestors(k)
    BY DEF MadeOK, Done
  <2>2. made \subseteq Ancestors(n)
    BY DEF Made
  <2> HIDE DEF made
  <2> QED BY <1>1, <1>3, <2>1, <2>2 DEF Complete
<1>5. \A k \in keys : IsAggregate(w.parsed[k].kind) =>
         IF StrictlyBelow(keys, k) = {} THEN w.parsed[k].kind.children \subseteq {k}
         ELSE /\ w.parsed[k].kind.children = Children(names, k)
              /\ w.parsed[k].kind.children \subseteq keys
  BY DEF Consistent
<1> HIDE DEF names
<1>6. CASE /\ IsAggregate(w.map[n].kind)
           /\ \E c \in w.map[n].kind.children : ~IsPrefix(n, c) \/ c \notin keys
  <2>1. PICK c \in w.parsed[n].kind.children : ~IsPrefix(n, c) \/ c \notin keys
    BY <1>1, <1>3, <1>6
  <2>2. IsAggregate(w.parsed[n].kind)
    BY <1>1, <1>3, <1>6
  <2>3. CASE StrictlyBelow(keys, n) = {}
    <3>1. c = n
      BY <1>1, <1>5, <2>1, <2>2, <2>3
    <3>2. IsPrefix(n, n)
      BY <1>1, <1>2 DEF IsPrefix, Name
    <3> QED BY <1>1, <2>1, <3>1, <3>2
  <2>4. CASE StrictlyBelow(keys, n) # {}
    <3>1. c \in keys /\ c \in Children(names, n)
      BY <1>1, <1>5, <2>1, <2>2, <2>4
    <3>2. IsPrefix(n, c)
      BY <1>2, <3>1, ChildrenAre
    <3> QED BY <2>1, <3>1, <3>2
  <2> QED BY <2>3, <2>4
<1>7. CASE \E a \in Ancestors(n) \ made :
              IsAggregate(w.map[a].kind) /\ w.map[a].kind.children # Children(grown, a)
  <2>1. PICK a \in Ancestors(n) \ made :
              IsAggregate(w.map[a].kind) /\ w.map[a].kind.children # Children(grown, a)
    BY <1>7
  <2>2. a \in keys
    BY <1>3, <2>1 DEF Made
  <2>3. w.map[a] = w.parsed[a]
    BY <1>3, <2>2
  <2>4. StrictlyBelow(keys, a) # {}
    BY <1>1, <1>2, <2>1, <2>2, BelowAre
  <2>5. /\ w.parsed[a].kind.children = Children(names, a)
        /\ w.parsed[a].kind.children \subseteq keys
    BY <1>5, <2>1, <2>2, <2>3, <2>4
  <2>6. Children(names, a) = Children(grown, a)
    BY <1>4, <2>5 DEF Children
  <2> QED BY <2>1, <2>3, <2>5, <2>6
<1> QED BY <1>6, <1>7 DEF Rejects

----------------------------------------------------------------------------
(* Fields that are taken over. *)

\* Models keep the fields that they have, unless they are counted as changed.
Kept(fs, gone, fs2, gone2) ==
    /\ gone \subseteq gone2
    /\ \A r \in Models \ gone2 : fs[r] # None => fs2[r] = fs[r]

\* Then what has been taken over agrees as before ...
LEMMA AgreesStays ==
    ASSUME NEW map, NEW s, NEW k, NEW fs, NEW gone, NEW fs2, NEW gone2,
           Kept(fs, gone, fs2, gone2), Agrees(map, s, k, fs, gone)
    PROVE  Agrees(map, s, k, fs2, gone2)
BY DEF Kept, Agrees

\* ... and also when the map grows.
LEMMA AgreesGrows ==
    ASSUME NEW map, NEW more, NEW s, NEW k, NEW fs, NEW gone,
           Agrees(map, s, k, fs, gone),
           DOMAIN map \subseteq DOMAIN more, \A n \in DOMAIN map : more[n] = map[n]
    PROVE  Agrees(more, s, k, fs, gone)
BY DEF Agrees

\* A validation and the fields of a Ready model agree after a step that keeps the
\* fields of others.
LEMMA AllStay ==
    ASSUME NEW fs, NEW gone, NEW fs2, NEW gone2,
           Kept(fs, gone, fs2, gone2)
    PROVE  /\ \A w : WorkAgrees(w, fs, gone) => WorkAgrees(w, fs2, gone2)
           /\ \A map, s : AgreesAll(map, s, fs, gone) => AgreesAll(map, s, fs2, gone2)
BY AgreesStays DEF WorkAgrees, AgreesAll

----------------------------------------------------------------------------
(* The invariant. *)

\* It holds in the beginning.
LEMMA InvInit == Init => Inv
<1> SUFFICES ASSUME Init PROVE Inv
  OBVIOUS
<1>1. ASSUME NEW m \in Models
      PROVE  ModelOK(m)
  <2> PICK c : c = Copy(m)
    OBVIOUS
  <2>1. /\ c = [spec |-> c.spec, state |-> c.state, fields |-> c.fields, deleted |-> c.deleted]
        /\ c.spec = None /\ c.state = "Pending" /\ c.fields = None /\ ~c.deleted
    BY DEF Init, Copy
  <2>2. CopyOK(c)
    BY <2>1 DEF CopyOK
  <2>3. cache[m] = c /\ work[m] = None
    BY DEF Init
  <2> QED BY <2>1, <2>2, <2>3 DEF ModelOK
<1>2. TypeOK
  BY <1>1, SpecsAssumption DEF Init, TypeOK
<1>3. \A m \in Models : FieldsOK(m)
  BY DEF Init, FieldsOK
<1> QED BY <1>2, <1>3 DEF Inv

\* A step about one model: the others, their status and validation, stay.
About(m) ==
    /\ DOMAIN spec' = Models /\ DOMAIN state' = Models /\ DOMAIN fields' = Models
    /\ DOMAIN cache' = Models /\ DOMAIN work' = Models /\ DOMAIN validated' = Models
    /\ edits' \in [Models -> Nat] /\ \A d \in Models : edits'[d] <= MaxEdits[d]
    /\ deleted' \subseteq Models /\ changed' \subseteq Models /\ behind' \subseteq Models
    /\ \A d \in Models \ {m} :
          /\ spec'[d] = spec[d] /\ state'[d] = state[d] /\ fields'[d] = fields[d]
          /\ cache'[d] = cache[d] /\ work'[d] = work[d] /\ validated'[d] = validated[d]
          /\ (d \in deleted') = (d \in deleted) /\ (d \in behind') = (d \in behind)

\* Such a step keeps the invariant, if it keeps it for its model and keeps the
\* fields that others may have taken over.
LEMMA AboutOne ==
    ASSUME Inv, NEW m \in Models, About(m),
           Kept(fields, changed, fields', changed'),
           ModelOK(m)', FieldsOK(m)'
    PROVE  Inv'
<1>1. ASSUME NEW d \in Models \ {m}
      PROVE  ModelOK(d)'
  <2>1. ModelOK(d)
    BY DEF Inv, TypeOK
  <2>2. Copy(d)' = Copy(d)
    BY DEF About, Copy
  <2>3. /\ spec'[d] = spec[d] /\ cache'[d] = cache[d] /\ work'[d] = work[d]
    BY DEF About
  <2> QED BY <2>1, <2>2, <2>3 DEF ModelOK
<1>2. ASSUME NEW d \in Models \ {m}
      PROVE  FieldsOK(d)'
  <2>1. FieldsOK(d)
    BY DEF Inv
  <2>2. \A w : WorkAgrees(w, fields, changed) => WorkAgrees(w, fields', changed')
    BY AllStay
  <2>3. \A map, s : AgreesAll(map, s, fields, changed)
                      => AgreesAll(map, s, fields', changed')
    BY AllStay
  <2>4. /\ state'[d] = state[d] /\ fields'[d] = fields[d]
        /\ work'[d] = work[d] /\ validated'[d] = validated[d]
        /\ d \in behind => d \in behind'
    BY DEF About
  <2> QED BY <2>1, <2>2, <2>3, <2>4 DEF FieldsOK
<1>3. TypeOK'
  BY <1>1 DEF TypeOK, About
<1> QED BY <1>2, <1>3 DEF Inv

\* Steps that leave the fields alone keep them all.
LEMMA SameFields == fields' = fields /\ changed' = changed
                      => Kept(fields, changed, fields', changed')
BY DEF Kept

\* The rest of the invariant of a model whose status and validation stay.
LEMMA SameStatus ==
    ASSUME Inv, NEW m \in Models, UNCHANGED <<state, fields, work, history>>
    PROVE  FieldsOK(m)'
<1>1. FieldsOK(m)
  BY DEF Inv
<1> QED BY <1>1 DEF FieldsOK, history

\* A patch of the status of a model keeps the fields of the others, and its own
\* unless the model counts as changed.
LEMMA UpdateIs ==
    ASSUME Inv, NEW m \in Models, NEW map, NEW st, UpdateFields(m, map, st)
    PROVE  /\ Kept(fields, changed, fields', changed')
           /\ DOMAIN state' = Models /\ DOMAIN fields' = Models /\ changed' \subseteq Models
           /\ state'[m] = st /\ fields'[m] = map
           /\ \A d \in Models \ {m} : state'[d] = state[d] /\ fields'[d] = fields[d]
<1>1. /\ DOMAIN state = Models /\ DOMAIN fields = Models /\ changed \subseteq Models
  BY DEF Inv, TypeOK
<1>2. /\ DOMAIN state' = Models /\ DOMAIN fields' = Models /\ changed' \subseteq Models
      /\ state'[m] = st /\ fields'[m] = map
      /\ \A d \in Models \ {m} : state'[d] = state[d] /\ fields'[d] = fields[d]
  BY <1>1 DEF UpdateFields
<1>3. changed \subseteq changed' /\ (m \notin changed' => fields[m] = None \/ fields[m] = map)
  BY <1>1 DEF UpdateFields
<1>4. Kept(fields, changed, fields', changed')
  BY <1>2, <1>3 DEF Kept
<1> QED BY <1>2, <1>4

\* Creating a model or editing its spec keeps the invariant: a validation goes on
\* with the spec it began with.
LEMMA EditStep ==
    ASSUME Inv, NEW m \in Models, NEW s \in Specs[m], Edit(m, s)
    PROVE  Inv'
<1>1. About(m)
  <2>1. /\ edits \in [Models -> Nat] /\ \A d \in Models : edits[d] <= MaxEdits[d]
        /\ MaxEdits \in [Models -> Nat] /\ edits[m] < MaxEdits[m]
        /\ edits' = [edits EXCEPT ![m] = @ + 1]
    BY SpecsAssumption DEF Inv, TypeOK, Edit
  <2>2. edits' \in [Models -> Nat] /\ \A d \in Models : edits'[d] <= MaxEdits[d]
    BY <2>1
  <2> QED BY <2>2 DEF Inv, TypeOK, Edit, About, history
<1>2. Kept(fields, changed, fields', changed')
  BY SameFields DEF Edit, history
<1>3. spec'[m] = s /\ s # None /\ IsSpec(s)
  BY SpecsAssumption DEF Inv, TypeOK, Edit
<1>4. ModelOK(m)'
  <2>1. ModelOK(m)
    BY DEF Inv, TypeOK
  <2>2. CopyOK(Copy(m)')
    BY <1>3, <2>1 DEF ModelOK, Edit, CopyOK, Copy
  <2>3. cache' = cache /\ work' = work
    BY DEF Edit
  <2> QED BY <1>3, <2>1, <2>2, <2>3 DEF ModelOK
<1>5. FieldsOK(m)'
  BY SameStatus DEF Edit
<1> QED BY <1>1, <1>2, <1>4, <1>5, AboutOne

\* A deletion only marks the model.
LEMMA DeleteStep ==
    ASSUME Inv, NEW m \in Models, Delete(m)
    PROVE  Inv'
<1>1. About(m)
  <2>1. /\ edits \in [Models -> Nat] /\ \A d \in Models : edits[d] <= MaxEdits[d]
        /\ MaxEdits \in [Models -> Nat] /\ edits[m] < MaxEdits[m]
        /\ edits' = [edits EXCEPT ![m] = @ + 1]
    BY SpecsAssumption DEF Inv, TypeOK, Delete
  <2>2. edits' \in [Models -> Nat] /\ \A d \in Models : edits'[d] <= MaxEdits[d]
    BY <2>1
  <2> QED BY <2>2 DEF Inv, TypeOK, Delete, About, history
<1>2. Kept(fields, changed, fields', changed')
  BY SameFields DEF Delete, history
<1>3. ModelOK(m)'
  <2>1. ModelOK(m)
    BY DEF Inv, TypeOK
  <2>2. CopyOK(Copy(m)')
    BY <2>1 DEF ModelOK, Delete, CopyOK, Copy
  <2>3. cache' = cache /\ work' = work /\ spec' = spec
    BY DEF Delete
  <2> QED BY <2>1, <2>2, <2>3 DEF ModelOK
<1>4. FieldsOK(m)'
  BY SameStatus DEF Delete
<1> QED BY <1>1, <1>2, <1>3, <1>4, AboutOne

\* A copy that follows its model is like it.
LEMMA WatchStep ==
    ASSUME Inv, NEW m \in Models, Watch(m)
    PROVE  Inv'
<1>1. About(m)
  BY DEF Inv, TypeOK, Watch, About, history
<1>2. Kept(fields, changed, fields', changed')
  BY SameFields DEF Watch, history
<1>3. ModelOK(m)'
  <2>1. ModelOK(m)
    BY DEF Inv, TypeOK
  <2>2. Copy(m)' = Copy(m)
    BY DEF Watch, Copy
  <2>3. cache'[m] = Copy(m) /\ spec' = spec /\ work' = work
    BY DEF Watch, Inv, TypeOK
  <2>4. Copy(m).spec = spec[m]
    BY DEF Copy
  <2> QED BY <2>1, <2>2, <2>3, <2>4 DEF ModelOK
<1>4. FieldsOK(m)'
  BY SameStatus DEF Watch
<1> QED BY <1>1, <1>2, <1>3, <1>4, AboutOne

\* Of a copy that is marked for deletion the model is there.  When its fields are
\* not those of the copy, nothing is said any longer of those who took them over.
LEMMA MarkDeletingStep ==
    ASSUME Inv, NEW m \in Models, MarkDeleting(m)
    PROVE  Inv'
<1>1. ModelOK(m)
  BY DEF Inv, TypeOK
<1>2. /\ Kept(fields, changed, fields', changed')
      /\ DOMAIN state' = Models /\ DOMAIN fields' = Models /\ changed' \subseteq Models
      /\ state'[m] = "Deleting" /\ fields'[m] = cache[m].fields
      /\ \A d \in Models \ {m} : state'[d] = state[d] /\ fields'[d] = fields[d]
  BY UpdateIs DEF MarkDeleting
<1>3. work[m] = None
  BY DEF MarkDeleting
<1>4. UNCHANGED <<spec, deleted, cache, work, edits, validated, behind>>
  BY DEF MarkDeleting
<1>5. About(m)
  BY <1>2, <1>4 DEF Inv, TypeOK, About
<1>6. CopyOK(cache[m]) /\ spec[m] # None
  BY <1>1 DEF MarkDeleting, ModelOK, CopyOK
<1>7. ModelOK(m)'
  <2>1. CopyOK(Copy(m)')
    BY <1>1, <1>2, <1>4, <1>6 DEF ModelOK, CopyOK, Copy
  <2> QED BY <1>1, <1>3, <1>4, <2>1 DEF ModelOK
<1>8. FieldsOK(m)'
  BY <1>2, <1>3, <1>4 DEF FieldsOK
<1> QED BY <1>2, <1>5, <1>7, <1>8, AboutOne

\* A model that is let go loses its fields, and nothing is said any longer of those
\* who have taken them over.
LEMMA ReleaseStep ==
    ASSUME Inv, NEW m \in Models, Release(m)
    PROVE  Inv'
<1>1. ModelOK(m)
  BY DEF Inv, TypeOK
<1>2. /\ Kept(fields, changed, fields', changed')
      /\ DOMAIN state' = Models /\ DOMAIN fields' = Models /\ changed' \subseteq Models
      /\ state'[m] = "Pending" /\ fields'[m] = None
      /\ \A d \in Models \ {m} : state'[d] = state[d] /\ fields'[d] = fields[d]
  BY UpdateIs DEF Release
<1>3. /\ work[m] = None /\ cache[m].state = "Deleting"
      /\ UNCHANGED <<cache, work, edits, behind>>
  BY DEF Release
<1>4. /\ DOMAIN spec' = Models /\ DOMAIN validated' = Models
      /\ deleted' \subseteq Models /\ m \notin deleted' /\ spec'[m] = None
      /\ \A d \in Models \ {m} : /\ spec'[d] = spec[d] /\ validated'[d] = validated[d]
                                 /\ (d \in deleted') = (d \in deleted)
  BY DEF Release, Inv, TypeOK
<1>5. About(m)
  BY <1>2, <1>3, <1>4 DEF Inv, TypeOK, About
<1>6. ModelOK(m)'
  <2>1. CopyOK(Copy(m)')
    BY <1>2, <1>4 DEF CopyOK, Copy
  <2> QED BY <1>1, <1>3, <2>1 DEF ModelOK
<1>7. FieldsOK(m)'
  BY <1>2, <1>3 DEF FieldsOK
<1> QED BY <1>2, <1>5, <1>6, <1>7, AboutOne

----------------------------------------------------------------------------
(* The steps of a validation. *)

\* A validation goes on, or ends without a result.
LEMMA GoOnStep ==
    ASSUME Inv, NEW m \in Models, work[m] # None,
           NEW w, GoOn(m, w),
           w # None => /\ IsSpec(w.spec) /\ IsFields(w.map)
                       /\ WorkOK(w) /\ WorkAgrees(w, fields, changed)
    PROVE  Inv'
<1>1. /\ work'[m] = w
      /\ UNCHANGED <<spec, state, fields, deleted, cache, edits, validated, changed, behind>>
  BY DEF Inv, TypeOK, GoOn, history
<1>2. About(m)
  BY <1>1 DEF Inv, TypeOK, GoOn, About
<1>3. Kept(fields, changed, fields', changed')
  BY <1>1, SameFields
<1>4. ModelOK(m)'
  <2>1. ModelOK(m)
    BY DEF Inv, TypeOK
  <2>2. Copy(m)' = Copy(m)
    BY <1>1 DEF Copy
  <2> QED BY <1>1, <2>1, <2>2 DEF ModelOK
<1>5. FieldsOK(m)'
  <2>1. FieldsOK(m)
    BY DEF Inv
  <2> QED BY <1>1, <2>1 DEF FieldsOK
<1> QED BY <1>2, <1>3, <1>4, <1>5, AboutOne

\* It begins without fields, and from an old copy if the model has some.
LEMMA StartStep ==
    ASSUME Inv, NEW m \in Models, Start(m)
    PROVE  Inv'
<1> PICK w : w = [spec |-> cache[m].spec, step |-> "parse", map |-> Empty, next |-> 1]
  OBVIOUS
<1>1. ModelOK(m)
  BY DEF Inv, TypeOK
<1>2. /\ work'[m] = w
      /\ UNCHANGED <<spec, state, fields, deleted, cache, edits, validated, changed>>
  BY DEF Start, Inv, TypeOK
<1>3. /\ behind' \subseteq Models
      /\ cache[m].fields # fields[m] => m \in behind'
      /\ \A d \in Models \ {m} : (d \in behind') = (d \in behind)
  BY DEF Start, Inv, TypeOK
<1>4. About(m)
  BY <1>2, <1>3 DEF Inv, TypeOK, Start, About
<1>5. Kept(fields, changed, fields', changed')
  BY <1>2, SameFields
<1>6. w.spec = cache[m].spec /\ w.step = "parse" /\ w.map = Empty /\ w.next = 1
  OBVIOUS
<1>7. CopyOK(cache[m]) /\ cache[m].spec # None /\ cache[m].state = "Pending" /\ spec[m] # None
  BY <1>1 DEF ModelOK, Start
<1>8. IsSpec(w.spec) /\ cache[m].fields = None
  BY <1>6, <1>7 DEF CopyOK
<1>9. WorkOK(w)
  <2>1. IsParse(w)
    BY <1>6, <1>8 DEF IsParse, IsSpec
  <2> QED BY <1>6, <2>1, EmptyIsFields DEF WorkOK, ParseOK
<1>10. WorkAgrees(w, fields, changed)
  BY <1>6 DEF WorkAgrees, Agrees
<1>11. ModelOK(m)'
  <2>1. Copy(m)' = Copy(m)
    BY <1>2 DEF Copy
  <2> QED BY <1>1, <1>2, <1>6, <1>7, <1>8, <2>1, EmptyIsFields DEF ModelOK
<1>12. FieldsOK(m)'
  <2>1. FieldsOK(m)
    BY DEF Inv
  <2>2. fields[m] # None => m \in behind'
    BY <1>3, <1>8
  <2> QED BY <1>2, <1>9, <1>10, <2>1, <2>2 DEF FieldsOK
<1> QED BY <1>4, <1>5, <1>11, <1>12, AboutOne

\* A map with one more field of the spec, that of a model with all of its fields.
ParsedOK(map, f, result) ==
    /\ IsFields(result)
    /\ Valid(map) => Valid(result)
    /\ DOMAIN map \subseteq DOMAIN result
    /\ \A n \in DOMAIN map : result[n] = map[n]
    /\ f.kind.type = "Model" =>
          /\ fields[f.kind.name] # None
          /\ \A n \in DOMAIN fields[f.kind.name] :
                /\ f.name \o n \in DOMAIN result
                /\ result[f.name \o n] = Shift(f.name, fields[f.kind.name][n])

\* The parser makes such a map or fails.
LEMMA ParsedIs ==
    ASSUME TypeOK, NEW map, IsFields(map), NEW f, IsField(f), Parsed(map, f) # Err
    PROVE  ParsedOK(map, f, Parsed(map, f))
<1>1. CASE f.kind.type # "Model"
  <2>1. Parsed(map, f) = ParseField(map, f)
    BY <1>1 DEF Parsed
  <2>2. ParseField(map, f) # Err
    BY <2>1
  <2> QED BY <1>1, <2>1, <2>2, ParseFieldIs DEF ParsedOK
<1>2. CASE f.kind.type = "Model"
  <2> DEFINE r == f.kind.name
             given == fields[r]
             result == MergeFields(map, f.name, given)
  <2>1. r \in Models /\ f.name \in Name
    BY <1>2 DEF IsField
  <2>2. Loaded(r) = given /\ given # None
    BY <1>2 DEF Parsed, Loaded
  <2>3. IsFields(given)
    <3>1. CopyOK(Copy(r))
      BY <2>1 DEF TypeOK, ModelOK
    <3> QED BY <2>2, <3>1 DEF CopyOK, Copy
  <2>4. Parsed(map, f) = result
    BY <1>2, <2>2 DEF Parsed
  <2> HIDE DEF given
  <2>5. Accepts(map, Moved(f.name, given))
    BY <2>4 DEF MergeFields
  <2>6. Merged(map, f.name, given, result)
    BY <2>1, <2>3, <2>5, MergeFieldsIs
  <2> HIDE DEF result
  <2> QED BY <1>2, <2>2, <2>4, <2>6 DEF ParsedOK, Merged, given
<1> QED BY <1>1, <1>2

\* The validation after one more field of the spec.
LEMMA ParsingAfter ==
    ASSUME NEW w, IsParse(w), NEW map
    PROVE  [w EXCEPT !.map = map, !.next = @ + 1]
             = [spec |-> w.spec, step |-> "parse", map |-> map, next |-> w.next + 1]
<1> DEFINE v == [w EXCEPT !.map = map, !.next = @ + 1]
<1>1. w = [spec |-> w.spec, step |-> "parse", map |-> w.map, next |-> w.next]
  BY DEF IsParse
<1>2. v = [x \in DOMAIN v |-> v[x]]
  OBVIOUS
<1>3. DOMAIN v = {"spec", "step", "map", "next"}
  BY <1>1
<1>4. v.spec = w.spec /\ v.step = "parse" /\ v.map = map
  BY <1>1
<1>5. v.next = w.next + 1
  BY <1>1
<1> HIDE DEF v
<1>6. v = [spec |-> w.spec, step |-> "parse", map |-> map, next |-> w.next + 1]
  BY <1>2, <1>3, <1>4, <1>5
<1> QED BY <1>6 DEF v

\* The next field of the spec.
LEMMA ParseNextStep ==
    ASSUME Inv, NEW m \in Models, ParseNext(m)
    PROVE  Inv'
<1> PICK w : w = work[m]
  OBVIOUS
<1>1. /\ w # None /\ w.step = "parse" /\ w.spec.type = "Fields"
      /\ w.next <= Len(w.spec.fields)
  BY DEF ParseNext, Working
<1>2. /\ work[m] # None
      /\ IsSpec(w.spec) /\ IsFields(w.map)
      /\ IsParse(w) /\ Valid(w.map)
      /\ Agrees(w.map, w.spec, w.next - 1, fields, changed)
  BY <1>1 DEF Inv, TypeOK, ModelOK, FieldsOK, WorkOK, WorkAgrees, ParseOK
<1> PICK f : f = w.spec.fields[w.next]
  OBVIOUS
<1>3. w.next \in Nat \ {0} /\ w.spec.fields \in Seq(Range(w.spec.fields)) /\ IsField(f)
  BY <1>1, <1>2 DEF IsParse, IsSpec
<1> PICK map : map = Parsed(w.map, f)
  OBVIOUS
<1>4. CASE map = Err
  <2>1. GoOn(m, None)
    BY <1>4 DEF ParseNext
  <2> QED BY <1>2, <2>1, GoOnStep
<1>5. CASE map # Err
  <2> PICK v : v = [spec |-> w.spec, step |-> "parse", map |-> map, next |-> w.next + 1]
    OBVIOUS
  <2>1. GoOn(m, v)
    <3>1. v = [w EXCEPT !.map = map, !.next = @ + 1]
      BY <1>2, ParsingAfter
    <3> QED BY <1>5, <3>1 DEF ParseNext
  <2>2. v.spec = w.spec /\ v.step = "parse" /\ v.map = map /\ v.next = w.next + 1
    OBVIOUS
  <2>3. ParsedOK(w.map, f, map)
    BY <1>2, <1>3, <1>5, ParsedIs DEF Inv
  <2>4. IsFields(map) /\ Valid(map)
    BY <1>2, <2>3 DEF ParsedOK
  <2>5. WorkOK(v)
    <3>1. v.next \in Nat \ {0} /\ v.next <= Len(v.spec.fields) + 1
      BY <1>1, <1>3, <2>2
    <3>2. IsParse(v)
      BY <2>2, <3>1 DEF IsParse
    <3> QED BY <2>2, <2>4, <3>2 DEF WorkOK, ParseOK
  <2>6. Agrees(map, w.spec, w.next, fields, changed)
    <3>1. Agrees(map, w.spec, w.next - 1, fields, changed)
      <4> DEFINE k == w.next - 1
      <4>1. DOMAIN w.map \subseteq DOMAIN map /\ \A n \in DOMAIN w.map : map[n] = w.map[n]
        BY <2>3 DEF ParsedOK
      <4>2. Agrees(w.map, w.spec, k, fields, changed)
        BY <1>2
      <4> HIDE DEF k
      <4>3. Agrees(map, w.spec, k, fields, changed)
        BY <4>1, <4>2, AgreesGrows
      <4> QED BY <4>3 DEF k
    <3> SUFFICES ASSUME NEW i \in 1..w.next, NEW r \in Models \ changed,
                        w.spec.fields[i].kind.type = "Model", w.spec.fields[i].kind.name = r
                 PROVE  /\ fields[r] # None
                        /\ \A n \in DOMAIN fields[r] :
                              /\ w.spec.fields[i].name \o n \in DOMAIN map
                              /\ map[w.spec.fields[i].name \o n]
                                   = Shift(w.spec.fields[i].name, fields[r][n])
      BY DEF Agrees
    <3>2. CASE i = w.next
      BY <2>3, <3>2 DEF ParsedOK
    <3>3. CASE i # w.next
      <4>1. i \in 1..w.next - 1
        BY <1>3, <3>3
      <4> QED BY <3>1, <4>1 DEF Agrees
    <3> QED BY <3>2, <3>3
  <2>7. WorkAgrees(v, fields, changed)
    <3>1. v.next - 1 = w.next
      BY <1>3, <2>2
    <3> QED BY <2>2, <2>6, <3>1 DEF WorkAgrees
  <2> QED BY <1>2, <2>1, <2>2, <2>4, <2>5, <2>7, GoOnStep
<1> QED BY <1>4, <1>5

\* The validation w at the beginning of finalize.
Begun(w, s, map) ==
    /\ w.spec = s /\ w.parsed = map /\ w.map = map /\ w.step = "finalize"
    /\ WorkOK(w)

\* finalize begins with all keys to come.
LEMMA FinalizingIs ==
    ASSUME NEW s, NEW map, IsFields(map), NEW again, again \in BOOLEAN,
           ~again => Valid(map), s.type = "Fields" => ~again
    PROVE  Begun(Finalizing(s, map, again), s, map)
<1> PICK w : w = Finalizing(s, map, again)
  OBVIOUS
<1>1. /\ w.spec = s /\ w.step = "finalize" /\ w.parsed = map /\ w.map = map
      /\ w.generated = {} /\ w.todo = DOMAIN map /\ w.again = again
  BY DEF Finalizing
<1>2. IsFinalize(w)
  <2>1. w = [spec |-> w.spec, step |-> "finalize", parsed |-> w.parsed, map |-> w.map,
             generated |-> w.generated, todo |-> w.todo, again |-> w.again]
    BY DEF Finalizing
  <2> QED BY <1>1, <2>1 DEF IsFinalize
<1>3. Done(w) = {}
  BY <1>1 DEF Done
<1>4. MadeOK(w) /\ CheckedOK(w)
  BY <1>1, <1>3 DEF MadeOK, CheckedOK
<1> QED BY <1>1, <1>2, <1>4 DEF WorkOK, FinalizeOK, Begun

\* The last field of the spec is parsed.
LEMMA FinishParseStep ==
    ASSUME Inv, NEW m \in Models, FinishParse(m)
    PROVE  Inv'
<1> PICK w : w = work[m]
  OBVIOUS
<1>1. /\ w # None /\ w.step = "parse" /\ w.spec.type = "Fields"
      /\ w.next > Len(w.spec.fields)
  BY DEF FinishParse, Working
<1>2. /\ work[m] # None
      /\ IsSpec(w.spec) /\ IsFields(w.map)
      /\ IsParse(w) /\ Valid(w.map)
      /\ Agrees(w.map, w.spec, w.next - 1, fields, changed)
  BY <1>1 DEF Inv, TypeOK, ModelOK, FieldsOK, WorkOK, WorkAgrees, ParseOK
<1> PICK v : v = Finalizing(w.spec, w.map, FALSE)
  OBVIOUS
<1>3. GoOn(m, v)
  BY DEF FinishParse
<1>4. /\ v.spec = w.spec /\ v.parsed = w.map /\ v.map = w.map /\ v.step = "finalize"
      /\ WorkOK(v)
  <2>1. Begun(Finalizing(w.spec, w.map, FALSE), w.spec, w.map)
    BY <1>2, FinalizingIs, Zenon
  <2> QED BY <2>1 DEF Begun
<1>5. w.next - 1 = Len(w.spec.fields)
  <2>1. w.next \in Nat /\ w.next <= Len(w.spec.fields) + 1
    BY <1>1, <1>2 DEF IsParse
  <2>2. Len(w.spec.fields) \in Nat
    BY <1>1, <1>2 DEF IsSpec
  <2> QED BY SMTT(30), <1>1, <2>1, <2>2
<1>6. WorkAgrees(v, fields, changed)
  BY <1>2, <1>4, <1>5 DEF WorkAgrees, AgreesAll
<1> QED BY <1>2, <1>3, <1>4, <1>6, GoOnStep

\* The schema of a CustomResourceDefinition is parsed.
LEMMA ParseDefinitionStep ==
    ASSUME Inv, NEW m \in Models, ParseDefinition(m)
    PROVE  Inv'
<1> PICK w : w = work[m]
  OBVIOUS
<1>1. /\ w # None /\ w.step = "parse" /\ w.spec.type = "CustomResourceDefinitionRef"
  BY DEF ParseDefinition, Working
<1>2. work[m] # None /\ IsSpec(w.spec)
  BY <1>1 DEF Inv, TypeOK, ModelOK
<1> PICK schema : schema = Schemas[w.spec.name]
  OBVIOUS
<1> PICK map : map = IF schema = None THEN Err ELSE ParseSchema(schema)
  OBVIOUS
<1>3. GoOn(m, IF map = Err THEN None ELSE Finalizing(w.spec, map, TRUE))
  BY DEF ParseDefinition
<1>4. CASE map = Err
  <2>1. GoOn(m, None)
    BY <1>3, <1>4
  <2> QED BY <1>2, <2>1, GoOnStep
<1>5. CASE map # Err
  <2>1. schema # None /\ map = ParseSchema(schema)
    BY <1>5
  <2>2. DOMAIN schema \subseteq Seq(DOMAIN SnakeCase)
    BY <1>1, <1>2, <2>1, SpecsAssumption DEF IsSpec
  <2>3. IsFields(map)
    BY <1>5, <2>1, <2>2, ParseSchemaIs
  <2> PICK v : v = Finalizing(w.spec, map, TRUE)
    OBVIOUS
  <2>4. GoOn(m, v)
    BY <1>3, <1>5
  <2>5. /\ v.spec = w.spec /\ v.parsed = map /\ v.map = map /\ v.step = "finalize"
        /\ WorkOK(v)
    <3>1. Begun(Finalizing(w.spec, map, TRUE), w.spec, map)
      <4>1. w.spec.type # "Fields"
        BY <1>1
      <4> QED BY <4>1, <2>3, FinalizingIs, Zenon
    <3> QED BY <3>1 DEF Begun
  <2>6. WorkAgrees(v, fields, changed)
    BY <1>1, <2>5 DEF WorkAgrees, AgreesAll
  <2> QED BY <1>2, <2>3, <2>4, <2>5, <2>6, GoOnStep
<1> QED BY <1>4, <1>5

\* What is known of a validation in finalize.
LEMMA FinalizeKnows ==
    ASSUME Inv, NEW m \in Models, Working(m, "finalize")
    PROVE  /\ work[m] # None /\ work[m].step = "finalize"
           /\ IsSpec(work[m].spec) /\ IsFields(work[m].map)
           /\ FinalizeOK(work[m])
           /\ AgreesAll(work[m].parsed, work[m].spec, fields, changed)
BY DEF Inv, TypeOK, ModelOK, FieldsOK, WorkOK, WorkAgrees, Working

\* The next field of finalize.
LEMMA FinalizeNextStep ==
    ASSUME Inv, NEW m \in Models, FinalizeNext(m)
    PROVE  Inv'
<1> PICK w : w = work[m]
  OBVIOUS
<1>1. /\ work[m] # None /\ w.step = "finalize"
      /\ IsSpec(w.spec) /\ IsFields(w.map) /\ FinalizeOK(w)
      /\ AgreesAll(w.parsed, w.spec, fields, changed)
  BY FinalizeKnows DEF FinalizeNext
<1> PICK n \in w.todo :
       LET map == FinalizeField(w.map, DOMAIN w.parsed, w.generated, n)
       IN  GoOn(m, IF map = Err THEN None ELSE Finalized(w, n, map))
  BY DEF FinalizeNext
<1> PICK map : map = FinalizeField(w.map, DOMAIN w.parsed, w.generated, n)
  OBVIOUS
<1>2. CASE map = Err
  <2>1. GoOn(m, None)
    BY <1>2
  <2> QED BY <1>1, <2>1, GoOnStep
<1>3. CASE map # Err
  <2> PICK v : v = Finalized(w, n, map)
    OBVIOUS
  <2>1. GoOn(m, v)
    BY <1>3
  <2>2. /\ IsFinalize(v) /\ IsFields(v.map) /\ MadeOK(v) /\ CheckedOK(v)
        /\ v.spec = w.spec /\ v.parsed = w.parsed /\ v.again = w.again
        /\ v.step = "finalize" /\ v.map = map
    BY <1>1, <1>3, FinalizeFieldKeeps DEF FinalizeOK
  <2>3. WorkOK(v)
    BY <1>1, <2>2 DEF WorkOK, FinalizeOK
  <2>4. WorkAgrees(v, fields, changed)
    BY <1>1, <2>2 DEF WorkAgrees
  <2> QED BY <1>1, <2>1, <2>2, <2>3, <2>4, GoOnStep
<1> QED BY <1>2, <1>3

\* What finalize made of a schema is parsed like native fields.
LEMMA ParseAgainStep ==
    ASSUME Inv, NEW m \in Models, ParseAgain(m)
    PROVE  Inv'
<1> PICK w : w = work[m]
  OBVIOUS
<1>1. /\ work[m] # None /\ w.step = "finalize"
      /\ IsSpec(w.spec) /\ IsFields(w.map) /\ FinalizeOK(w) /\ w.again
  BY FinalizeKnows DEF ParseAgain
<1> PICK map : map = MergeFields(Empty, <<>>, w.map)
  OBVIOUS
<1>2. GoOn(m, IF map = Err THEN None ELSE Finalizing(w.spec, map, FALSE))
  BY DEF ParseAgain
<1>3. CASE map = Err
  <2>1. GoOn(m, None)
    BY <1>2, <1>3
  <2> QED BY <1>1, <2>1, GoOnStep
<1>4. CASE map # Err
  <2>1. Merged(Empty, <<>>, w.map, map)
    <3>1. Accepts(Empty, Moved(<<>>, w.map))
      BY <1>4 DEF MergeFields
    <3> QED BY <1>1, <3>1, RootName, EmptyIsFields, MergeFieldsIs
  <2>2. IsFields(map) /\ Valid(map)
    BY <2>1, EmptyIsFields DEF Merged
  <2> PICK v : v = Finalizing(w.spec, map, FALSE)
    OBVIOUS
  <2>3. GoOn(m, v)
    BY <1>2, <1>4
  <2>4. w.spec.type # "Fields"
    BY <1>1 DEF FinalizeOK, IsFinalize
  <2>5. /\ v.spec = w.spec /\ v.parsed = map /\ v.map = map /\ v.step = "finalize"
        /\ WorkOK(v)
    <3>1. Begun(Finalizing(w.spec, map, FALSE), w.spec, map)
      BY <2>2, FinalizingIs, Zenon
    <3> QED BY <3>1 DEF Begun
  <2>6. WorkAgrees(v, fields, changed)
    BY <2>4, <2>5 DEF WorkAgrees, AgreesAll
  <2> QED BY <1>1, <2>2, <2>3, <2>5, <2>6, GoOnStep
<1> QED BY <1>3, <1>4

\* The fields of a Dynamic model can be published.
LEMMA DynamicIsPublished ==
    LET map == Extended(Empty, {[name |-> <<>>, kind |-> DynamicObject]})
    IN  IsFields(map) /\ Published(map)
<1> PICK f : f = [name |-> <<>>, kind |-> DynamicObject]
  OBVIOUS
<1> PICK map : map = Extended(Empty, {f})
  OBVIOUS
<1>1. /\ f.name = <<>> /\ f.kind.type = "Object" /\ f.kind.children = {}
      /\ {"type", "children"} \subseteq DOMAIN f.kind
  BY DEF DynamicObject, Object
<1>2. IsField(f)
  BY <1>1, RootName DEF IsField
<1>3. /\ IsFields(map)
      /\ DOMAIN map = {<<>>} /\ map[<<>>] = f
  <2>1. LET r == Extended(Empty, {f})
        IN  /\ IsFields(r)
            /\ DOMAIN r = DOMAIN Empty \cup {g.name : g \in {f}}
            /\ \A g \in {f} : r[g.name] \in {f} /\ r[g.name].name = g.name
            /\ \A n \in DOMAIN Empty \ {g.name : g \in {f}} : r[n] = Empty[n]
    <3>1. \A g \in {f} : IsField(g)
      BY <1>2
    <3>2. IsFields(Empty)
      BY EmptyIsFields
    <3> QED BY <3>1, <3>2, ExtendedIs
  <2>2. {g.name : g \in {f}} = {<<>>}
    BY <1>1
  <2> QED BY <1>1, <2>1, <2>2, EmptyIsFields
<1>4. Ancestors(<<>>) = {}
  <2>1. 0..Len(<<>>) - 1 = {}
    OBVIOUS
  <2> QED BY <2>1 DEF Ancestors
<1>5. Complete(map) = DOMAIN map
  BY ZenonT(60), <1>3, <1>4 DEF Complete
<1>6. StrictlyBelow(DOMAIN map, <<>>) = {}
  BY <1>3 DEF StrictlyBelow, IsStrictPrefix
<1>7. Consistent(map)
  BY <1>1, <1>3, <1>6 DEF Consistent
<1>8. Valid(map)
  BY <1>1, <1>3, RootName DEF Valid, ValidKind
<1>9. Published(map)
  BY <1>5, <1>7, <1>8 DEF Published
<1> QED BY <1>3, <1>9

\* What finalize has made is published.
LEMMA PatchStep ==
    ASSUME Inv, NEW m \in Models, Patch(m)
    PROVE  Inv'
<1> PICK w : w = work[m]
  OBVIOUS
<1> PICK map : map = IF w.spec.type = "Dynamic"
                     THEN Extended(Empty, {[name |-> <<>>, kind |-> DynamicObject]})
                     ELSE w.map
  OBVIOUS
<1>1. w # None /\ spec[m] # None /\ IsSpec(w.spec)
  BY DEF Patch, Inv, TypeOK, ModelOK
<1>2. /\ UpdateFields(m, map, "Ready")
      /\ UNCHANGED <<spec, deleted, cache, edits, behind>>
      /\ validated'[m] = w.spec /\ work'[m] = None
      /\ DOMAIN validated' = Models /\ DOMAIN work' = Models
      /\ \A d \in Models \ {m} : validated'[d] = validated[d] /\ work'[d] = work[d]
  BY DEF Inv, TypeOK, Patch
<1>3. /\ Kept(fields, changed, fields', changed')
      /\ DOMAIN state' = Models /\ DOMAIN fields' = Models /\ changed' \subseteq Models
      /\ state'[m] = "Ready" /\ fields'[m] = map
      /\ \A d \in Models \ {m} : state'[d] = state[d] /\ fields'[d] = fields[d]
  BY <1>2, UpdateIs
<1>4. /\ IsFields(map) /\ Published(map)
      /\ AgreesAll(map, w.spec, fields, changed)
  <2>1. CASE w.spec.type = "Dynamic"
    BY <2>1, DynamicIsPublished DEF AgreesAll
  <2>2. CASE w.spec.type # "Dynamic"
    <3>1. Working(m, "finalize") /\ w.todo = {} /\ ~w.again
      BY <2>2 DEF Patch
    <3>2. /\ IsFields(w.map) /\ FinalizeOK(w)
          /\ AgreesAll(w.parsed, w.spec, fields, changed)
      BY <3>1, FinalizeKnows
    <3>3. Consistent(w.parsed) /\ w.map = Reference(w.parsed)
      BY <3>1, <3>2, FinalizeEnds DEF FinalizeOK
    <3>4. IsFields(w.parsed) /\ Valid(w.parsed)
      BY <3>1, <3>2 DEF FinalizeOK, IsFinalize
    <3>5. Published(w.map)
      BY <3>3, <3>4, ReferenceIsPublished
    <3>6. DOMAIN w.parsed \subseteq DOMAIN w.map /\ \A n \in DOMAIN w.parsed : w.map[n] = w.parsed[n]
      BY <3>2 DEF FinalizeOK, MadeOK
    <3>7. AgreesAll(w.map, w.spec, fields, changed)
      BY <3>2, <3>6, AgreesGrows DEF AgreesAll
    <3> QED BY <2>2, <3>2, <3>5, <3>7
  <2> QED BY <2>1, <2>2
<1>5. AgreesAll(map, w.spec, fields', changed')
  BY <1>3, <1>4, AllStay
<1>6. About(m)
  BY <1>2, <1>3 DEF Inv, TypeOK, About
<1>7. ModelOK(m)'
  <2>1. ModelOK(m)
    BY DEF Inv, TypeOK
  <2>2. CopyOK(Copy(m)')
    BY <1>1, <1>2, <1>3, <1>4, <2>1 DEF ModelOK, CopyOK, Copy
  <2> QED BY <1>1, <1>2, <2>1, <2>2 DEF ModelOK
<1>8. FieldsOK(m)'
  BY <1>1, <1>2, <1>3, <1>4, <1>5 DEF FieldsOK
<1> QED BY <1>3, <1>6, <1>7, <1>8, AboutOne

\* A step that changes nothing keeps the invariant.
LEMMA StutterStep ==
    ASSUME Inv, UNCHANGED vars
    PROVE  Inv'
<1>1. ASSUME NEW m \in Models
      PROVE  ModelOK(m)'
  <2>1. ModelOK(m)
    BY DEF Inv, TypeOK
  <2>2. Copy(m)' = Copy(m)
    BY DEF vars, Copy
  <2> QED BY <2>1, <2>2 DEF vars, ModelOK
<1>2. TypeOK'
  BY <1>1 DEF vars, Inv, TypeOK
<1>3. ASSUME NEW m \in Models
      PROVE  FieldsOK(m)'
  BY SameStatus DEF vars, history
<1> QED BY <1>2, <1>3 DEF Inv

\* Every step keeps the invariant.
LEMMA InvStep == Inv /\ [Next]_vars => Inv'
<1> SUFFICES ASSUME Inv, [Next]_vars PROVE Inv'
  OBVIOUS
<1>1. CASE \E m \in Models : \E s \in Specs[m] : Edit(m, s)
  BY <1>1, EditStep
<1>2. CASE \E m \in Models : Delete(m) \/ Watch(m) \/ Release(m)
  BY <1>2, DeleteStep, WatchStep, ReleaseStep
<1>3. ASSUME NEW m \in Models, Reconcile(m)
      PROVE  Inv'
  BY <1>3, MarkDeletingStep, StartStep, ParseNextStep, FinishParseStep, ParseDefinitionStep,
     FinalizeNextStep, ParseAgainStep, PatchStep DEF Reconcile
<1>4. CASE UNCHANGED vars
  BY <1>4, StutterStep
<1> QED BY <1>1, <1>2, <1>3, <1>4 DEF Next

\* A validation is right as far as it has come, fields that are published are
\* right and agree with those that they took over: whatever the models, specs and
\* schemas.
THEOREM Invariance == Spec => []Inv
<1>1. Init => Inv
  BY InvInit
<1>2. Inv /\ [Next]_vars => Inv'
  BY InvStep
<1> QED BY <1>1, <1>2, PTL DEF Spec

\* TypeOK, for all instances.
THEOREM TypeCorrect == Spec => []TypeOK
<1>1. Inv => TypeOK
  BY DEF Inv
<1> QED BY <1>1, Invariance, PTL

\* finalize's loop over the growing map finds an error only where the fields are
\* inconsistent, and otherwise makes what the definition without an order makes.
THEOREM FinalizeRight == Spec => []FinalizeIsExact
<1>1. ASSUME Inv, NEW m \in Models, Working(m, "finalize"), NEW w, w = work[m]
      PROVE  /\ w.todo = {} => Consistent(w.parsed) /\ w.map = Reference(w.parsed)
             /\ \A n \in w.todo : Rejects(w.map, DOMAIN w.parsed, w.generated, n)
                                    => ~Consistent(w.parsed)
  <2>1. IsFields(w.map) /\ IsFinalize(w) /\ MadeOK(w) /\ CheckedOK(w)
    BY <1>1, FinalizeKnows DEF FinalizeOK
  <2> QED BY <2>1, FinalizeEnds, RejectsIsRight
<1>2. Inv => FinalizeIsExact
  BY <1>1 DEF FinalizeIsExact
<1> QED BY <1>2, Invariance, PTL

\* The fields of a Ready model form a tree.
THEOREM PublishedTree == Spec => []FieldsAreTree
<1>1. ASSUME Inv, NEW m \in Models, state[m] = "Ready", NEW map, map = fields[m],
             NEW n \in DOMAIN map \ {<<>>}
      PROVE  /\ Parent(n) \in DOMAIN map
             /\ IsAggregate(map[Parent(n)].kind) => n \in map[Parent(n)].kind.children
  <2>1. IsFields(map) /\ Complete(map) = DOMAIN map /\ Consistent(map)
    BY <1>1 DEF Inv, TypeOK, ModelOK, CopyOK, Copy, FieldsOK, Published
  <2>2. DOMAIN map \subseteq Name /\ n \in DOMAIN map /\ n \in Name /\ n # <<>>
    BY <2>1, CompleteIs
  <2>3. Parent(n) \in Ancestors(n)
    BY <2>2, ParentIsAncestor
  <2>4. Parent(n) \in DOMAIN map
    BY <2>1, <2>2, <2>3, CompleteIs
  <2>5. StrictlyBelow(DOMAIN map, Parent(n)) # {}
    BY <2>2, <2>3, <2>4, BelowAre
  <2>6. n \in Children(DOMAIN map, Parent(n))
    BY <2>2 DEF Children
  <2> QED BY <2>1, <2>4, <2>5, <2>6 DEF Consistent
<1>2. Inv => FieldsAreTree
  BY <1>1 DEF FieldsAreTree
<1> QED BY <1>2, Invariance, PTL

\* Fields that a model has taken over stay those of the model they came from, as
\* long as these are neither replaced nor removed: whatever users edit, and however
\* old the copies are that the operator works on.
THEOREM EmbeddedAgree == Spec => []EmbeddedFieldsAgree
<1>1. ASSUME Inv, NEW m \in Models, NEW r \in Models \ changed, state[m] = "Ready",
             validated[m].type = "Fields",
             NEW i \in DOMAIN validated[m].fields,
             validated[m].fields[i].kind = [type |-> "Model", name |-> r]
      PROVE  /\ fields[r] # None
             /\ \A n \in DOMAIN fields[r] :
                   fields[m][validated[m].fields[i].name \o n]
                     = Shift(validated[m].fields[i].name, fields[r][n])
  <2>1. /\ IsSpec(validated[m])
        /\ Agrees(fields[m], validated[m], Len(validated[m].fields), fields, changed)
    BY <1>1 DEF Inv, FieldsOK, AgreesAll
  <2>2. i \in 1..Len(validated[m].fields)
    BY <1>1, <2>1 DEF IsSpec
  <2>3. validated[m].fields[i].kind.type = "Model" /\ validated[m].fields[i].kind.name = r
    BY <1>1
  <2> QED BY <1>1, <2>1, <2>2, <2>3 DEF Agrees
<1>2. Inv => EmbeddedFieldsAgree
  BY <1>1 DEF EmbeddedFieldsAgree
<1> QED BY <1>2, Invariance, PTL

\* A model's fields do not change as long as it lives, unless the operator works on
\* a copy that lags behind them.
THEOREM FieldsRemain == Spec => FieldsStay
<1> DEFINE Stay(m) ==
      fields[m] \notin {None, fields'[m]} =>
         \/ spec'[m] = None
         \/ IF work[m] # None THEN m \in behind ELSE cache[m].fields # fields[m]
<1>1. ASSUME Inv, NEW m \in Models, NEW d \in Models, Patch(d)
      PROVE  Stay(m)
  <2>1. d # m => fields'[m] = fields[m]
    BY <1>1 DEF Patch, UpdateFields, Inv, TypeOK
  <2>2. work[d] # None /\ (fields[d] # None => d \in behind)
    BY <1>1 DEF Patch, Inv, FieldsOK
  <2> QED BY <2>1, <2>2
<1>2. ASSUME Inv, NEW m \in Models, NEW d \in Models, MarkDeleting(d)
      PROVE  Stay(m)
  <2>1. /\ d # m => fields'[m] = fields[m]
        /\ fields'[d] = cache[d].fields /\ work[d] = None
    BY <1>2 DEF MarkDeleting, UpdateFields, Inv, TypeOK
  <2> QED BY <2>1
<1>3. ASSUME Inv, NEW m \in Models, NEW d \in Models, Release(d)
      PROVE  Stay(m)
  <2>1. /\ d # m => fields'[m] = fields[m]
        /\ spec'[d] = None
    BY <1>3 DEF Release, UpdateFields, Inv, TypeOK
  <2> QED BY <2>1
<1>4. ASSUME [Next]_vars, fields' # fields
      PROVE  \E d \in Models : Patch(d) \/ MarkDeleting(d) \/ Release(d)
  BY <1>4 DEF Next, vars, Edit, Delete, Watch, Reconcile, Start, ParseNext, FinishParse,
     ParseDefinition, FinalizeNext, ParseAgain, GoOn
<1>5. ASSUME Inv, [Next]_vars, NEW m \in Models
      PROVE  Stay(m)
  <2>1. CASE fields' = fields
    BY <2>1
  <2>2. CASE fields' # fields
    BY <1>1, <1>2, <1>3, <1>4, <1>5, <2>2
  <2> QED BY <2>1, <2>2
<1>6. Inv /\ [Next]_vars
        => [\A m \in Models : fields[m] \notin {None, fields'[m]} =>
              \/ spec'[m] = None
              \/ IF work[m] # None THEN m \in behind ELSE cache[m].fields # fields[m]]_vars
  BY <1>5
<1> QED BY <1>6, Invariance, PTL DEF Spec, FieldsStay

----------------------------------------------------------------------------
(* Published fields below a name. *)

\* The beginnings of a name below another.
LEMMA JoinedParts ==
    ASSUME NEW p \in Name, NEW n \in Name
    PROVE  /\ \A i \in 0..Len(p) - 1 : SubSeq(p \o n, 1, i) = SubSeq(p, 1, i)
           /\ \A i \in 0..Len(n) : SubSeq(p \o n, 1, Len(p) + i) = p \o SubSeq(n, 1, i)
<1> DEFINE S == Range(Components)
<1>1. p \in Seq(S) /\ n \in Seq(S) /\ Len(p \o n) = Len(p) + Len(n)
  BY DEF Name
<1> HIDE DEF S
<1>2. ASSUME NEW i \in 0..Len(p) - 1
      PROVE  SubSeq(p \o n, 1, i) = SubSeq(p, 1, i)
  BY <1>1
<1>3. ASSUME NEW i \in 0..Len(n)
      PROVE  SubSeq(p \o n, 1, Len(p) + i) = p \o SubSeq(n, 1, i)
  <2> DEFINE s == SubSeq(p \o n, 1, Len(p) + i)
             t == p \o SubSeq(n, 1, i)
  <2>1. s \in Seq(S) /\ Len(s) = Len(p) + i /\ \A j \in 1..Len(p) + i : s[j] = (p \o n)[j]
    BY <1>1
  <2>2. /\ SubSeq(n, 1, i) \in Seq(S) /\ Len(SubSeq(n, 1, i)) = i
        /\ \A j \in 1..i : SubSeq(n, 1, i)[j] = n[j]
    BY <1>1
  <2>3. t \in Seq(S) /\ Len(t) = Len(p) + i
    BY <1>1, <2>2
  <2>4. ASSUME NEW j \in 1..Len(p) + i
        PROVE  s[j] = t[j]
    <3>1. CASE j <= Len(p)
      BY <1>1, <2>1, <2>2, <3>1
    <3>2. CASE j > Len(p)
      <4>1. j - Len(p) \in 1..i
        BY <1>1, <3>2
      <4>2. (p \o n)[j] = n[j - Len(p)]
        BY <1>1, <4>1
      <4>3. t[j] = SubSeq(n, 1, i)[j - Len(p)]
        BY <1>1, <2>2, <4>1
      <4> QED BY <2>1, <2>2, <4>1, <4>2, <4>3
    <3> QED BY <1>1, <3>1, <3>2
  <2> HIDE DEF s, t
  <2>5. s = t
    BY <2>1, <2>3, <2>4, SeqEqual
  <2> QED BY <2>5 DEF s, t
<1> QED BY <1>2, <1>3

\* The ancestors of a name below another are those of the other and, below the
\* other, its own.
LEMMA JoinedAncestors ==
    ASSUME NEW p \in Name, NEW n \in Name
    PROVE  /\ \A x \in Ancestors(p \o n) : x \in Ancestors(p) \/ \E a \in Ancestors(n) : x = p \o a
           /\ \A a \in Name : p \o a \in Ancestors(p \o n) <=> a \in Ancestors(n)
<1>1. Len(p) \in Nat /\ Len(n) \in Nat /\ Len(p \o n) = Len(p) + Len(n)
  BY DEF Name
<1>2. ASSUME NEW x \in Ancestors(p \o n)
      PROVE  x \in Ancestors(p) \/ \E a \in Ancestors(n) : x = p \o a
  <2>1. PICK i \in 0..Len(p) + Len(n) - 1 : x = SubSeq(p \o n, 1, i)
    BY <1>1 DEF Ancestors
  <2>2. CASE i < Len(p)
    <3>1. i \in 0..Len(p) - 1
      BY <1>1, <2>2
    <3> QED BY <2>1, <3>1, JoinedParts DEF Ancestors
  <2>3. CASE i >= Len(p)
    <3> PICK j : j = i - Len(p)
      OBVIOUS
    <3>1. j \in 0..Len(n) - 1 /\ j \in 0..Len(n) /\ i = Len(p) + j
      BY <1>1, <2>3
    <3>2. x = p \o SubSeq(n, 1, j)
      BY <2>1, <3>1, JoinedParts
    <3> QED BY <3>1, <3>2 DEF Ancestors
  <2> QED BY SMTT(30), <1>1, <2>2, <2>3
<1>3. ASSUME NEW a \in Ancestors(n)
      PROVE  p \o a \in Ancestors(p \o n)
  <2>1. PICK i \in 0..Len(n) - 1 : a = SubSeq(n, 1, i)
    BY DEF Ancestors
  <2>2. i \in 0..Len(n) /\ Len(p) + i \in 0..Len(p \o n) - 1
    BY <1>1, <2>1
  <2>3. p \o a = SubSeq(p \o n, 1, Len(p) + i)
    BY <2>1, <2>2, JoinedParts
  <2> QED BY <2>2, <2>3 DEF Ancestors
<1>4. ASSUME NEW a \in Name, p \o a \in Ancestors(p \o n)
      PROVE  a \in Ancestors(n)
  <2>1. CASE p \o a \in Ancestors(p)
    <3>1. Len(p \o a) < Len(p)
      BY <2>1, AncestorsAre
    <3>2. Len(p \o a) = Len(p) + Len(a) /\ Len(a) \in Nat
      BY DEF Name
    <3> QED BY <1>1, <3>1, <3>2
  <2>2. CASE \E b \in Ancestors(n) : p \o a = p \o b
    <3>1. PICK b \in Ancestors(n) : p \o a = p \o b
      BY <2>2
    <3>2. b \in Name
      BY AncestorsAre
    <3> QED BY <3>1, <3>2, JoinedName
  <2> QED BY <1>2, <1>4, <2>1, <2>2
<1> QED BY <1>2, <1>3, <1>4

\* The parent of a name below another.
LEMMA JoinedParent ==
    ASSUME NEW p \in Name, NEW n \in Name, n # <<>>
    PROVE  p \o n # <<>> /\ Parent(p \o n) = p \o Parent(n)
<1>1. Len(p) \in Nat /\ Len(n) \in Nat \ {0} /\ Len(p \o n) = Len(p) + Len(n)
  BY DEF Name
<1>2. Len(n) - 1 \in 0..Len(n) /\ Len(p \o n) - 1 = Len(p) + (Len(n) - 1) /\ Len(p \o n) # 0
  BY <1>1
<1>3. SubSeq(p \o n, 1, Len(p) + (Len(n) - 1)) = p \o SubSeq(n, 1, Len(n) - 1)
  BY <1>2, JoinedParts
<1>4. Parent(p \o n) = SubSeq(p \o n, 1, Len(p \o n) - 1) /\ Parent(n) = SubSeq(n, 1, Len(n) - 1)
  BY DEF Parent, Front
<1>5. p \o n # <<>>
  <2>1. Len(<<>>) = 0
    OBVIOUS
  <2> QED BY <1>2, <2>1
<1> QED BY <1>2, <1>3, <1>4, <1>5

\* Below a name, the children of a name are those that it has where it is "/":
\* what comes on top are names before the name.
LEMMA JoinedChildren ==
    ASSUME NEW p \in Name, NEW names \in SUBSET Name, NEW n \in Name
    PROVE  Children({p \o o : o \in names} \cup Ancestors(p), p \o n)
             = {p \o o : o \in Children(names, n)}
<1> DEFINE all == {p \o o : o \in names} \cup Ancestors(p)
<1>0. Len(p) \in Nat /\ \A o \in Name : Len(o) \in Nat /\ Len(p \o o) = Len(p) + Len(o)
  BY DEF Name
<1>1. ASSUME NEW x \in Children(all, p \o n)
      PROVE  \E o \in Children(names, n) : x = p \o o
  <2>1. x \in all /\ x # <<>> /\ Parent(x) = p \o n
    BY DEF Children
  <2>2. x \in Name
    BY ZenonT(60), <2>1, AncestorsAre, JoinedName
  <2>3. Len(p \o n) < Len(x)
    BY <2>1, <2>2, ParentIsAncestor, AncestorsAre
  <2>4. x \notin Ancestors(p)
    <3> SUFFICES ASSUME x \in Ancestors(p) PROVE FALSE
      OBVIOUS
    <3>1. Len(x) < Len(p)
      BY AncestorsAre
    <3> QED BY <1>0, <2>2, <2>3, <3>1
  <2>5. PICK o \in names : x = p \o o
    BY <2>1, <2>4
  <2>6. o # <<>>
    <3> SUFFICES ASSUME o = <<>> PROVE FALSE
      OBVIOUS
    <3>1. Len(o) = 0
      OBVIOUS
    <3> QED BY <1>0, <2>3, <2>5, <3>1
  <2>7. p \o Parent(o) = p \o n /\ Parent(o) \in Name
    BY <2>1, <2>5, <2>6, JoinedParent, ParentIsAncestor, AncestorsAre
  <2>8. Parent(o) = n
    BY <2>7, JoinedName
  <2> QED BY <2>5, <2>6, <2>8 DEF Children
<1>2. ASSUME NEW o \in Children(names, n)
      PROVE  p \o o \in Children(all, p \o n)
  <2>1. o \in names /\ o # <<>> /\ Parent(o) = n
    BY DEF Children
  <2> QED BY <2>1, JoinedParent DEF Children
<1> QED BY <1>1, <1>2

\* Published fields are accepted below a valid name, and are consistent there.
LEMMA PublishedBelow ==
    ASSUME NEW given, IsFields(given), Published(given), NEW p \in Name, ValidName(p)
    PROVE  /\ Accepts(Empty, Moved(p, given))
           /\ Merged(Empty, p, given, MergeFields(Empty, p, given))
           /\ Consistent(MergeFields(Empty, p, given))
<1> DEFINE names == DOMAIN given
           keys == {p \o n : n \in names}
<1> PICK merged : merged = MergeFields(Empty, p, given)
  OBVIOUS
<1>1. names \subseteq Name /\ \A n \in names : Ancestors(n) \subseteq names
  BY CompleteIs DEF Published
<1>2. \A n \in names : given[n].name = n /\ IsField(given[n])
  BY DEF IsFields
<1>3. Accepts(Empty, Moved(p, given))
  <2> SUFFICES ASSUME NEW n \in names, NEW f, f = Shift(p, given[n])
               PROVE  f.name \notin DOMAIN Empty /\ ValidName(f.name) /\ ValidKind(f.kind)
    BY DEF Accepts, Moved
  <2>1. f.name = p \o n /\ (ValidKind(f.kind) <=> ValidKind(given[n].kind))
    <3> PICK g : g = given[n]
      OBVIOUS
    <3>1. IsField(g) /\ g.name = n /\ f = Shift(p, g)
      BY <1>2
    <3>2. Shift(p, g).name = p \o g.name /\ (ValidKind(Shift(p, g).kind) <=> ValidKind(g.kind))
      BY <3>1, ShiftIs
    <3> QED BY <3>1, <3>2
  <2>2. ValidName(n) /\ ValidKind(given[n].kind) /\ n \in Name
    BY <1>1 DEF Published, Valid
  <2> QED BY <2>1, <2>2, JoinedName, EmptyIsFields
<1>4. Merged(Empty, p, given, merged)
  BY <1>3, EmptyIsFields, MergeFieldsIs
<1>5. IsFields(merged) /\ DOMAIN merged = keys /\ \A n \in names : merged[p \o n] = Shift(p, given[n])
  BY <1>4, EmptyIsFields DEF Merged
<1>6. keys \subseteq Name
  BY <1>1, JoinedName
<1>7. names = {} \/ Complete(merged) = keys \cup Ancestors(p)
  <2> SUFFICES ASSUME names # {} PROVE Complete(merged) = keys \cup Ancestors(p)
    OBVIOUS
  <2>1. <<>> \in names
    <3>1. PICK n \in names : TRUE
      OBVIOUS
    <3>2. CASE n = <<>>
      BY <3>1, <3>2
    <3>3. CASE n # <<>>
      <4>1. IsStrictPrefix(<<>>, n)
        BY <1>1, <3>3 DEF IsStrictPrefix, IsPrefix, Name
      <4>2. <<>> \in Ancestors(n)
        BY <1>1, <4>1, RootName, AncestorsAre
      <4> QED BY <1>1, <4>2
    <3> QED BY <3>2, <3>3
  <2>2. p \o <<>> = p
    BY DEF Name
  <2>3. p \in keys
    BY <2>1, <2>2
  <2>4. ASSUME NEW n \in names, NEW x \in Ancestors(p \o n)
        PROVE  x \in keys \cup Ancestors(p)
    <3>1. n \in Name
      BY <1>1
    <3>2. x \in Ancestors(p) \/ \E a \in Ancestors(n) : x = p \o a
      BY <2>4, <3>1, JoinedAncestors
    <3> QED BY <1>1, <3>2
  <2> HIDE DEF names
  <2>5. Complete(merged) = keys \cup UNION {Ancestors(k) : k \in keys}
    BY <1>5 DEF Complete
  <2>6. Ancestors(p) \subseteq UNION {Ancestors(k) : k \in keys}
    BY <2>3
  <2>7. \A k \in keys : Ancestors(k) \subseteq keys \cup Ancestors(p)
    BY <2>4
  <2> HIDE DEF keys
  <2> QED BY <2>5, <2>6, <2>7
<1>8. ASSUME NEW n \in names, IsAggregate(merged[p \o n].kind)
      PROVE  IF StrictlyBelow(keys, p \o n) = {} THEN merged[p \o n].kind.children \subseteq {p \o n}
             ELSE /\ merged[p \o n].kind.children = Children(Complete(merged), p \o n)
                  /\ merged[p \o n].kind.children \subseteq keys
  <2>1. /\ IsAggregate(given[n].kind)
        /\ merged[p \o n].kind.children = {p \o c : c \in given[n].kind.children}
    BY <1>2, <1>5, <1>8, ShiftIs
  <2>2. n \in Name /\ p \o n \in Name
    BY <1>1, JoinedName
  <2>3. IF StrictlyBelow(names, n) = {} THEN given[n].kind.children \subseteq {n}
        ELSE /\ given[n].kind.children = Children(names, n)
             /\ given[n].kind.children \subseteq names
    BY <2>1 DEF Published, Consistent
  <2>4. StrictlyBelow(keys, p \o n) = {} <=> StrictlyBelow(names, n) = {}
    <3>1. StrictlyBelow(keys, p \o n) = {x \in keys : p \o n \in Ancestors(x)}
      BY <1>6, <2>2, BelowAre
    <3>2. StrictlyBelow(names, n) = {o \in names : n \in Ancestors(o)}
      BY <1>1, <2>2, BelowAre
    <3>3. \A o \in names : p \o n \in Ancestors(p \o o) <=> n \in Ancestors(o)
      BY <1>1, <2>2, JoinedAncestors
    <3> QED BY <3>1, <3>2, <3>3
  <2>5. CASE StrictlyBelow(names, n) = {}
    BY <2>1, <2>3, <2>4, <2>5
  <2>6. CASE StrictlyBelow(names, n) # {}
    <3>1. given[n].kind.children = Children(names, n) /\ Children(names, n) \subseteq names
      BY <2>3, <2>6
    <3>2. merged[p \o n].kind.children = {p \o c : c \in Children(names, n)}
      BY <2>1, <3>1
    <3>3. Children(keys \cup Ancestors(p), p \o n) = {p \o c : c \in Children(names, n)}
      BY <1>1, <2>2, JoinedChildren
    <3> QED BY <1>7, <2>4, <2>6, <3>1, <3>2, <3>3
  <2> QED BY <2>5, <2>6
<1>9. Consistent(merged)
  BY <1>5, <1>8 DEF Consistent
<1> QED BY <1>3, <1>4, <1>9

\* What one model publishes another can take over below any name: it is accepted,
\* nothing is lost or changed, and only parents are added.
THEOREM EmbeddingWorks == Spec => []EmbedsBelow
<1>1. ASSUME Inv, NEW m \in Models, NEW p \in Below, state[m] = "Ready",
             NEW given, given = fields[m],
             NEW merged, merged = MergeFields(Empty, p, given)
      PROVE  /\ Accepts(Empty, Moved(p, given)) /\ Consistent(merged)
             /\ DOMAIN Reference(merged) = Complete(merged)
             /\ \A n \in DOMAIN given : Reference(merged)[p \o n] = Shift(p, given[n])
  <2>1. IsFields(given) /\ Published(given)
    BY <1>1 DEF Inv, TypeOK, ModelOK, CopyOK, Copy, FieldsOK
  <2>2. p \in Name /\ ValidName(p)
    BY SpecsAssumption
  <2>3. /\ Accepts(Empty, Moved(p, given))
        /\ Merged(Empty, p, given, merged)
        /\ Consistent(merged)
    BY <1>1, <2>1, <2>2, PublishedBelow
  <2>4. Reference(merged) = [n \in Complete(merged) |->
                               IF n \in DOMAIN merged THEN merged[n]
                               ELSE [name |-> n, kind |-> Object(Children(Complete(merged), n))]]
    BY <2>3 DEF Reference
  <2>5. ASSUME NEW n \in DOMAIN given
        PROVE  Reference(merged)[p \o n] = Shift(p, given[n])
    <3>1. p \o n \in DOMAIN merged /\ merged[p \o n] = Shift(p, given[n])
      BY <2>3 DEF Merged
    <3>2. p \o n \in Complete(merged)
      BY <3>1 DEF Complete
    <3> QED BY <2>4, <3>1, <3>2
  <2>6. DOMAIN Reference(merged) = Complete(merged)
    BY <2>4
  <2> QED BY <2>3, <2>5, <2>6
<1>2. Inv => EmbedsBelow
  BY <1>1 DEF EmbedsBelow
<1> QED BY <1>2, Invariance, PTL
=============================================================================
