---------------------------- MODULE ModelAdapters ----------------------------
(***************************************************************************)
(* The chat models (core/chat_models) with the schemas of their tools: the *)
(* conversations of Conversations, with the schemas that Gemini is sent as *)
(* json_schema_to_google makes them (google/utils.py): a reference to a    *)
(* definition is replaced by what it stands for.                           *)
(*                                                                         *)
(* A schema is a tree: what it refers to, or None, and its entries, each a *)
(* key and a schema.  Of all else a schema says nothing is kept.           *)
(***************************************************************************)
EXTENDS Conversations, FiniteSets

CONSTANT Depth          \* nested calls before Python gives up

RECURSIVE RefsOf(_)
RefsOf(schema) ==
  {schema.ref} \cup UNION {RefsOf(entry.schema) : entry \in Range(schema.below)}

\* The entries of a schema whose keys are, or are not, among these.
Select(schema, keys) == SelectSeq(schema.below, LAMBDA entry : entry.key \in keys)
Drop(schema, keys) ==
  [schema EXCEPT !.below = SelectSeq(@, LAMBDA entry : entry.key \notin keys)]

\* _remove_additional_properties
RECURSIVE WithoutAdditional(_)
WithoutAdditional(schema) ==
  LET kept == Drop(schema, {"additionalProperties"}).below
  IN  [schema EXCEPT !.below =
         [i \in DOMAIN kept |-> [kept[i] EXCEPT !.schema = WithoutAdditional(@)]]]

\* The definitions of a schema, entries themselves.
DefinitionsOf(schema) ==
  FlattenSeq([i \in DOMAIN Select(schema, {"$defs"}) |->
                Select(schema, {"$defs"})[i].schema.below])
NamesOf(definitions) == {definitions[i].key : i \in DOMAIN definitions}
DefinitionOf(definitions, name) ==
  (CHOOSE d \in Range(definitions) : d.key = name).schema

-----------------------------------------------------------------------------
\* Mutant: the entries are copied with the reference among them.
Merged_KeepsRef(schema, definition) ==
  [definition EXCEPT !.ref = schema.ref, !.below = schema.below \o @]

\* The entries of a reference stay as they are, where the definition has no entry of
\* that name.
Merged(schema, definition) ==
  [definition EXCEPT !.below = Drop(schema, NamesOf(@)).below \o @]

\* _expand_refs: the schema without its references, and what has been expanded so far.
\* A definition is remembered when it is expanded, too late for one that uses itself.
RECURSIVE ExpandRefs(_, _, _, _)
ExpandRefs(schema, definitions, memo, depth) ==
  LET Entry(done, entry) ==
        LET e == ExpandRefs(entry.schema, definitions, done.memo, depth - 1)
        IN  [schema |-> [done.schema EXCEPT !.below =
                           Append(@, [entry EXCEPT !.schema = e.schema])],
             memo   |-> e.memo]
  IN  CASE depth = 0 -> [schema |-> Recursion, memo |-> memo]
        [] depth > 0 /\ schema.ref \in DOMAIN memo ->
             [schema |-> Merged(schema, memo[schema.ref]), memo |-> memo]
        [] depth > 0 /\ schema.ref \in NamesOf(definitions) \ DOMAIN memo ->
             LET d == ExpandRefs(DefinitionOf(definitions, schema.ref), definitions, memo,
                                 depth - 1)
             IN  [schema |-> Merged(schema, d.schema),
                  memo   |-> (schema.ref :> d.schema) @@ d.memo]
        [] OTHER ->
             FoldLeft(Entry, [schema |-> [schema EXCEPT !.below = <<>>], memo |-> memo],
                      schema.below)

\* json_schema_to_google: the definitions are expanded where they stand, and left out.
GoogleSchema(schema) ==
  LET clean == WithoutAdditional(schema)
      full  == ExpandRefs(clean, DefinitionsOf(clean), <<>>, Depth).schema
  IN  IF Recursion.ref \in RefsOf(full) THEN Recursion ELSE Drop(full, {"$defs"})

ASSUME SchemasAssumption ==
  \A tool \in DOMAIN SchemaOf : GoogleSchemas[tool] = GoogleSchema(SchemaOf[tool])

-----------------------------------------------------------------------------
\* What a schema stands for, with nothing remembered.
RECURSIVE Unfolded(_, _)
Unfolded(schema, definitions) ==
  IF schema.ref \in NamesOf(definitions)
  THEN Merged(schema, Unfolded(DefinitionOf(definitions, schema.ref), definitions))
  ELSE [schema EXCEPT !.below =
          [i \in DOMAIN @ |-> [@[i] EXCEPT !.schema = Unfolded(@, definitions)]]]

\* What is referred to in an entry beside a reference.
RECURSIVE Beside(_, _)
Beside(schema, names) ==
  UNION {IF schema.ref \in names THEN RefsOf(entry.schema) ELSE Beside(entry.schema, names) :
           entry \in Range(schema.below)}

\* Gemini is sent every schema with what its references stand for in their place, in
\* whatever order the definitions were met and remembered, and nothing of one that
\* cannot be unfolded.  No reference to a definition is left, unless it stands in an
\* entry beside another reference: such an entry is copied as it is (google/utils.py,
\* json_schema_to_google).
SchemasClosed ==
  phase = "sent" /\ adapter = "gemini" =>
    \A tool \in settings.tools :
      LET sent        == request.params.tools[tool]
          schema      == WithoutAdditional(SchemaOf[tool])
          definitions == DefinitionsOf(schema)
      IN  /\ sent = Unfolded(Drop(schema, {"$defs"}), definitions)
          /\ RefsOf(sent) \cap NamesOf(definitions)
               \subseteq Beside(schema, NamesOf(definitions))
=============================================================================
