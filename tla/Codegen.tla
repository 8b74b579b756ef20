------------------------------ MODULE Codegen ------------------------------
(* protoc-gen-prost-aip: the descriptors that aip-reflect reads from a file, *)
(* the plugin's flags, and what aip-codegen emits.  Generated source is not  *)
(* text here but its items: a wrapper with the functions it declares and the *)
(* calls in their bodies, and impls with the fields they read.               *)
(*                                                                           *)
(* A file is [name, definitions, messages]; a message is [name, fields,      *)
(* resource, entry, children] with at most one resource [type, patterns]; a  *)
(* field is [kind, list, presence].  Files of one run share a package.       *)
EXTENDS Texts

CONSTANTS
  SnakeOf,          \* heck's ToSnakeCase, for the name of a message
  RawKeywords,      \* keywords that r# makes an identifier of
  SuffixKeywords    \* ... and those that it cannot

-----------------------------------------------------------------------------
(* aip-reflect.                                                              *)

HasScalarField(message, name, kind) ==
  name \in DOMAIN message.fields /\ message.fields[name] = [kind |-> kind, list |-> FALSE, presence |-> "plain"]
HasDeleteTime(message) ==
  /\ "delete_time" \in DOMAIN message.fields
  /\ LET f == message.fields["delete_time"] IN f.kind = "Timestamp" /\ ~f.list /\ f.presence # "oneof"

RequestDescriptor(message) ==
  [message_name   |-> message.name,
   has_page_token |-> HasScalarField(message, "page_token", "String"),
   has_page_size  |-> HasScalarField(message, "page_size", "Int32"),
   has_skip       |-> HasScalarField(message, "skip", "Int32"),
   has_order_by   |-> HasScalarField(message, "order_by", "String")]

\* `owner` is the message that carries the option, if there is one.
ResourceDescriptor(resource, owner) ==
  [resource_type   |-> resource.type,
   patterns        |-> resource.patterns,
   message_name    |-> [i \in DOMAIN owner |-> owner[i].name],
   has_delete_time |-> \E i \in DOMAIN owner : HasDeleteTime(owner[i])]

ResourceOnMessage(m)      == ResourceDescriptor(m.resource[1], <<m>>)
ResourceDefinitions(file) == [i \in DOMAIN file.definitions |-> ResourceDescriptor(file.definitions[i], <<>>)]
ResourceDescriptorsInFile(file) ==
  LET annotated == SelectSeq(file.messages, LAMBDA m : m.resource # <<>>)
  IN  ResourceDefinitions(file) \o [i \in DOMAIN annotated |-> ResourceOnMessage(annotated[i])]

\* Every message with its chain of parents, without the entries of maps.
RECURSIVE Collect(_, _)
Collect(messages, parents) ==
  FlattenSeq([i \in DOMAIN messages |->
    LET path == Append(parents, messages[i].name)
    IN  (IF messages[i].entry THEN <<>> ELSE <<path>>) \o Collect(messages[i].children, path)])

-----------------------------------------------------------------------------
(* The flags: `parameter` is a sequence of [key, value].                     *)

TextFlags == {"aip_crate", "reflect_descriptor_pool"}
BoolFlags == {"pagination", "ordering", "softdelete", "reflect"}

ParseFlags(parameter) ==
  LET Given(key) == SelectSeq(parameter, LAMBDA pair : pair.key = key)
      flags      == [key \in TextFlags \cup BoolFlags |->
                       IF Given(key) # <<>> THEN Last(Given(key)).value
                       ELSE IF key \in BoolFlags THEN "false" ELSE ""]
      Bad(pair)  == \/ pair.key \in TextFlags /\ pair.value = ""
                    \/ pair.key \in BoolFlags /\ pair.value \notin {"true", "false"}
                    \/ pair.key \notin TextFlags \cup BoolFlags
  IN  IF \/ \E i \in DOMAIN parameter : Bad(parameter[i])
         \/ flags["reflect"] = "true" /\ flags["reflect_descriptor_pool"] = ""
      THEN Err("parameter") ELSE Ok(flags)

\* What generate_response hands to the generator: a flag that is off zeroes
\* what it controls.
GenInput(file, flags) ==
  LET On(flag)  == flags[flag] = "true"
      Zeroed(r) == [r EXCEPT !.has_page_token = @ /\ On("pagination"), !.has_page_size = @ /\ On("pagination"),
                             !.has_skip = @ /\ On("pagination"), !.has_order_by = @ /\ On("ordering")]
      resources == ResourceDescriptorsInFile(file)
  IN  [proto_file |-> file.name,
       resources  |-> [i \in DOMAIN resources |->
                         [resources[i] EXCEPT !.has_delete_time = @ /\ On("softdelete")]],
       requests   |-> [i \in DOMAIN file.messages |-> Zeroed(RequestDescriptor(file.messages[i]))],
       messages   |-> IF On("reflect") THEN Collect(file.messages, <<>>) ELSE <<>>]

-----------------------------------------------------------------------------
(* aip-codegen: names.                                                       *)

StructName(resource_type) ==
  IF TypeName(resource_type) = <<>> THEN Err("InvalidResource")
  ELSE Ok(Append(TypeName(resource_type), "ResourceName"))

\* The name of the static that holds the compiled pattern.
ScreamingSnake(pascal) ==
  FlattenSeq([i \in DOMAIN pascal |->
    LET c == pascal[i] IN (IF i > 1 /\ c \in Upper THEN <<"_">> ELSE <<>>)
                          \o <<IF c \in DOMAIN UpperOf THEN UpperOf[c] ELSE c>>])

ParentPattern(pattern) ==
  LET segments == Split(pattern, "/")
  IN  IF Len(segments) < 4 THEN <<>> ELSE <<Joined(SubSeq(segments, 1, Len(segments) - 2), "/")>>

PatternVariables(pattern) ==
  LET named == SelectSeq(NameSegments(pattern), IsVariable)
  IN  IF PatternParse(pattern).ok THEN Ok([i \in DOMAIN named |-> Literal(named[i])])
                                  ELSE PatternParse(pattern)

\* prost's identifier for the module that nests the messages of `name`.
SnakeModule(name) ==
  LET ident == SnakeOf[name]
  IN  CASE ident \in RawKeywords    -> <<"r#", ident>>
        [] ident \in SuffixKeywords -> <<ident, "_">>
        [] OTHER                    -> <<ident>>
RustPath(path) == Append([i \in 1..(Len(path) - 1) |-> SnakeModule(path[i])], <<Last(path)>>)

-----------------------------------------------------------------------------
(* aip-codegen: items.                                                       *)

Fn(name, params)       == [name |-> name, arity |-> Len(params)]
Call(on, name, args)   == [on |-> on, name |-> name, arity |-> Len(args)]
Accessors(variables)   == {Fn(v, <<>>) : v \in Range(variables)}

\* What each wrapper declares, whatever its parent.  from_parts and new take the
\* variables; new and parse call from_parts with them.
Constructors(variables) == {Fn(<<"from_parts">>, variables), Fn(<<"new">>, variables)}
Declares(variables) ==
  {Fn(<<"pattern">>, <<>>), Fn(<<"as_str">>, <<>>), Fn(<<"key_values">>, <<>>), Fn(<<"parse">>, <<"name">>),
   Fn(<<"parse_field">>, <<"field", "value">>)} \cup Accessors(variables)

\* The bodies of parent and mint_under; `up` is the parent's wrapper.
ParentBody(up)         == {Call(up.struct, <<"new">>, up.variables)}
MintUnderBody(struct, up) ==
  {Call(struct, <<"from_parts">>, Append(up.variables, "generate_system"))}
  \cup {Call(up.struct, v, <<>>) : v \in Range(up.variables)}

\* Mutant: a parent pattern is taken to have a wrapper.
Mut_ParentWrapper_Unindexed(pattern, index) ==
  LET up == ParentPattern(pattern)
  IN  IF up = <<>> \/ ~PatternParse(up[1]).ok THEN <<>>
      ELSE <<[struct |-> IF up[1] \in DOMAIN index THEN index[up[1]] ELSE up[1],
              variables |-> PatternVariables(up[1]).value]>>

\* The parent's wrapper, when this invocation generates one.
ParentWrapper(pattern, index) ==
  LET up == ParentPattern(pattern)
  IN  IF up = <<>> \/ ~(up[1] \in DOMAIN index) THEN <<>>
      ELSE <<[struct |-> index[up[1]], variables |-> PatternVariables(up[1]).value]>>

Wrapper(resource_type, pattern, struct, variables, up) ==
  LET mints == up = <<>> /\ Len(variables) = 1
  IN  [item     |-> "wrapper",
       of       |-> struct,
       type     |-> resource_type,
       pattern  |-> pattern,
       static   |-> ScreamingSnake(struct),
       declares |-> Constructors(variables) \cup Declares(variables)
                    \cup (IF mints THEN {Fn(<<"mint">>, <<>>)} ELSE {})
                    \cup (IF up # <<>> THEN {Fn(<<"parent">>, <<>>), Fn(<<"mint_under">>, <<"parent">>)} ELSE {}),
       calls    |-> {Call(struct, <<"from_parts">>, variables)}
                    \cup (IF mints THEN {Call(struct, <<"from_parts">>, <<"generate_system">>)} ELSE {})
                    \cup (IF up # <<>> THEN ParentBody(up[1]) \cup MintUnderBody(struct, up[1]) ELSE {})]

ResourceName(resource_type, pattern, index) ==
  Wrapper(resource_type, pattern, StructName(resource_type).value, PatternVariables(pattern).value,
          ParentWrapper(pattern, index))

\* Impls name their struct by its path in the module that holds the messages.
Impl(trait, path, reads) == [item |-> trait, of |-> RustPath(path), reads |-> reads]
PageRequest(r)   == Impl("PageRequest", <<r.message_name>>,
                         {"page_token", "page_size"} \cup (IF r.has_skip THEN {"skip"} ELSE {}))
OrderByRequest(r) == Impl("OrderByRequest", <<r.message_name>>, {"order_by"})
SoftDeletable(name) == Impl("SoftDeletable", <<name>>, {"delete_time"})
ReflectMessage(path) == Impl("ReflectMessage", path, {})

\* The first pattern of each resource, over all inputs; a later one overrides.
Patterned(inputs) ==
  SelectSeq(FlattenSeq([i \in DOMAIN inputs |-> inputs[i].resources]), LAMBDA r : r.patterns # <<>>)
IndexWrappers(inputs) ==
  LET patterned == Patterned(inputs)
      Latest(p) == Max({i \in DOMAIN patterned : patterned[i].patterns[1] = p})
  IN  [p \in {patterned[i].patterns[1] : i \in DOMAIN patterned} |->
         StructName(patterned[Latest(p)].resource_type).value]

GenerateFile(input, index) ==
  LET resources == FlattenSeq([i \in DOMAIN input.resources |->
        LET r == input.resources[i]
        IN  (IF r.patterns = <<>> THEN <<>> ELSE <<ResourceName(r.resource_type, r.patterns[1], index)>>)
            \o (IF r.has_delete_time THEN [k \in DOMAIN r.message_name |-> SoftDeletable(r.message_name[k])]
                ELSE <<>>)])
      requests == FlattenSeq([i \in DOMAIN input.requests |->
        LET r == input.requests[i]
        IN  (IF r.has_page_token /\ r.has_page_size THEN <<PageRequest(r)>> ELSE <<>>)
            \o (IF r.has_order_by THEN <<OrderByRequest(r)>> ELSE <<>>)])
  IN  resources \o requests \o [i \in DOMAIN input.messages |-> ReflectMessage(input.messages[i])]

\* The files that carry something, each with its items.
GenerateFiles(inputs, index) ==
  SelectSeq([i \in DOMAIN inputs |-> [proto_file |-> inputs[i].proto_file, items |-> GenerateFile(inputs[i], index)]],
            LAMBDA file : file.items # <<>>)

Refused(r) == ~StructName(r.resource_type).ok \/ ~PatternVariables(r.patterns[1]).ok

Generate(inputs, descriptor_pool) ==
  CASE descriptor_pool = "" /\ \E i \in DOMAIN inputs : inputs[i].messages # <<>> ->
         Err("MissingDescriptorPool")
    [] OTHER -> IF \E r \in Range(Patterned(inputs)) : Refused(r) THEN Err("InvalidResource")
                ELSE Ok(GenerateFiles(inputs, IndexWrappers(inputs)))

\* `pool` is what the request brings, `wanted` the names of file_to_generate.
GenerateResponse(pool, wanted, parameter) ==
  LET flags     == ParseFlags(parameter)
      Named(n)  == SelectInSeq(pool, LAMBDA file : file.name = n)
  IN  CASE ~flags.ok -> flags
        [] flags.ok /\ \E i \in DOMAIN wanted : Named(wanted[i]) = 0 -> Err("file")
        [] OTHER -> Generate([i \in DOMAIN wanted |-> GenInput(pool[Named(wanted[i])], flags.value)],
                             flags.value["reflect_descriptor_pool"])
=============================================================================
