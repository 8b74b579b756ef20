------------------------------ MODULE Messages ------------------------------
(* Requests whose text is an update mask (the form "mask", a list of paths), *)
(* with what Masks makes of it, or a proto file (the form "schema", a list   *)
(* of declarations), with what Codegen makes of it.                          *)
EXTENDS Requests, Codegen, Masks

CONSTANTS
  Masked,        \* the type of message that masks are about
  Stored,        \* the messages a store may hold
  Incoming,      \* ... and a request may bring
  Wanted,        \* the files a run of the plugin is asked for, in order
  Parameters     \* ... and the flags it is given

-----------------------------------------------------------------------------

\* Every path through singular messages to a field that is not one.
RECURSIVE Leaves(_)
Leaves(t) == UNION {IF IsSingular(t, f) /\ IsMessage(t, f)
                    THEN {<<f>> \o leaf : leaf \in Leaves(TypeOf(t, f))} ELSE {<<f>>} : f \in Fields(t)}

RECURSIVE Content(_, _, _)
Content(t, m, leaf) ==
  IF Len(leaf) = 1 THEN m[leaf[1]]
  ELSE Content(TypeOf(t, leaf[1]), Nested(t, m, leaf[1]), Tail(leaf))

Segments(path)       == [i \in DOMAIN Split(path, ".") |-> Split(path, ".")[i][1]]
Covers(mask, leaf)   == \E i \in DOMAIN mask : IsPrefix(Segments(mask[i]), leaf)

\* Whether the field at the path is set, and each message on the way.
RECURSIVE IsSet(_, _, _)
IsSet(t, m, path) ==
  /\ HasField(m, path[1])
  /\ Len(path) > 1 => IsSet(TypeOf(t, path[1]), m[path[1]][1], Tail(path))

\* Whether an update sets the field at the path, if only to write inside it.
Sets(mask, src, path) ==
  IF mask = <<>> THEN IsSet(Masked, src, path)
  ELSE \E i \in DOMAIN mask : \/ Segments(mask[i]) = path /\ IsSet(Masked, src, path)
                              \/ IsStrictPrefix(path, Segments(mask[i]))

RECURSIVE TypeAt(_, _)
TypeAt(t, path) == IF path = <<>> THEN t ELSE TypeAt(TypeOf(t, path[1]), Tail(path))

\* Whether it sets a sibling of the field at the path, or of one on the way.
Displaces(mask, src, path) ==
  \E i \in DOMAIN path : \E g \in Siblings(TypeAt(Masked, SubSeq(path, 1, i - 1)), path[i]) :
    Sets(mask, src, Append(SubSeq(path, 1, i - 1), g))

\* No oneof has two of its fields set.
RECURSIVE OneofsHold(_, _)
OneofsHold(t, m) ==
  \A f \in Fields(t) : HasField(m, f) =>
    /\ \A g \in Siblings(t, f) : ~HasField(m, g)
    /\ IsMessage(t, f) => \A i \in DOMAIN m[f] : OneofsHold(TypeOf(t, f), m[f][i])

\* An update writes what its mask names and nothing else: after aip-fieldmask's
\* update with a valid mask, each leaf is the request's if a path covers it
\* (unset included) and the stored one otherwise, whatever order and overlap
\* the paths have; without a mask it is the request's where that is set.  The
\* one other change is that a oneof is left with one field: a leaf may be blank
\* when the update sets a sibling of it, never when it only clears one.  A
\* second update of the same request changes nothing.
UpdateFollowsMask ==
  form = "mask" /\ ValidateMask(Masked, text).ok =>
    \A dst \in Stored, src \in Incoming :
      \A out \in {Update(Masked, text, dst, src)} :
      /\ Update(Masked, text, out, src) = out
      /\ OneofsHold(Masked, out)
      /\ \A leaf \in Leaves(Masked) :
           LET incoming == Content(Masked, src, leaf)
               named    == \/ IsFullReplacement(text)
                           \/ text = <<>> /\ DOMAIN incoming # {}
                           \/ text # <<>> /\ ~IsFullReplacement(text) /\ Covers(text, leaf)
               now      == Content(Masked, out, leaf)
           IN  \/ now = IF named THEN incoming ELSE Content(Masked, dst, leaf)
               \/ now = Unset /\ Displaces(text, src, leaf)

\* Whether a message still holds, at any depth, a field with the behavior.
RECURSIVE Holds(_, _, _)
Holds(t, m, behavior) ==
  \E f \in Fields(t) : /\ HasField(m, f)
                       /\ \/ HasAny(t, f, {behavior})
                          \/ IsMessage(t, f) /\ \E i \in DOMAIN m[f] : Holds(TypeOf(t, f), m[f][i], behavior)

\* Every path through singular messages, those that end at one included.
RECURSIVE Paths(_)
Paths(t) == UNION {{<<f>>} \cup (IF IsSingular(t, f) /\ IsMessage(t, f)
                                 THEN {<<f>> \o path : path \in Paths(TypeOf(t, f))} ELSE {}) : f \in Fields(t)}

HasBehavior(path, behavior) == HasAny(TypeAt(Masked, Front(path)), Last(path), {behavior})

RECURSIVE Enclosing(_, _, _)
Enclosing(t, m, path) ==
  IF Len(path) = 1 THEN m ELSE Enclosing(TypeOf(t, path[1]), Nested(t, m, path[1]), Tail(path))

IsPresentAt(m, path) ==
  IsFieldPresent(TypeAt(Masked, Front(path)), Enclosing(Masked, m, path), Last(path))
ValueAt(m, path) == GetField(TypeAt(Masked, Front(path)), Enclosing(Masked, m, path), Last(path))
IsEnclosed(m, path) == Len(path) = 1 \/ IsSet(Masked, m, Front(path))

\* What update_shipper and build_shipper make of a request respects AIP-203.
\* A cleared message holds none of the behavior at any depth and clearing it
\* again changes nothing.  Of an accepted update, at the top level: it keeps
\* every field that the server owns.  At every depth: it blanks no REQUIRED
\* field of a message that stays, unless its mask names a message that the field
\* is in (the check goes by exact paths); and when the immutable check passes it changes the value of
\* no IMMUTABLE field, unless the mask names something inside that field or a
\* message that the field is in is missing from one side (neither is compared).
\* A field that the update displaces from its oneof is no part of either check.
BehaviorsHold ==
  form = "mask" =>
    \A dst \in Stored, src \in Incoming :
      \A cleared \in {ClearFields(Masked, src, {"OUTPUT_ONLY", "IMMUTABLE"})},
         updated \in {UpdateResource(Masked, text, dst, src)} :
          /\ \A b \in {"OUTPUT_ONLY", "IMMUTABLE"} : ~Holds(Masked, cleared, b)
          /\ ClearFields(Masked, cleared, {"OUTPUT_ONLY", "IMMUTABLE"}) = cleared
          /\ updated.ok =>
               /\ \A f \in Fields(Masked) : HasAny(Masked, f, {"OUTPUT_ONLY"}) => updated.value[f] = dst[f]
               /\ \A path \in Paths(Masked) : ~Displaces(text, src, path) =>
                    /\ /\ HasBehavior(path, "REQUIRED") /\ IsPresentAt(dst, path) /\ IsEnclosed(updated.value, path)
                       /\ \A i \in DOMAIN text : ~IsStrictPrefix(Segments(text[i]), path)
                       => IsPresentAt(updated.value, path)
                    /\ /\ HasBehavior(path, "IMMUTABLE") /\ IsEnclosed(dst, path) /\ IsEnclosed(src, path)
                       /\ \A i \in DOMAIN text : ~IsStrictPrefix(path, Segments(text[i]))
                       /\ ValidateImmutableNotChanged(Masked, dst, src, text) = {}
                       => ValueAt(updated.value, path) = ValueAt(dst, path)

-----------------------------------------------------------------------------

Declared(n, is) == LET those == SelectSeq(text, LAMBDA d : d.file = n /\ d.is = is)
                   IN  [i \in DOMAIN those |-> those[i].what]
Pool == [n \in 1..2 |-> [name |-> n, definitions |-> Declared(n, "definition"), messages |-> Declared(n, "message")]]

\* A collection before each variable, which `parent_pattern` takes for granted.
Paired(pattern) == \A i \in DOMAIN NameSegments(pattern) : IsVariable(NameSegments(pattern)[i]) = (i % 2 = 0)

\* Some generated wrapper declares what is called.
Resolves(call, wrappers) ==
  \E w \in wrappers : w.of = call.on /\ \E fn \in w.declares : fn.name = call.name /\ fn.arity = call.arity

\* The field is there, and prost gives it the type that the impl reads.
Readable(m, field) ==
  /\ field \in DOMAIN m.fields /\ ~m.fields[field].list
  /\ IF field = "delete_time" THEN m.fields[field].presence # "oneof" ELSE m.fields[field].presence = "plain"

WrappersFit(wrappers) ==
  /\ \A w \in wrappers :
       /\ PatternParse(w.pattern).ok
       /\ KeyColumns(PatternParse(w.pattern).value) = PatternVariables(w.pattern).value
       /\ Paired(w.pattern) => \A call \in w.calls : Resolves(call, wrappers)
  /\ \A v, w \in wrappers :
       ValidateResourceType(v.type) /\ ValidateResourceType(w.type) /\ v.of # w.of => v.static # w.static

ImplsFit(impls, messages) ==
  \A i \in impls :
    /\ i.item # "ReflectMessage" => \E m \in messages :
         i.of = << <<m.name>> >> /\ \A field \in i.reads : Readable(m, field)
    /\ Range(i.of) \cap {<<k>> : k \in RawKeywords \cup SuffixKeywords} = {}

\* What the plugin emits compiles and does not panic, whichever files of the
\* package it is asked for and in whatever order: each call in a wrapper meets a
\* function of that arity in a wrapper of the same run, the parent's in another
\* file included; each pattern parses, with the variables that the generator
\* read; valid types with different structs have different statics; an impl
\* reads only what its message has, under a path without a keyword; and the
\* generator never lacks a descriptor pool (aip-codegen, protoc-gen-prost-aip).
GeneratedCodeFits ==
  form = "schema" =>
    \A wanted \in Wanted, parameter \in Parameters :
    \A out \in {GenerateResponse(Pool, wanted, parameter)} :
      IF ~out.ok THEN out.error # "MissingDescriptorPool"
      ELSE \A items \in {UNION {Range(out.value[i].items) : i \in DOMAIN out.value}} :
             /\ WrappersFit({i \in items : i.item = "wrapper"})
             /\ ImplsFit({i \in items : i.item # "wrapper"},
                         UNION {Range(Pool[wanted[i]].messages) : i \in DOMAIN wanted})
=============================================================================
