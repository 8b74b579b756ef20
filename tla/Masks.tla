------------------------------- MODULE Masks --------------------------------
(* aip-fieldmask and aip-fieldbehavior over dynamic messages, and the update *)
(* that update_shipper makes of them.                                        *)
(*                                                                           *)
(* A message maps each field of its type to that field's content: a function *)
(* from positions to elements, which is empty when the field is not set.     *)
(* The position of a singular field is 1, those of a list are 1..n, and      *)
(* those of a map are its keys.  Elements are numbers (0 is the default that *)
(* only an optional scalar can hold) or messages.  A dotted path is a text,  *)
(* as in Names.  A set of paths stands for a list of them, and for the first *)
(* of them where the code stops there.                                       *)
EXTENDS Names

CONSTANT Descriptor   \* type -> field -> [shape, of, behaviors, oneof]: `of` is a type
                      \* or "scalar", `oneof` the group the field is in or "none"

Fields(t)             == DOMAIN Descriptor[t]
TypeOf(t, f)          == Descriptor[t][f].of
IsSingular(t, f)      == Descriptor[t][f].shape = "singular"
IsMessage(t, f)       == TypeOf(t, f) # "scalar"
HasAny(t, f, behaviors) == Descriptor[t][f].behaviors \cap behaviors # {}

Unset          == <<>>
HasField(m, f) == DOMAIN m[f] # {}
Empty(t)       == [f \in Fields(t) |-> Unset]
\* get_field of a singular message: an empty default if it is unset.
Nested(t, m, f) == IF HasField(m, f) THEN m[f][1] ELSE Empty(TypeOf(t, f))

\* get_field: what is there, or the default of the field's type.
GetField(t, m, f) == IF ~IsSingular(t, f) THEN m[f]
                     ELSE IF IsMessage(t, f) THEN Nested(t, m, f)
                     ELSE IF HasField(m, f) THEN m[f][1] ELSE 0

\* The other fields of the field's oneof, of which one at most is set.
Siblings(t, f) ==
  {g \in Fields(t) \ {f} : Descriptor[t][f].oneof # "none" /\ Descriptor[t][g].oneof = Descriptor[t][f].oneof}

\* set_field, and get_field_mut of a field to write into: the siblings are
\* cleared.
SetField(t, m, f, content) ==
  [g \in Fields(t) |-> IF g = f THEN content ELSE IF g \in Siblings(t, f) THEN Unset ELSE m[g]]

\* A set optional scalar that holds its default counts as missing.
IsFieldPresent(t, m, f) ==
  HasField(m, f) /\ (IsSingular(t, f) /\ ~IsMessage(t, f) => m[f][1] # 0)

-----------------------------------------------------------------------------
(* aip-fieldmask.                                                            *)

FullReplacement == << <<"*">> >>
IsFullReplacement(mask) == mask = FullReplacement

RECURSIVE UpdateWireSetFields(_, _, _)
UpdateWireSetFields(t, dst, src) ==
  [f \in Fields(t) |->
     CASE \A g \in {f} \cup Siblings(t, f) : ~HasField(src, g) -> dst[f]
       [] HasField(src, f) /\ IsSingular(t, f) /\ IsMessage(t, f) /\ HasField(dst, f) ->
            <<UpdateWireSetFields(TypeOf(t, f), dst[f][1], src[f][1])>>
       [] OTHER -> src[f]]   \* unset where a sibling is set

RECURSIVE Mut_UpdateNamedField_NoClear(_, _, _, _)
\* Mutant: a masked field that the request leaves unset keeps its value.
Mut_UpdateNamedField_NoClear(t, dst, src, segments) ==
  LET f == segments[1][1] IN
  CASE Len(segments[1]) # 1 \/ f \notin Fields(t) -> dst
    [] Len(segments) = 1 -> IF HasField(src, f) THEN SetField(t, dst, f, src[f]) ELSE dst
    [] Len(segments) > 1 /\ (~IsSingular(t, f) \/ ~IsMessage(t, f)) -> dst
    [] OTHER -> SetField(t, dst, f, <<Mut_UpdateNamedField_NoClear(TypeOf(t, f), Nested(t, dst, f),
                                                                   Nested(t, src, f), Tail(segments))>>)

\* One path.  A field that `src` lacks is cleared; a message on the way is
\* allocated; an unknown field, or one inside a list or a map, is ignored.
RECURSIVE UpdateNamedField(_, _, _, _)
UpdateNamedField(t, dst, src, segments) ==
  LET f == segments[1][1] IN
  CASE Len(segments[1]) # 1 \/ f \notin Fields(t) -> dst
    [] Len(segments) = 1 -> IF HasField(src, f) THEN SetField(t, dst, f, src[f])
                                                ELSE [dst EXCEPT ![f] = Unset]
    [] Len(segments) > 1 /\ (~IsSingular(t, f) \/ ~IsMessage(t, f)) -> dst
    [] OTHER -> SetField(t, dst, f, <<UpdateNamedField(TypeOf(t, f), Nested(t, dst, f),
                                                       Nested(t, src, f), Tail(segments))>>)

Update(t, mask, dst, src) ==
  CASE mask = <<>>             -> UpdateWireSetFields(t, dst, src)
    [] IsFullReplacement(mask) -> src
    [] OTHER -> FoldLeft(LAMBDA m, path : UpdateNamedField(t, m, src, Split(path, ".")), dst, mask)

\* Through lists and maps as well, to the type of their elements.
RECURSIVE PathExists(_, _)
PathExists(t, segments) ==
  \/ segments = <<>>
  \/ /\ t # "scalar"
     /\ Len(segments[1]) = 1 /\ segments[1][1] \in Fields(t)
     /\ PathExists(TypeOf(t, segments[1][1]), Tail(segments))

ValidateMask(t, mask) ==
  CASE \E i \in DOMAIN mask : mask[i] = <<"*">> ->
         IF Len(mask) = 1 THEN Ok(mask) ELSE Err("WildcardNotAlone")
    [] \A i \in DOMAIN mask : mask[i] # <<"*">> /\ PathExists(t, Split(mask[i], ".")) -> Ok(mask)
    [] OTHER -> Err("UnknownPath")

-----------------------------------------------------------------------------
(* aip-fieldbehavior.                                                        *)

RECURSIVE ClearFields(_, _, _)
ClearFields(t, m, behaviors) ==
  [f \in Fields(t) |->
     CASE HasAny(t, f, behaviors) -> Unset
       [] ~HasAny(t, f, behaviors) /\ IsMessage(t, f) ->
            [i \in DOMAIN m[f] |-> ClearFields(TypeOf(t, f), m[f][i], behaviors)]
       [] OTHER -> m[f]]

\* Mutant: only the fields that the stored message has are copied back.
Mut_CopyFields_NoClear(t, dst, src, behaviors) ==
  [f \in Fields(t) |-> IF HasAny(t, f, behaviors) /\ HasField(src, f) THEN src[f] ELSE dst[f]]

\* At the top level only; a default in `src` clears `dst`, and what is copied
\* clears its siblings.
CopyFields(t, dst, src, behaviors) ==
  LET copied(f) == HasAny(t, f, behaviors) /\ IsFieldPresent(t, src, f)
  IN  [f \in Fields(t) |->
         CASE copied(f)                                       -> src[f]
           [] ~HasAny(t, f, behaviors) /\ ~\E g \in Siblings(t, f) : copied(g) -> dst[f]
           [] OTHER                                           -> Unset]

JoinPath(prefix, f) == IF prefix = <<>> THEN <<f>> ELSE prefix \o <<".", f>>

HasExactPath(mask, needle) == \E i \in DOMAIN mask : mask[i] \in {<<"*">>, needle}

HasPathWithPrefix(mask, needle) ==
  \/ mask = <<>>
  \/ HasExactPath(mask, needle)
  \/ \E i \in DOMAIN mask : IsStrictPrefix(mask[i] \o <<".">>, needle)

\* validate_required_inner: every missing path that the mask names exactly.
RECURSIVE MissingRequired(_, _, _, _)
MissingRequired(t, m, mask, prefix) ==
  UNION {LET path == JoinPath(prefix, f) IN
         CASE ~IsFieldPresent(t, m, f) ->
                IF HasAny(t, f, {"REQUIRED"}) /\ HasExactPath(mask, path) THEN {path} ELSE {}
           [] IsFieldPresent(t, m, f) /\ IsMessage(t, f) ->
                UNION {MissingRequired(TypeOf(t, f), m[f][i], mask, path) : i \in DOMAIN m[f]}
           [] OTHER -> {} : f \in Fields(t)}

ValidateRequired(t, m) == MissingRequired(t, m, FullReplacement, <<>>)
ValidateRequiredWithMask(t, m, mask) ==
  IF mask = <<>> THEN {} ELSE MissingRequired(t, m, mask, <<>>)

\* validate_immutable_inner: messages are compared where both have one, at the
\* same index of a list and under the same key of a map.  A field is compared as
\* get_field reads it: one that is unset is equal to its default.
RECURSIVE ChangedImmutable(_, _, _, _, _)
ChangedImmutable(t, old, updated, mask, prefix) ==
  UNION {LET path == JoinPath(prefix, f) IN
         CASE HasAny(t, f, {"IMMUTABLE"}) /\ HasPathWithPrefix(mask, path) ->
                IF GetField(t, old, f) = GetField(t, updated, f) THEN {} ELSE {path}
           [] ~(HasAny(t, f, {"IMMUTABLE"}) /\ HasPathWithPrefix(mask, path)) /\ IsMessage(t, f) ->
                UNION {ChangedImmutable(TypeOf(t, f), old[f][i], updated[f][i], mask, path)
                         : i \in DOMAIN old[f] \cap DOMAIN updated[f]}
           [] OTHER -> {} : f \in Fields(t)}

ValidateImmutableNotChanged(t, old, updated, mask) == ChangedImmutable(t, old, updated, mask, <<>>)

-----------------------------------------------------------------------------
(* The messages of update_shipper: validate the mask, merge, check what the  *)
(* mask names, restore what the server owns.                                 *)
UpdateResource(t, mask, existing, incoming) ==
  LET merged == Update(t, mask, existing, incoming) IN
  CASE ~ValidateMask(t, mask).ok                        -> ValidateMask(t, mask)
    [] ValidateMask(t, mask).ok /\ ValidateRequiredWithMask(t, merged, mask) # {} -> Err("RequiredFields")
    [] OTHER -> Ok(CopyFields(t, merged, existing, {"OUTPUT_ONLY"}))
=============================================================================
