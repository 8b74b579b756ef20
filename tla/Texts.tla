------------------------------- MODULE Texts -------------------------------
(* The other texts a request carries, parsed and printed: IAM members, roles *)
(* and permissions (aip-iam), `order_by` (aip-ordering), the names of        *)
(* operations (aip-lro), and the types of resources and their grammatical    *)
(* names (aip-reflect, aip-codegen).  Texts are sequences of symbols, as in  *)
(* Names.                                                                    *)
EXTENDS Names, Orders

CONSTANT UpperOf   \* to_ascii_uppercase, for a symbol of Lower

ASSUME TextsAssumption == Lower \subseteq DOMAIN UpperOf /\ \A c \in Lower : UpperOf[c] \in Upper

-----------------------------------------------------------------------------
(* Member.                                                                   *)

MemberKinds == {"user", "serviceAccount", "group", "domain"}
Everyone    == {"allUsers", "allAuthenticatedUsers"}

\* Mutant: the value ends at the second colon.
Mut_MemberValue_SplitAll(s) == Split(s, ":")[2]

\* What follows the first colon (`split_once`).
MemberValue(s) == SubSeq(s, SelectInSeq(s, LAMBDA c : c = ":") + 1, Len(s))

ParseMember(s) ==
  LET kind == Split(s, ":")[1]
  IN  CASE s = <<>>                       -> Err("MemberEmpty")
        [] s \in {<<e>> : e \in Everyone} -> Ok([kind |-> s[1], value |-> <<>>])
        [] OTHER ->
             CASE ~Contains(s, ":")       -> Err("MemberUnknownType")
               [] Contains(s, ":") /\ MemberValue(s) = <<>> -> Err("MemberEmptyValue")
               [] OTHER -> IF kind \in {<<k>> : k \in MemberKinds}
                           THEN Ok([kind |-> kind[1], value |-> MemberValue(s)])
                           ELSE Err("MemberUnknownType")

PrintMember(m) == IF m.kind \in Everyone THEN <<m.kind>> ELSE <<m.kind, ":">> \o m.value

\* `caller` is a sequence of at most one member.
MatchesGrant(m, granted) == granted \in {<<e>> : e \in Everyone} \/ PrintMember(m) = granted
GrantAdmits(granted, caller) ==
  granted = <<"allUsers">> \/ \E i \in DOMAIN caller : MatchesGrant(caller[i], granted)

-----------------------------------------------------------------------------
(* Role and RoleSet.                                                         *)

ParseRole(s) ==
  LET parts == Split(s, "/")
      Scoped(collection) == Len(parts) = 4 /\ parts[1] = <<collection>> /\ parts[3] = <<"roles">>
                            /\ parts[2] # <<>> /\ parts[4] # <<>>
  IN  CASE Len(parts) = 2 /\ parts[1] = <<"roles">> /\ parts[2] # <<>> ->
                                      Ok([form |-> "Predefined", scope |-> <<>>, role |-> parts[2]])
        [] Scoped("organizations") -> Ok([form |-> "Organization", scope |-> parts[2], role |-> parts[4]])
        [] Scoped("projects")      -> Ok([form |-> "Project", scope |-> parts[2], role |-> parts[4]])
        [] OTHER                   -> Err("RoleMalformed")

PrintRole(r) ==
  LET tail == <<"roles", "/">> \o r.role
  IN  CASE r.form = "Predefined"   -> tail
        [] r.form = "Organization" -> <<"organizations", "/">> \o r.scope \o <<"/">> \o tail
        [] r.form = "Project"      -> <<"projects", "/">> \o r.scope \o <<"/">> \o tail

-----------------------------------------------------------------------------
(* Permission: `is_well_formed`, shared by from_static and from_str.         *)

IsWellFormed(s) ==
  LET segments == Split(s, ".")
  IN  /\ Len(segments) >= 3
      /\ \A i \in DOMAIN segments :
           /\ segments[i] # <<>>
           /\ segments[i][1] \in Lower \cup Upper
           /\ \A j \in DOMAIN segments[i] : segments[i][j] \in Alphanumeric

ParsePermission(s) == IF IsWellFormed(s) THEN Ok(s) ELSE Err("PermissionMalformed")
Service(permission) == Split(permission, ".")[1]
Verb(permission)    == LET segments == Split(permission, ".") IN segments[Len(segments)]

-----------------------------------------------------------------------------
(* OrderBy.                                                                  *)

Words(raw) == LET words == Split(raw, " ")
              IN  Chosen(words, {i \in DOMAIN words : words[i] # <<>>})

ValidatePathSegments(path) == \A i \in DOMAIN Split(path, ".") : Split(path, ".")[i] # <<>>

ParseOrderByField(raw) ==
  LET words == Words(raw)
  IN  IF /\ words # <<>> /\ ValidatePathSegments(words[1])
         /\ Len(words) = 1 \/ (Len(words) = 2 /\ words[2] \in {<<"asc">>, <<"desc">>})
      THEN Ok([path |-> words[1], desc |-> Len(words) = 2 /\ words[2] = <<"desc">>])
      ELSE Err("Syntax")

ParseOrderBy(s) ==
  LET raws   == Split(s, ",")
      fields == [i \in DOMAIN raws |-> ParseOrderByField(raws[i])]
  IN  CASE s = <<>> -> Ok(<<>>)
        [] s # <<>> /\ \E i \in DOMAIN s : s[i] \notin Alphanumeric \cup {Underscore, " ", ",", "."} -> Err("Syntax")
        [] OTHER -> IF \A i \in DOMAIN fields : fields[i].ok
                    THEN Ok([i \in DOMAIN fields |-> fields[i].value]) ELSE Err("Syntax")

SubFields(field) == IF field.path = <<>> THEN <<>> ELSE Split(field.path, ".")

-----------------------------------------------------------------------------
(* OperationName.  Its parent is a sequence of at most one text.             *)

Operations == <<"operations">>

\* Where the last "/operations/" of the name starts, 0 when there is none.
LastCollection(name) ==
  Max({0} \cup {i \in 1..(Len(name) - 2) : SubSeq(name, i, i + 2) = <<"/">> \o Operations \o <<"/">>})

ParseOperationName(name) ==
  LET at     == LastCollection(name)
      flat   == at = 0 /\ IsPrefix(Operations \o <<"/">>, name)
      parent == IF at = 0 THEN <<>> ELSE <<SubSeq(name, 1, at - 1)>>
      id     == IF flat THEN SubSeq(name, 3, Len(name)) ELSE SubSeq(name, at + 3, Len(name))
  IN  IF /\ Validate(name).ok
         /\ at # 0 \/ flat
         /\ id # <<>> /\ ~Contains(id, "/")
         /\ ValidateUserSettable(id).ok
      THEN Ok([parent |-> parent, id |-> id])
      ELSE Err("NameInvalid")

Collection(op) == IF op.parent = <<>> THEN Operations ELSE op.parent[1] \o <<"/">> \o Operations
PrintOperationName(op) == Collection(op) \o <<"/">> \o op.id

-----------------------------------------------------------------------------
(* ResourceType and GrammaticalName.                                         *)

LastSlash(s)   == SelectLastInSeq(s, LAMBDA c : c = "/")
ServiceName(s) == SubSeq(s, 1, LastSlash(s) - 1)
TypeName(s)    == IF LastSlash(s) = 0 THEN <<>> ELSE SubSeq(s, LastSlash(s) + 1, Len(s))

ValidateType(s)         == s # <<>> /\ s[1] \in Upper /\ Range(s) \subseteq Alphanumeric
ValidateResourceType(s) == /\ Len(SelectSeq(s, LAMBDA c : c = "/")) = 1
                           /\ Contains(ServiceName(s), ".")
                           /\ ValidateType(TypeName(s))

\* GrammaticalName::upper_camel_case.
UpperCamelCase(s) == IF s = <<>> THEN <<>> ELSE <<IF s[1] \in DOMAIN UpperOf THEN UpperOf[s[1]] ELSE s[1]>> \o Tail(s)

ValidateGrammatical(s)  == s # <<>> /\ Range(s) \subseteq Alphanumeric /\ s[1] \in Lower
=============================================================================
