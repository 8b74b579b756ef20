------------------------------- MODULE Names -------------------------------
(* Resource names (aip-resourcename), resource ids (aip-resourceid) and the  *)
(* typed names that aip-codegen generates from a pattern (shipper.aip.rs,    *)
(* site.aip.rs, shipment.aip.rs).                                            *)
(*                                                                           *)
(* A text is a sequence of symbols.  A symbol is one character, or a word    *)
(* whose characters all have the class of its set: no function here looks    *)
(* inside a run of letters.                                                  *)
EXTENDS Integers, SequencesExt

CONSTANTS
  Lower, Upper, Digit,   \* the symbols of the ASCII classes a-z, A-Z and 0-9
  Uuids,                 \* texts that Uuid::parse_str accepts
  MaxName,               \* is_domain_name: 254 bytes, the last of them a dot
  MaxLabel,              \* is_domain_name: 63 bytes between two dots
  MaxId                  \* validate_user_settable: 63 bytes

LBrace == "{"
RBrace == "}"
Underscore == "_"

Alphanumeric == Lower \cup Upper \cup Digit

\* The classes have no symbol in common, and none that a parser looks for; the
\* collections of the three resources are words in lower case.  A UUID without
\* braces or a URN's colons begins and ends with a digit.
ASSUME NamesAssumption ==
  /\ MaxName \in Nat /\ MaxLabel \in Nat /\ MaxId \in Nat \ {0}
  /\ MaxId <= MaxLabel /\ MaxLabel < MaxName
  /\ Lower \cap Upper = {} /\ Lower \cap Digit = {} /\ Upper \cap Digit = {}
  /\ Alphanumeric \cap {"/", LBrace, RBrace, "@", "-", Underscore, ".", ":", " ", ","} = {}
  /\ {"shippers", "sites", "shipments"} \subseteq Lower
  /\ \A uuid \in Uuids :
       /\ Len(uuid) > 0
       /\ Range(uuid) \subseteq Alphanumeric \cup {"-"} => uuid[1] # "-" /\ uuid[Len(uuid)] # "-"

WILDCARD == <<"-">>

Ok(value)  == [ok |-> TRUE, value |-> value]
Err(error) == [ok |-> FALSE, error |-> error]

\* str::split, for a separator of one character: the parts of the first n
\* symbols, for every n; and its inverse.
AddSymbol(parts, c, separator) ==
  IF c = separator THEN Append(parts, <<>>)
  ELSE [parts EXCEPT ![Len(parts)] = Append(@, c)]
Split(text, separator) ==
  LET parts[n \in 0..Len(text)] ==
        IF n = 0 THEN << <<>> >> ELSE AddSymbol(parts[n - 1], text[n], separator)
  IN  parts[Len(text)]

AddPart(text, part, separator) == text \o <<separator>> \o part
Joined(parts, separator) ==
  LET text[n \in 0..Len(parts)] ==
        IF n = 0 THEN <<>> ELSE IF n = 1 THEN parts[1]
        ELSE AddPart(text[n - 1], parts[n], separator)
  IN  text[Len(parts)]

-----------------------------------------------------------------------------
(* Segments and the Scanner.                                                 *)

IsVariable(s) == Len(s) > 2 /\ s[1] = LBrace /\ s[Len(s)] = RBrace
IsWildcard(s) == s = WILDCARD
Inner(s)      == SubSeq(s, 2, Len(s) - 1)
Literal(s)    == IF IsVariable(s) THEN Inner(s) ELSE s

At(text) == SelectInSeq(text, LAMBDA c : c = "@")
HasRevision(literal) ==
  LET i == At(literal)
  IN  i > 1 /\ i < Len(literal) /\ ~Contains(SubSeq(literal, i + 1, Len(literal)), "@")
ResourceId(literal) ==
  IF HasRevision(literal) THEN SubSeq(literal, 1, At(literal) - 1) ELSE literal
RevisionId(literal) ==
  IF HasRevision(literal) THEN SubSeq(literal, At(literal) + 1, Len(literal)) ELSE <<>>

\* What `Scanner::scan` yields until None, with `full` and `service_name`
\* after it; `lead` counts the parts of the text before the first segment.
Lead(name) ==
  CASE IsPrefix(<<"/", "/">>, name) -> 3
    [] ~IsPrefix(<<"/", "/">>, name) /\ IsPrefix(<<"/">>, name) -> 1
    [] OTHER -> 0

ScanParts(parts, lead) ==
  [full     |-> lead = 3,
   service  |-> IF lead = 3 THEN parts[3] ELSE <<>>,
   lead     |-> lead,
   parts    |-> parts,
   segments |-> IF parts = << <<>> >> THEN <<>> ELSE SubSeq(parts, lead + 1, Len(parts))]

Scan(name) == ScanParts(Split(name, "/"), Lead(name))

NameSegments(name) == Scan(name).segments

-----------------------------------------------------------------------------
(* Validation.                                                               *)

\* Ported from Go's net.isDomainName.
IsDomainName(s) ==
  LET l == Len(s)
      labels == Split(s, ".")
  IN  /\ l > 0 /\ l <= MaxName /\ (l = MaxName => s[l] = ".")
      /\ \A i \in 1..l :
           /\ s[i] \in Alphanumeric \cup {Underscore, "-", "."}
           /\ s[i] = "-" => i > 1 /\ s[i-1] # "."
           /\ s[i] = "." => i > 1 /\ s[i-1] \notin {".", "-"}
      /\ s[l] # "-"
      /\ \A i \in 1..Len(labels) : Len(labels[i]) <= MaxLabel

IsSnakeCase(s) ==
  \A i \in 1..Len(s) : s[i] \in IF i = 1 THEN Lower ELSE Lower \cup Digit \cup {Underscore}

\* The error of the first segment that has one, given each one's verdict.
FirstError(verdicts) ==
  LET i == SelectInSeq(verdicts, LAMBDA v : v # "none")
  IN  IF i = 0 THEN "none" ELSE verdicts[i]

NameVerdict(s) ==
  CASE s = <<>>         -> "EmptySegment"
    [] IsWildcard(s)    -> "none"
    [] IsVariable(s)    -> "VariableInName"
    [] IsDomainName(s)  -> "none"
    [] OTHER            -> "InvalidDnsName"

PatternVerdict(s) ==
  CASE s = <<>>        -> "EmptySegment"
    [] IsWildcard(s)   -> "InvalidPattern"
    [] IsVariable(s)   -> IF IsSnakeCase(Literal(s)) THEN "none" ELSE "InvalidPattern"
    [] IsDomainName(s) -> "none"
    [] OTHER           -> "InvalidDnsName"

\* The segments come first, then the service of a full name.
ValidateScan(scan, name) ==
  LET error == FirstError([i \in DOMAIN scan.segments |-> NameVerdict(scan.segments[i])])
  IN  CASE name = <<>>                                  -> Err("Empty")
        [] name # <<>> /\ error # "none"                -> Err(error)
        [] name # <<>> /\ error = "none"
             /\ scan.full /\ ~IsDomainName(scan.service) -> Err("InvalidDnsName")
        [] OTHER                                        -> Ok(name)

Validate(name) == ValidateScan(Scan(name), name)

ValidatePatternScan(scan, pattern) ==
  LET error == FirstError([i \in DOMAIN scan.segments |-> PatternVerdict(scan.segments[i])])
  IN  CASE pattern = <<>>                              -> Err("InvalidPattern")
        [] pattern # <<>> /\ error # "none"            -> Err(error)
        [] pattern # <<>> /\ error = "none" /\ scan.full -> Err("InvalidPattern")
        [] OTHER                                       -> Ok(pattern)

ValidatePattern(pattern) == ValidatePatternScan(Scan(pattern), pattern)

ContainsWildcard(name) == \E i \in DOMAIN NameSegments(name) : IsWildcard(NameSegments(name)[i])

ValidateVariable(value) ==
  IF value = <<>> \/ Contains(value, "/") THEN Err("InvalidVariable") ELSE Ok(value)

\* aip-resourceid.  An id of the shape of a UUID is accepted as it is.
ValidateUserSettable(id) ==
  CASE Len(id) \notin 1..MaxId               -> Err("Length")
    [] Len(id) \in 1..MaxId /\ id \in Uuids  -> Ok(id)
    [] Len(id) \in 1..MaxId /\ id \notin Uuids ->
         CASE id[1] \notin Lower \cup Upper  -> Err("LeadingCharacter")
           [] id[1] \in Lower \cup Upper /\ id[Len(id)] = "-" -> Err("TrailingCharacter")
           [] OTHER -> IF \A i \in 1..Len(id) : id[i] \in Lower \cup Digit \cup {"-"}
                       THEN Ok(id) ELSE Err("Character")

-----------------------------------------------------------------------------
(* Patterns.                                                                 *)

LiteralSegment(text)  == [is |-> "Literal", text |-> text]
VariableSegment(text) == [is |-> "Variable", text |-> text]

\* `variable_name` takes {} for a variable, which is_variable does not.
NamesVariable(s) == Len(s) >= 2 /\ s[1] = LBrace /\ s[Len(s)] = RBrace

\* Mutant: a variable may be named twice.
Mut_Malformed_Repeats(raw, i) ==
  \/ raw[i] \in {<<>>, WILDCARD, <<LBrace, RBrace>>}
  \/ ~NamesVariable(raw[i]) /\ (Contains(raw[i], LBrace) \/ Contains(raw[i], RBrace))

\* An empty segment, a wildcard, a variable without a name or with an earlier
\* one's, a literal with a brace in it.
Malformed(raw, i) ==
  \/ raw[i] \in {<<>>, WILDCARD, <<LBrace, RBrace>>}
  \/ NamesVariable(raw[i]) /\ \E j \in 1..(i - 1) : raw[j] = raw[i]
  \/ ~NamesVariable(raw[i]) /\ (Contains(raw[i], LBrace) \/ Contains(raw[i], RBrace))

Compile(raw) ==
  IF \E i \in DOMAIN raw : Malformed(raw, i) THEN Err("InvalidPattern")
  ELSE Ok([i \in DOMAIN raw |-> IF NamesVariable(raw[i]) THEN VariableSegment(Inner(raw[i]))
                                                         ELSE LiteralSegment(raw[i])])

PatternParse(pattern) ==
  LET body == IF IsPrefix(<<"/">>, pattern) THEN Tail(pattern) ELSE pattern
  IN  IF IsPrefix(<<"/", "/">>, pattern) \/ body = <<>> THEN Err("InvalidPattern")
      ELSE Compile(Split(body, "/"))

Variables(p) == {p[i].text : i \in {j \in DOMAIN p : p[j].is = "Variable"}}
IndexOf(p, v) == CHOOSE i \in DOMAIN p : p[i] = VariableSegment(v)

Render(p) == Joined([i \in DOMAIN p |-> IF p[i].is = "Variable" THEN <<LBrace>> \o p[i].text \o <<RBrace>>
                                                                ELSE p[i].text], "/")

\* The shape a name must have before its variables are bound.
Fits(p, segments) ==
  /\ Len(segments) = Len(p)
  /\ \A i \in DOMAIN p : /\ ~NamesVariable(segments[i])
                         /\ p[i].is = "Literal"  => segments[i] = p[i].text
                         /\ p[i].is = "Variable" => segments[i] # <<>>

Bind(p, segments) ==
  IF Fits(p, segments) THEN Ok([v \in Variables(p) |-> segments[IndexOf(p, v)]])
                       ELSE Err("PatternMismatch")

MatchName(p, name) == Bind(p, NameSegments(name))

\* Mutant: a wildcard is a value like any other.
Mut_MatchWithWildcards_Concrete(p, name) == MatchName(p, name)

\* A wildcard binds None, the empty text here, to its variable.
MatchWithWildcards(p, name) ==
  LET matched == MatchName(p, name)
  IN  IF matched.ok THEN Ok([v \in DOMAIN matched.value |->
                              IF IsWildcard(matched.value[v]) THEN <<>> ELSE matched.value[v]])
                    ELSE matched

Format(p, provided) ==
  CASE ~(DOMAIN provided \subseteq Variables(p)) -> Err("UnknownVariable")
    [] DOMAIN provided \subseteq Variables(p) /\ DOMAIN provided # Variables(p) -> Err("MissingVariable")
    [] OTHER -> Ok(Joined([i \in DOMAIN p |-> IF p[i].is = "Variable" THEN provided[p[i].text]
                                                                      ELSE p[i].text], "/"))

IsMatch(pattern, name) == PatternParse(pattern).ok /\ MatchName(PatternParse(pattern).value, name).ok

-----------------------------------------------------------------------------
(* Ancestors and parents.                                                    *)

NoAncestor == <<"no", "ancestor">>

Ancestor(name, pattern) ==
  LET n == Scan(name)
      p == Scan(pattern).segments
      fits == /\ Len(n.segments) >= Len(p)
              /\ \A i \in DOMAIN p : /\ ~IsWildcard(p[i])
                                     /\ IsVariable(p[i]) \/ p[i] = n.segments[i]
  IN  CASE name = <<>> \/ pattern = <<>> \/ ~fits -> NoAncestor
        [] p = <<>> /\ fits                      -> <<>>
        [] OTHER -> Joined(SubSeq(n.parts, 1, n.lead + Len(p)), "/")

\* The name's service is read only when the parent had a segment to scan.
HasParent(name, parent) ==
  LET n == Scan(name)
      p == Scan(parent)
      Covers(a, b) ==
        \/ IsWildcard(a) \/ a = b
        \/ /\ HasRevision(Literal(b)) /\ ~HasRevision(Literal(a))
           /\ ResourceId(Literal(a)) = ResourceId(Literal(b))
  IN  /\ name # <<>> /\ parent # <<>> /\ name # parent
      /\ Len(p.segments) <= Len(n.segments)
      /\ \A i \in DOMAIN p.segments : Covers(p.segments[i], n.segments[i])
      /\ p.full /\ n.full /\ p.segments # <<>> => p.service = n.service

-----------------------------------------------------------------------------
(* The generated names.  `of` is the parsed PATTERN of the resource.         *)

PatternText ==
  LET shipper == << <<"shippers">>, <<LBrace, "shipper", RBrace>> >>
  IN  [Shipper  |-> Joined(shipper, "/"),
       Site     |-> Joined(shipper \o << <<"sites">>, <<LBrace, "site", RBrace>> >>, "/"),
       Shipment |-> Joined(shipper \o << <<"shipments">>, <<LBrace, "shipment", RBrace>> >>, "/")]
Of == [r \in DOMAIN PatternText |-> PatternParse(PatternText[r]).value]

KeyColumns(of) == LET vars == SelectSeq(of, LAMBDA s : s.is = "Variable")
                  IN  [i \in DOMAIN vars |-> vars[i].text]

FromParts(of, vars) == [of |-> of, vars |-> vars, name |-> Format(of, vars).value]

New(of, vars) ==
  IF \A v \in DOMAIN vars : ValidateVariable(vars[v]).ok
  THEN Ok(FromParts(of, vars)) ELSE Err("InvalidVariable")

TypedName(of, matched) == IF matched.ok THEN Ok(FromParts(of, matched.value)) ELSE matched
Parse(of, name)    == TypedName(of, MatchName(of, name))

\* `FieldError` keeps the error and adds the field; see module Errors.
ParseValid(of, valid) == IF valid.ok THEN Parse(of, valid.value) ELSE valid
ParseField(of, value) == ParseValid(of, Validate(value))

\* Mutant: the parent keeps the collection of the child.
Mut_ParentOf_KeepsCollection(of) == SubSeq(of, 1, Len(of) - 1)

\* The pattern of a parent is the child's without its last two segments.
ParentOf(of) == SubSeq(of, 1, Len(of) - 2)
Parent(typed) ==
  New(ParentOf(typed.of), [v \in Variables(ParentOf(typed.of)) |-> typed.vars[v]])

\* `id` is what generate_system returns.
MintUnder(of, parent, id) ==
  FromParts(of, [v \in Variables(of) |-> IF v \in DOMAIN parent.vars THEN parent.vars[v] ELSE id])

\* The clauses of service.rs `scoped_predicate`: one equality for each
\* variable of the parent that is bound, against the row's key column.
InScope(parentOf, parent, typed) ==
  LET bindings == MatchWithWildcards(parentOf, parent)
  IN  bindings.ok /\ \A v \in DOMAIN bindings.value :
                       bindings.value[v] # <<>> => typed.vars[v] = bindings.value[v]
=============================================================================
