------------------------------ MODULE Requests ------------------------------
(* Texts that arrive in requests, written piece by piece, and what the       *)
(* parsers of Names and Texts promise of every one of them; and instants (a  *)
(* list of days), with what Civil makes of them.  Messages adds the requests *)
(* whose text is an update mask or a proto file.                             *)
EXTENDS Texts, Civil, FiniteSets

CONSTANTS
  Starts,        \* per form, the texts a request may start with
  Pieces,        \* per form, the texts it may go on with
  MaxPieces,     \* bound on how many pieces follow the start
  Ids            \* ids of stored resources, and what generate_system returns

TextForms == {"name", "pattern", "id", "member", "role", "permission", "operation",
              "order_by", "resource_type", "grammatical"}

\* A generated id is a segment of letters, digits and hyphens that passes for
\* one of a name.
ASSUME RequestsAssumption ==
  /\ \A id \in Ids : /\ id \in Seq(STRING) /\ NameVerdict(id) = "none"
                     /\ \A i \in 1..Len(id) : id[i] \in Alphanumeric \cup {"-"}
  /\ DOMAIN Starts = DOMAIN Pieces
  /\ \A f \in TextForms \cap DOMAIN Pieces : Starts[f] \subseteq Seq(STRING) /\ Pieces[f] \subseteq Seq(STRING)
  /\ "instant" \in DOMAIN Pieces => Starts["instant"] \subseteq Seq(Nat) /\ Pieces["instant"] \subseteq Seq(Nat)

VARIABLES form, text, written
vars == <<form, text, written>>

Forms == DOMAIN Pieces

Init == /\ form \in Forms
        /\ text \in Starts[form]
        /\ written = 0

Write == /\ written < MaxPieces[form]
         /\ \E piece \in Pieces[form] : text' = text \o piece
         /\ written' = written + 1
         /\ UNCHANGED form

StartOver == /\ written = MaxPieces[form]
             /\ text' \in Starts[form]
             /\ written' = 0
             /\ UNCHANGED form

Next == Write \/ StartOver
Spec == Init /\ [][Next]_vars

-----------------------------------------------------------------------------

\* `got` is what parse_field makes of the text.
Canonical(r, got) ==
  got.ok =>
    /\ got.value.name = Joined(NameSegments(text), "/")
    /\ New(Of[r], got.value.vars) = got
    /\ ParseField(Of[r], got.value.name) = got
    /\ \A other \in DOMAIN Of \ {r} : ~ParseField(Of[other], text).ok

UnderItsParent(name, up) ==
  /\ up.ok
  /\ ParseField(Of["Shipper"], up.value.name) = up
  /\ HasParent(name, up.value.name)
  /\ ~HasParent(up.value.name, name)
  /\ Ancestor(name, PatternText["Shipper"]) = up.value.name

Mints(r, parent) ==
  parent.ok => \A id \in Ids : \A minted \in {MintUnder(Of[r], parent.value, id)} :
    ParseField(Of[r], minted.name) = Ok(minted) /\ Parent(minted) = parent

NamesAnId ==
  LET typed == New(Of["Shipper"], [v \in Variables(Of["Shipper"]) |-> text])
  IN  ValidateUserSettable(text).ok /\ (\A i \in DOMAIN text : text[i] \in Alphanumeric \cup {"-"}) =>
        typed.ok /\ ParseField(Of["Shipper"], typed.value.name) = typed

\* A name that a handler accepts has one canonical text, whatever service or
\* slash came before it; that text and the name's variables give the same typed
\* name back and no other resource's; its parent exists, parses, and is the
\* ancestor and the parent that the free functions compute; and what is minted
\* under it parses again.  A valid user-settable id makes such a name, unless
\* it is a UUID in braces or a URN (shipper.aip.rs, site.aip.rs, shipment.aip.rs
\* on aip-resourcename and aip-resourceid).
NameRoundTrips ==
  /\ form = "name" =>
       \A r \in DOMAIN Of : \A got \in {ParseField(Of[r], text)} :
         /\ Canonical(r, got)
         /\ IF r = "Shipper" THEN \A child \in DOMAIN Of \ {r} : Mints(child, got)
            ELSE got.ok => UnderItsParent(got.value.name, Parent(got.value))
  /\ form = "id"   => NamesAnId

\* A parsed pattern renders to its own text; every name it matches is formatted
\* back from its captures alone; a well-formed pattern whose variables differ
\* parses, which the generated LazyLock relies on; and a well-formed name
\* without wildcards is a pattern of itself (aip-resourcename `Pattern`).
PatternsRoundTrip ==
  form = "pattern" =>
    LET raw   == NameSegments(text)
        twice == \E i, j \in DOMAIN raw : i # j /\ IsVariable(raw[i]) /\ raw[i] = raw[j]
        names == {Joined(s, "/") : s \in [DOMAIN raw -> Ids \cup Range(raw)]}
    IN  \A parsed \in {PatternParse(text)} :
        /\ parsed.ok =>
             /\ Render(parsed.value) = IF IsPrefix(<<"/">>, text) THEN Tail(text) ELSE text
             /\ \A name \in names : \A matched \in {MatchName(parsed.value, name)} :
                  matched.ok => Format(parsed.value, matched.value) = Ok(name)
        /\ ValidatePattern(text).ok /\ ~twice => parsed.ok
        /\ Validate(text).ok /\ ~ContainsWildcard(text) /\ ~Scan(text).full => IsMatch(text, text)

\* The rows that a list under `parent` reads are those whose name has that
\* parent: the equalities of `scoped_predicate`, with a wildcard for any
\* shipper, against `has_parent` (service.rs:888, aip-resourcename).
ScopeIsParent ==
  form = "name" /\ ParseField(Of["Shipper"], text).ok =>
    \A r \in DOMAIN Of \ {"Shipper"} : \A values \in [Variables(Of[r]) -> Ids] :
      LET row == FromParts(Of[r], values)
      IN  InScope(Of["Shipper"], text, row) = HasParent(row.name, text)

\* The words of each field, without the optional "asc".
Plain(raw) == LET words == Words(raw)
              IN  IF Len(words) > 1 /\ words[Len(words)] = <<"asc">> THEN Front(words) ELSE words

\* What aip-iam, aip-lro and aip-ordering accept they keep: a member, a role
\* and an operation's name print as they were read, so a stored grant matches
\* the member it was parsed from and nobody who differs; a permission's service
\* and verb are its two ends; an order keeps every word of its text, in order,
\* with no empty subfield; a resource type is its service and its type; and a
\* grammatical name in upper camel case is a type that aip-reflect accepts.
TextRoundTrips ==
  /\ form = "member" /\ ParseMember(text).ok =>
       /\ PrintMember(ParseMember(text).value) = text
       /\ GrantAdmits(text, <<ParseMember(text).value>>)
       /\ GrantAdmits(text, <<>>) = (text = <<"allUsers">>)
  /\ form = "role" /\ ParseRole(text).ok => PrintRole(ParseRole(text).value) = text
  /\ form = "permission" /\ ParsePermission(text).ok =>
       IsPrefix(Service(text) \o <<".">>, text) /\ IsSuffix(<<".">> \o Verb(text), text)
  /\ form = "operation" /\ ParseOperationName(text).ok =>
       LET op == ParseOperationName(text).value
       IN  /\ PrintOperationName(op) = text
           /\ op.parent = <<>> => Len(NameSegments(text)) = 2
  /\ form = "order_by" /\ ParseOrderBy(text).ok =>
       LET order == ParseOrderBy(text).value
           raws  == Split(text, ",")
       IN  /\ text # <<>> => Len(order) = Len(raws)
           /\ \A i \in DOMAIN order :
                /\ Plain(raws[i]) = <<order[i].path>> \o (IF order[i].desc THEN << <<"desc">> >> ELSE <<>>)
                /\ \A j \in DOMAIN SubFields(order[i]) : SubFields(order[i])[j] # <<>>
  /\ form = "resource_type" /\ ValidateResourceType(text) =>
       ServiceName(text) \o <<"/">> \o TypeName(text) = text
  /\ form = "grammatical" /\ ValidateGrammatical(text) => ValidateType(UpperCamelCase(text))

-----------------------------------------------------------------------------

\* The day that a list of days adds up to.
Total(days) ==
  LET sum[n \in 0..Len(days)] == IF n = 0 THEN 0 ELSE sum[n - 1] + days[n] IN sum[Len(days)]

\* 9999-12-31, the last day of a Timestamp.
LastDay == 2932896

\* 23:59:59, the last second of a day.
LastSecond == 86399

\* Timestamps sort as text in the order of their instants, which every time
\* filter, order and cursor in SQLite relies on: from the epoch to the end of
\* the year 9999, each day is the one that follows in the Gregorian calendar
\* and its text sorts after all of the day before, each second of a day after
\* the one before it, the hours' and the minutes' rollovers included, and an
\* instant before the epoch is written as the epoch (aip-sql
\* timestamp.rs, matcher.rs rfc3339).
CalendarKeepsOrder ==
  form = "instant" =>
    LET day  == Total(text)
        span == {d \in day..(day + 366) : d < LastDay}
    IN  /\ CivilFromDays(0) = [year |-> 1970, month |-> 1, day |-> 1]
        /\ FormatTimestamp(-1, LastSecond) = FormatTimestamp(0, 0)
        /\ \A d \in span :
             /\ CivilFromDays(d + 1) = Tomorrow(CivilFromDays(d))
             /\ SortsBefore(FormatTimestamp(d, LastSecond), FormatTimestamp(d + 1, 0))
        /\ \A tod \in 0..(LastSecond - 1) :
             SortsBefore(FormatTimestamp(day, tod), FormatTimestamp(day, tod + 1))
=============================================================================
