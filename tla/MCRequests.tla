----------------------------- MODULE MCRequests -----------------------------
(* Requests for TLC: the three freight patterns and the pieces that reach    *)
(* every rule of the parsers.                                                *)
EXTENDS Messages, TLC

\* Words count as letters and "uuid" as digits.  The two longer UUIDs are the
\* braced form and the URN that Uuid::parse_str accepts as well.
MCLower == {"a", "b", "shippers", "shipper", "sites", "site", "shipments", "shipment", "svc", "user",
            "group", "domain", "roles", "projects", "organizations", "operations", "asc", "desc"}
MCUpper == {"A", "B", "ResourceName", "allUsers", "allAuthenticatedUsers", "serviceAccount",
            "SHIPPERS", "SHIPPER", "SITES", "SITE", "SHIPMENTS", "SHIPMENT", "SVC", "USER", "GROUP", "DOMAIN",
            "ROLES", "PROJECTS", "ORGANIZATIONS", "OPERATIONS", "ASC", "DESC"}
MCDigit == {"1", "uuid"}
MCUuids == {<<"uuid">>, <<"{", "uuid", "}">>, <<"urn", ":", "uuid">>}

Symbols(set) == {<<s>> : s \in set}
Slashed(set) == {<<"/">> \o s : s \in set}

NameSegmentsMC == { <<>>, <<"a">>, <<"-">>, <<"shippers">>, <<"sites">>, <<"shipments">>,
                    <<"{", "shipper", "}">>, <<"{", "}">>, <<"a", "@", "1">>, <<"a", "-", "1">> }

MCStarts ==
  [name       |-> { <<>>, <<"shippers">>, <<"/", "/", "svc">>, <<"/", "/">>, <<"/", "/", "svc", "/", "shippers">> },
   pattern    |-> { <<>>, <<"a">>, <<"{", "a", "}">>, <<"/", "/", "svc">>, <<"-">> },
   id         |-> { <<>>, <<"{", "uuid", "}">>, <<"urn", ":", "uuid">> },
   member     |-> { <<>> },
   role       |-> { <<>> },
   permission |-> { <<>> },
   operation  |-> { <<>>, <<"operations">>, <<"/", "/", "operations">>, <<"a">> },
   order_by   |-> { <<>> },
   resource_type |-> { <<>> },
   grammatical |-> { <<>> },
   mask       |-> { <<>> },
   schema     |-> { <<>> },
   instant    |-> { <<0>>, <<10957>>, <<47482>>, <<146097>>, <<2926600>> }]

\* Declarations in either file of the package.
PlainField(kind) == [kind |-> kind, list |-> FALSE, presence |-> "plain"]
Shaped(kind, presence, list) == [kind |-> kind, list |-> list, presence |-> presence]
NoFields         == [f \in {} |-> PlainField("String")]
Message(name, fields, resource, children) ==
  [name |-> name, fields |-> fields, resource |-> resource, entry |-> FALSE, children |-> children]
Entry            == [Message("Entry", NoFields, <<>>, <<>>) EXCEPT !.entry = TRUE]
Typed(type)      == <<"a", ".", "b", "/">> \o type
Resource(type, patterns) == [type |-> type, patterns |-> patterns]
ShipperPattern   == PatternText["Shipper"]
SitePattern      == PatternText["Site"]
DockPattern      == SitePattern \o <<"/", "a", "/", "{", "b", "}">>

MCDeclarations ==
  { [file |-> n, is |-> "definition", what |-> r] : n \in 1..2,
      r \in { Resource(Typed(<<"A">>), <<ShipperPattern>>), Resource(Typed(<<"A", "a">>), <<DockPattern>>),
              Resource(Typed(<<"a", "A">>), <<ShipperPattern, SitePattern>>), Resource(<<"A">>, <<ShipperPattern>>),
              Resource(Typed(<<"A", "1">>), << <<"a", "/", "-">> >>) } }
  \cup { [file |-> n, is |-> "message", what |-> m] : n \in 1..2,
      m \in { Message("Site", ("delete_time" :> Shaped("Timestamp", "optional", FALSE)),
                      <<Resource(Typed(<<"A", "A">>), <<SitePattern>>)>>, <<>>),
              Message("Type", ("delete_time" :> Shaped("Timestamp", "oneof", FALSE)), <<Resource(Typed(<<"A", "a", "A">>), <<>>)>>,
                      <<Entry, Message("Self", NoFields, <<>>, <<Message("Leaf", NoFields, <<>>, <<>>)>>)>>),
              Message("List", ("page_token" :> PlainField("String")) @@ ("page_size" :> PlainField("Int32"))
                              @@ ("skip" :> Shaped("Int32", "optional", FALSE)) @@ ("order_by" :> PlainField("String")), <<>>, <<>>),
              Message("Near", ("page_token" :> PlainField("String")) @@ ("page_size" :> Shaped("Int32", "plain", TRUE))
                              @@ ("skip" :> PlainField("Int32")) @@ ("delete_time" :> PlainField("Timestamp")), <<>>, <<>>) } }

Flag(key, value) == [key |-> key, value |-> value]
AllOn == << Flag("pagination", "true"), Flag("ordering", "true"), Flag("softdelete", "true"), Flag("reflect", "true"),
            Flag("reflect_descriptor_pool", "pool") >>
MCParameters ==
  { <<>>, AllOn, Append(AllOn, Flag("pagination", "false")), Append(AllOn, Flag("filtering", "true")),
    << Flag("reflect", "true") >>, << Flag("aip_crate", "aip"), Flag("softdelete", "yes") >> }
MCWanted  == { <<1>>, <<1, 2>>, <<2, 1>> }
MCUpperOf ==
  ("a" :> "A") @@ ("b" :> "B") @@ ("shippers" :> "SHIPPERS") @@ ("shipper" :> "SHIPPER") @@ ("sites" :> "SITES")
  @@ ("site" :> "SITE") @@ ("shipments" :> "SHIPMENTS") @@ ("shipment" :> "SHIPMENT") @@ ("svc" :> "SVC")
  @@ ("user" :> "USER") @@ ("group" :> "GROUP") @@ ("domain" :> "DOMAIN") @@ ("roles" :> "ROLES")
  @@ ("projects" :> "PROJECTS") @@ ("organizations" :> "ORGANIZATIONS") @@ ("operations" :> "OPERATIONS")
  @@ ("asc" :> "ASC") @@ ("desc" :> "DESC")
MCSnakeOf == ("Type" :> "type") @@ ("Self" :> "self") @@ ("Site" :> "site") @@ ("List" :> "list")
             @@ ("Near" :> "near") @@ ("Leaf" :> "leaf") @@ ("Entry" :> "entry")

MCPieces ==
  [name       |-> Slashed(NameSegmentsMC),
   pattern    |-> Slashed({ <<>>, <<"a">>, <<"-">>, <<"{", "a", "}">>, <<"{", "b", "1", "}">>, <<"{", "A", "}">>,
                            <<"{", "}">>, <<"{", "a">>, <<"a", ".">>, <<"a", ".", "b">> }),
   id         |-> Symbols({"a", "A", "1", "-", "uuid", "{", "_", "."}),
   member     |-> Symbols({"user", "group", "allUsers", "allAuthenticatedUsers", ":", "a"}),
   role       |-> { <<"roles", "/">>, <<"projects", "/">>, <<"organizations", "/">>, <<"/">>, <<"a">> },
   permission |-> Symbols({"a", "A", "1", ".", "-"}),
   operation  |-> Slashed({ <<>>, <<"operations">>, <<"a">>, <<"a", "1">>, <<"1">>, <<"-">>, <<"A">> }),
   order_by   |-> Symbols({"a", "asc", "desc", " ", ",", ".", "-"}),
   mask       |-> Symbols({ <<"*">>, <<"title">>, <<"reference">>, <<"position">>, <<"position", ".", "latitude">>,
                            <<"position", ".", "altitude">>, <<"create_time">>, <<"items">>,
                            <<"items", ".", "title">>, <<"unknown">>, <<"title", ".", "latitude">>, <<>>,
                            <<"pick">>, <<"place">>, <<"place", ".", "title">> }),
   resource_type |-> Symbols({"a", "A", "1", ".", "/", "-"}),
   grammatical |-> Symbols({"a", "A", "1", "-"}),
   schema     |-> Symbols(MCDeclarations),
   instant    |-> { <<366>>, <<1461>> }]

MCMaxPieces == [name |-> 4, pattern |-> 3, id |-> 4, member |-> 4, role |-> 6, permission |-> 6,
                operation |-> 4, order_by |-> 5, mask |-> 2,
                resource_type |-> 5, grammatical |-> 3, schema |-> 3, instant |-> 3]

\* A resource with a field of each shape and behavior, and a oneof.  create_time
\* and reference are optional on the wire, so that a request may hold their
\* default.
Field(shape, of, behaviors) == [shape |-> shape, of |-> of, behaviors |-> behaviors, oneof |-> "none"]
Either(of, behaviors) == [Field("singular", of, behaviors) EXCEPT !.oneof = "handling"]
MCDescriptor ==
  [Resource |-> [title       |-> Field("singular", "scalar", {"REQUIRED"}),
                 reference   |-> Field("singular", "scalar", {"IMMUTABLE"}),
                 create_time |-> Field("singular", "scalar", {"OUTPUT_ONLY"}),
                 position    |-> Field("singular", "Position", {"REQUIRED"}),
                 items       |-> Field("list", "Item", {}),
                 notes       |-> Field("map", "Item", {}),
                 pick        |-> Either("scalar", {}),
                 place       |-> Either("Item", {"IMMUTABLE"})],
   Position |-> [latitude |-> Field("singular", "scalar", {"REQUIRED"}),
                 altitude |-> Field("singular", "scalar", {"IMMUTABLE"})],
   Item     |-> [title     |-> Field("singular", "scalar", {"REQUIRED"}),
                 reference |-> Field("singular", "scalar", {"IMMUTABLE"})]]

Scalars(n) == { <<>>, <<n>> }
Position(lat, alt) == << [latitude |-> lat, altitude |-> alt] >>
Item(n) == [title |-> <<n>>, reference |-> <<n>>]

\* The oneof is unset, or holds a scalar or a message.
Handling(pick, place) == [pick |-> pick, place |-> place]
Alone(reference) == Handling(<<>>, <<>>) @@ [reference |-> reference]

\* A stored resource is complete but for the items; its create_time may be
\* missing, as a delete_time is.
MCStored ==
  { m @@ n : m \in [title : { <<1>> }, items : { <<Item(1)>> }, notes : { <<>> }, create_time : Scalars(1)],
             n \in { Alone(<<>>) @@ [position |-> Position(<<1>>, <<1>>)],
                    Handling(<<1>>, <<>>) @@ [reference |-> <<1>>, position |-> Position(<<1>>, <<>>)],
                    Handling(<<>>, <<Item(1)>>) @@ [reference |-> <<1>>, position |-> Position(<<1>>, <<1>>)] } }
MCIncoming ==
  { m @@ n @@ [position |-> position] :
      m \in { [title |-> <<>>, create_time |-> <<2>>, items |-> <<>>, notes |-> <<>>],
             [title |-> <<2>>, create_time |-> <<0>>, items |-> <<Item(1), Item(2)>>, notes |-> 2 :> Item(2)] },
      n \in { Alone(<<>>), Alone(<<0>>), Handling(<<2>>, <<>>) @@ [reference |-> <<1>>],
             Handling(<<>>, <<Item(1)>>) @@ [reference |-> <<1>>],
             Handling(<<>>, <<Item(2)>>) @@ [reference |-> <<2>>] },
      position \in { <<>>, Position(<<>>, <<2>>), Position(<<2>>, <<1>>) } }

MCIds == { <<"a">>, <<"b">>, <<"-">>, <<"a", "-", "1">>, <<"uuid">> }
=============================================================================
