----------------------------- MODULE MCFilters -----------------------------
(* Filters for TLC: the two descriptors, seven sites, three shipments and the *)
(* restrictions that reach each kind of field, literal and operator.          *)
EXTENDS Filters

One(kind, of) == [card |-> "one", kind |-> kind, of |-> of]
AString == One("String", "-")
Time    == One("Message", "Timestamp")
AMap    == [card |-> "map", kind |-> "Message", of |-> [key |-> AString, value |-> AString]]
AList   == [card |-> "list", kind |-> "String", of |-> "-"]

MCMessages ==
  [Site |-> (<<"display_name">> :> AString) @@ (<<"create_time">> :> Time)
            @@ (<<"delete_time">> :> Time) @@ (<<"update_time">> :> Time)
            @@ (<<"lat_lng">> :> One("Message", "LatLng")) @@ (<<"annotations">> :> AMap)
            @@ (<<"tags">> :> AList) @@ (<<"state">> :> One("Enum", "State")),
   LatLng |-> (<<"latitude">> :> One("Double", "-")) @@ (<<"longitude">> :> One("Double", "-")),
   Shipment |-> (<<"origin_site">> :> AString) @@ (<<"destination_site">> :> AString)
                @@ (<<"create_time">> :> Time) @@ (<<"delete_time">> :> Time) @@ (<<"annotations">> :> AMap)]

MCEnumNames == [State |-> << <<"STATE_UNSPECIFIED">>, <<"STATE_ACTIVE">>, <<"STATE_INACTIVE">> >>]

MCRank  == [c \in {"%", "A", "\\", "_", "a", "owner", "AND", "STATE_UNSPECIFIED", "STATE_ACTIVE",
                   "STATE_INACTIVE", "t0", "t1", "t2", "{"} |->
              CASE c = "%" -> 1 [] c = "A" -> 2 [] c = "\\" -> 4 [] c = "_" -> 5 [] c = "a" -> 6
                [] c = "owner" -> 7 [] c = "AND" -> 3 [] c = "STATE_ACTIVE" -> 8
                [] c = "STATE_INACTIVE" -> 9 [] c = "STATE_UNSPECIFIED" -> 10
                [] c = "t0" -> 11 [] c = "t1" -> 12 [] c = "t2" -> 13
                [] c = "{" -> 14]
MCLower == [c \in DOMAIN MCRank |-> IF c = "A" THEN "a" ELSE c]

ASite(shipper, name, state, tags, more) ==
  [shipper |-> <<shipper>>, id |-> <<"a">>,
   message |-> (<<"display_name">> :> name) @@ (<<"state">> :> state) @@ (<<"tags">> :> tags) @@ more]
At(latitude)   == <<"lat_lng">> :> ((<<"latitude">> :> latitude) @@ (<<"longitude">> :> <<0>>))
Notes(notes)   == <<"annotations">> :> notes
Created(t)     == <<"create_time">> :> t
Owner(text)    == <<"owner">> :> text
NoNotes        == [k \in {} |-> <<>>]

TheSites ==
  { ASite("A", <<"a", "A">>, 1, <<>>, At(<<20>>) @@ Notes(Owner(<<"a">>)) @@ Created(1)),
    ASite("A", <<"%", "a">>, 2, << <<"a">> >>, At(<<-23>>) @@ Notes(NoNotes) @@ Created(0)),
    ASite("A", <<"_", "\\">>, 0, << <<"A">>, <<"a">> >>, Notes(Owner(<<"A">>)) @@ Created(-1)),
    ASite("a", <<"\\">>, 2, <<>>, At(<<23>>) @@ Notes((<<"AND">> :> <<"a">>) @@ Owner(<<>>)) @@ Created(2)),
    ASite("a", <<>>, 5, <<>>, At(<<>>) @@ Notes(NoNotes) @@ Created(1)),
    ASite("a", <<"A", "%">>, 1, <<>>, At(<<0>>) @@ Notes(NoNotes)),
    ASite("A", <<"a">>, 1, << <<"a">> >>, At(<<20>>) @@ Notes(Owner(<<"a">>)) @@ Created(1)
                                         @@ (<<"delete_time">> :> 2)) }

Str(text) == Const(TString, text)
Is(f, left, right) == Call(<<f>>, <<left, right>>)
Name      == Ident(<<"display_name">>)
CreatedAt == Ident(<<"create_time">>)
State     == Ident(<<"state">>)
Latitude  == Select(Ident(<<"lat_lng">>), <<"latitude">>)
Note(key) == Select(Ident(<<"annotations">>), <<key>>)

Needles == SeqOf({"a", "A", "%", "_", "\\"}, 2)

SiteOperands == { Is(":", Name, Str(<<"a">>)), Is("<", Latitude, Numeral(TInt, 2)),
                Is("=", State, Ident(<<"STATE_ACTIVE">>)) }

SiteLeaves ==
  SiteOperands
  \cup {Is(":", Name, Str(needle)) : needle \in Needles}
  \cup {Is(f, Latitude, Numeral(TDouble, -23)) : f \in DOMAIN Mirror}
  \cup {Is(f, Numeral(TInt, 2), Latitude) : f \in DOMAIN Mirror}
  \cup {Is(f, Str(<<"a">>), Name) : f \in DOMAIN Mirror}
  \cup {Is(f, Name, Str(<<"a", "A">>)) : f \in DOMAIN Mirror}
  \cup {Is(f, CreatedAt, Call(<<"timestamp">>, <<Str(<<"t1">>)>>)) : f \in DOMAIN Mirror}
  \cup { Is(":", Note("owner"), Str(<<"a">>)), Is("!=", State, Ident(<<"STATE_INACTIVE">>)), Is("=", Str(<<"t0">>), CreatedAt),
         Is("<", CreatedAt, Str(<<"t1">>)), Is(":", CreatedAt, Str(<<"*">>)), Is(":", CreatedAt, Str(<<"a">>)),
         Is(":", Ident(<<"annotations">>), Str(<<"owner">>)), Is(":", Ident(<<"annotations">>), Str(<<"AND">>)),
         Is("=", Note("owner"), Str(<<"a">>)), Is("!=", Note("AND"), Str(<<"A">>)),
         Is("!=", Note("$"), Str(<<"a">>)), Is("=", Note("a$"), Str(<<"a">>)),
         Is("=", Select(Ident(<<"annotations">>), <<"$", ".", "owner">>), Str(<<"a">>)),
         Is("!=", Select(Ident(<<"annotations">>), <<"[", "a", "]">>), Str(<<"a">>)),
         Is(":", Ident(<<"tags">>), Str(<<"a">>)), Is(":", Ident(<<"tags">>), Str(<<"_">>)),
         Is("=", Name, State), Is("=", Latitude, Latitude), Is("=", Str(<<"a">>), Str(<<"a">>)),
         Is("<", Call(<<"duration">>, <<Str(<<"2", "s">>)>>), Call(<<"duration">>, <<Str(<<"a">>)>>)),
         Is("=", Ident(<<"update_time">>), Str(<<"t1">>)), Name }

AShipment(shipper, origin, destination, more) ==
  [shipper |-> <<shipper>>, id |-> <<"a">>,
   message |-> (<<"origin_site">> :> origin) @@ (<<"destination_site">> :> destination) @@ more]

TheShipments ==
  { AShipment("A", <<"a">>, <<"A">>, Created(1) @@ Notes(Owner(<<"a">>))),
    AShipment("a", <<"A">>, <<"%">>, Notes(NoNotes)),
    AShipment("A", <<"a">>, <<"a">>, Created(0) @@ Notes(NoNotes) @@ (<<"delete_time">> :> 2)) }

ShipmentOperands == { Is(":", Ident(<<"origin_site">>), Str(<<"a">>)),
                      Is("=", Ident(<<"destination_site">>), Str(<<"A">>)),
                      Is("<", CreatedAt, Str(<<"t1">>)) }

ShipmentLeaves == ShipmentOperands
                  \cup { Is(":", Ident(<<"annotations">>), Str(<<"owner">>)),
                         Is("!=", Note("owner"), Str(<<"A">>)), Is("=", Name, Str(<<"a">>)) }

MCOperands == [Site |-> SiteOperands, Shipment |-> ShipmentOperands]
MCLeaves   == [Site |-> SiteLeaves, Shipment |-> ShipmentLeaves]
MCStored   == [Site |-> TheSites, Shipment |-> TheShipments]

MCStyles == { [quote |-> "\"", not |-> <<"NOT", " ">>, bare |-> FALSE, space |-> TRUE],
              [quote |-> "'", not |-> <<"-">>, bare |-> TRUE, space |-> FALSE] }

MCParents == { <<>>, <<<<"A">>>>, <<<<"a">>>> }
=============================================================================
