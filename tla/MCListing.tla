------------------------------ MODULE MCListing ------------------------------
(* Listing for TLC: two shippers, up to three sites and two shipments.       *)
EXTENDS Listing

Site(s, id, name, lat, long) ==
  [shipper |-> Text(s), site |-> Text(id), display_name |-> Text(name),
   create_time |-> Text(1), update_time |-> Text(1), latitude |-> lat,
   longitude |-> long, state |-> Text(1)]

\* Three sites with equal and distinct names and latitudes, the second of
\* either of two contents; all with a position.
MCSiteRows ==
  { Site(1, 1, 1, Num(-1), Num(1)),
    Site(1, 2, 1, Num(-1), Num(1)), Site(1, 2, 2, Num(1), Num(0)),
    Site(2, 3, 1, Num(1), Num(0)) }

MCShipmentRows == {[shipper |-> Text(1), shipment |-> Text(k)] : k \in 1..2}

Req(method, parent, order, filter, show) ==
  [method |-> method, parent |-> parent, order_by |-> order, filter |-> filter,
   show_deleted |-> show]

By(column, desc) == [column |-> column, desc |-> desc]

MCRequests ==
  { Req("ListShippers", NoParent, <<>>, Null, FALSE),
    Req("ListShippers", NoParent, <<>>, Null, TRUE),
    Req("ListShipments", 1, <<>>, Null, FALSE),
    Req("ListSites", 1, <<>>, Null, FALSE),
    Req("ListSites", Wildcard, <<By("display_name", FALSE)>>, Null, FALSE),
    Req("ListSites", Wildcard, <<By("display_name", FALSE)>>, Text(1), FALSE),
    Req("ListSites", Wildcard, <<By("display_name", TRUE), By("latitude", FALSE)>>, Null, FALSE),
    Req("ListSites", Wildcard, <<By("latitude", TRUE)>>, Null, FALSE),
    Req("ListSites", Wildcard, <<By("state", FALSE)>>, Null, FALSE) }

\* The same listing by longitude, which `site_schema` makes sortable.
LongitudeRequests == { Req("ListSites", Wildcard, <<By("longitude", FALSE)>>, Null, FALSE) }

\* Rejected, unset, and above the maximum.
MCPageSizes == {-1, 0, 3}

MCLimits == [default |-> 1, max |-> 2]
==============================================================================
