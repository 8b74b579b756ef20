---------------------------- MODULE AccessProofs ----------------------------
(* The calls of Access for every set of names, callers, policies, requests   *)
(* and page sizes.  AccessInv is inductive; each property follows from it.   *)
(* Before them the aip-errordomain layer, for every service domain: what a   *)
(* client gets is what the layer makes of the response, frame by frame       *)
(* (FrameInv), and that is always under the service's own domain.            *)
EXTENDS Access, OrderProofs, SequenceTheorems, TLAPS

-----------------------------------------------------------------------------
(* The layer on every response.                                              *)

\* A detail as tonic writes one, and as the layer meets one that does not
\* decode: at most one ErrorInfo.
IsDetail(d) ==
  /\ d = [type |-> d.type, info |-> d.info]
  /\ \/ d.info = <<>>
     \/ d.info = <<[reason |-> d.info[1].reason, domain |-> d.info[1].domain, keys |-> d.info[1].keys]>>

IsHeader(h) ==
  \/ h = Absent
  \/ h = Garbled
  \/ \E details :
       /\ h = [is |-> "status", details |-> details]
       /\ \/ details = <<>>
          \/ \E a : details = <<a>> /\ IsDetail(a)
          \/ \E a, b : details = <<a, b>> /\ IsDetail(a) /\ IsDetail(b)

IsFrame(f) ==
  /\ f = [kind |-> f.kind, header |-> f.header]
  /\ IsHeader(f.header)
  /\ f.kind = "data" => f.header = Absent

\* From<Error> of every crate, and what the handlers raise: an ErrorInfo with
\* its fields, or nothing.
LEMMA RaisedShape ==
  ASSUME NEW raised \in Raised
  PROVE  \/ \E code, reason, domain, keys, fields : raised = Details(code, reason, domain, keys, fields)
         \/ \E code : raised = Bare(code)
<1>1. CASE \E crate \in DOMAIN Tables : \E e \in DOMAIN Tables[crate] : raised = FromError(crate, e, <<"field">>)
  <2>1. PICK row, fields : raised = ToStatus(row, fields)  BY <1>1 DEF FromError
  <2> QED  BY <2>1 DEF ToStatus
<1>2. CASE \E e \in DOMAIN FieldErrorTable : raised = FromFieldError(e, <<"parent">>)
  <2>1. PICK row, fields : raised = ToStatus(row, fields)  BY <1>2 DEF FromFieldError
  <2> QED  BY <2>1 DEF ToStatus
<1>3. CASE raised \in {Conflict, PermissionDenied, NotFoundViaParent(TRUE), FromUnknownIdentifier}
  BY <1>3 DEF Conflict, PermissionDenied, NotFoundViaParent, FromUnknownIdentifier
<1>4. CASE \E v : raised = FromValidator(v)
  BY <1>4 DEF FromValidator
<1>5. CASE raised = Details("InvalidArgument", "OTHER", ForeignDomain, {}, <<>>)
  BY <1>5
<1> QED  BY <1>1, <1>2, <1>3, <1>4, <1>5 DEF Raised

\* Short sequences put together.
LEMMA Joined == ASSUME NEW a, NEW b PROVE <<a>> \o <<>> = <<a>> /\ <<a>> \o <<b>> = <<a, b>>
<1>1. <<a>> \in Seq({a, b}) /\ <<b>> \in Seq({a, b}) /\ <<a, b>> \in Seq({a, b})  OBVIOUS
<1>2. <<a>> \o <<>> = <<a>>  BY <1>1, ConcatEmptySeq
<1>3. <<a>> \o <<b>> = <<a, b>>
  <2> DEFINE t == <<a>> \o <<b>>
  <2>1. /\ t \in Seq({a, b}) /\ Len(t) = Len(<<a>>) + Len(<<b>>)
        /\ \A i \in 1..(Len(<<a>>) + Len(<<b>>)) : t[i] = IF i <= Len(<<a>>) THEN <<a>>[i] ELSE <<b>>[i - Len(<<a>>)]
    BY <1>1, ConcatProperties, Zenon
  <2> HIDE DEF t
  <2>2. Len(t) = 2 /\ t[1] = a /\ t[2] = b  BY <2>1
  <2>3. t = <<a, b>>  BY <2>1, <2>2
  <2> QED  BY <2>3 DEF t
<1> QED  BY <1>2, <1>3

\* tonic writes at most two details: the ErrorInfo, then the BadRequest.
LEMMA EncodeShape == ASSUME NEW raised \in Raised PROVE IsHeader(Encode(raised))
<1> DEFINE Of(info)   == [type |-> "type.googleapis.com/google.rpc.ErrorInfo", info |-> <<info>>]
           Fields     == IF raised.fields = <<>> THEN <<>>
                         ELSE <<[type |-> "type.googleapis.com/google.rpc.BadRequest", info |-> <<>>]>>
           Infos0     == [i \in DOMAIN raised.info |-> Of(raised.info[i])]
<1>1. Encode(raised) = [is |-> "status", details |-> Infos0 \o Fields]  BY DEF Encode
<1>2. CASE \E code, reason, domain, keys, fields : raised = Details(code, reason, domain, keys, fields)
  <2>1. PICK info : /\ raised.info = <<info>>
                    /\ \E reason, domain, keys : info = [reason |-> reason, domain |-> domain, keys |-> keys]
    BY <1>2 DEF Details
  <2>2. Infos0 = <<Of(info)>>  BY <2>1
  <2>3. IsDetail(Of(info))  BY <2>1 DEF IsDetail
  <2>4. CASE Fields = <<>>
    <3>1. Infos0 \o Fields = <<Of(info)>>  BY <2>2, <2>4, Joined
    <3> QED  BY <1>1, <2>3, <3>1 DEF IsHeader
  <2>5. CASE Fields # <<>>
    <3> DEFINE bad == [type |-> "type.googleapis.com/google.rpc.BadRequest", info |-> <<>>]
    <3>1. Fields = <<bad>>  BY <2>5
    <3>2. IsDetail(bad)  BY DEF IsDetail
    <3>3. Infos0 \o Fields = <<Of(info), bad>>  BY <2>2, <3>1, Joined
    <3> QED  BY <1>1, <2>3, <3>2, <3>3 DEF IsHeader
  <2> QED  BY <2>4, <2>5
<1>3. CASE \E code : raised = Bare(code)
  <2>1. raised.info = <<>> /\ raised.fields = <<>>  BY <1>3 DEF Bare
  <2>2. Infos0 = <<>> /\ Fields = <<>>  BY <2>1
  <2>3. Infos0 \o Fields = <<>>  BY <2>2
  <2> QED  BY <1>1, <2>3 DEF IsHeader
<1> QED  BY <1>2, <1>3, RaisedShape

\* Every frame of a response has a header of that shape.
LEMMA ResponseShape ==
  ASSUME NEW r \in Response
  PROVE  \/ \E a : r = <<a>> /\ IsFrame(a)
         \/ \E a, b, c : r = <<a, b, c>> /\ IsFrame(a) /\ IsFrame(b) /\ IsFrame(c)
<1>1. ASSUME NEW h \in Errored \cup {Absent} PROVE IsHeader(h)
  <2>1. CASE h \in {Encode(raised) : raised \in Raised}  BY <2>1, EncodeShape
  <2>2. CASE h = [is |-> "status", details |-> <<[type |-> "google.rpc.ErrorInfo", info |-> <<>>]>>]
    <3> DEFINE a == [type |-> "google.rpc.ErrorInfo", info |-> <<>>]
    <3>1. IsDetail(a)  BY DEF IsDetail
    <3> QED  BY <2>2, <3>1 DEF IsHeader
  <2>3. CASE h \in {Absent, Garbled}  BY <2>3 DEF IsHeader
  <2> QED  BY <2>1, <2>2, <2>3 DEF Errored, Undecodable
<1>2. ASSUME NEW h, IsHeader(h) PROVE IsFrame(Headers(h)) /\ IsFrame(Trailers(h))
  BY <1>2 DEF IsFrame, Headers, Trailers
<1>3. IsFrame(Data)  BY DEF IsFrame, Data, IsHeader
<1> QED  BY <1>1, <1>2, <1>3 DEF Response

\* A detail that leaves the layer: the one that came, or the library's under
\* the service's domain.
LEMMA RewriteDetailFacts ==
  ASSUME NEW d, IsDetail(d)
  PROVE  LET e == RewriteDetail(d) IN
         /\ IsErrorInfo(e.type) /\ e.info # <<>> => e.info[1].domain # SENTINEL_DOMAIN
         /\ \/ e = d
            \/ /\ IsErrorInfo(d.type) /\ d.info # <<>> /\ d.info[1].domain = SENTINEL_DOMAIN
               /\ e = [d EXCEPT !.info[1].domain = SERVICE_DOMAIN]
<1>1. CASE IsErrorInfo(d.type) /\ d.info # <<>> /\ d.info[1].domain = SENTINEL_DOMAIN
  <2>1. /\ d = [type |-> d.type, info |-> d.info]
        /\ d.info = <<[reason |-> d.info[1].reason, domain |-> d.info[1].domain, keys |-> d.info[1].keys]>>
    BY <1>1 DEF IsDetail
  <2>2. RewriteDetail(d) = [d EXCEPT !.info[1].domain = SERVICE_DOMAIN]  BY <1>1 DEF RewriteDetail
  <2>3. [d EXCEPT !.info[1].domain = SERVICE_DOMAIN].info[1].domain = SERVICE_DOMAIN  BY <2>1
  <2> QED  BY <1>1, <2>2, <2>3, DomainAssumption
<1>2. CASE ~(IsErrorInfo(d.type) /\ d.info # <<>> /\ d.info[1].domain = SENTINEL_DOMAIN)
  BY <1>2 DEF RewriteDetail
<1> QED  BY <1>1, <1>2

\* A frame that leaves the layer, against the frame that came.
LEMMA PassFrameFacts == ASSUME NEW was, IsFrame(was) PROVE Passed(PassFrame(was), was)
<1> DEFINE got == PassFrame(was)
<1> DEFINE kind == was.kind
           header == was.header
<1>1. /\ was = [kind |-> kind, header |-> header] /\ IsHeader(header)
      /\ kind = "data" => header = Absent
  BY DEF IsFrame
<1>2. CASE header.is # "status"
  BY <1>1, <1>2 DEF Passed, PassFrame, RewriteDetails, Infos
<1>3. CASE header.is = "status"
  <2>1. PICK details : /\ header = [is |-> "status", details |-> details]
                       /\ DOMAIN details = 1..Len(details) /\ Len(details) \in Nat
                       /\ \A k \in DOMAIN details : IsDetail(details[k])
    <3>1. PICK details : /\ header = [is |-> "status", details |-> details]
                         /\ \/ details = <<>>
                            \/ \E a : details = <<a>> /\ IsDetail(a)
                            \/ \E a, b : details = <<a, b>> /\ IsDetail(a) /\ IsDetail(b)
      BY <1>1, <1>3 DEF IsHeader, Absent, Garbled
    <3>2. /\ DOMAIN details = 1..Len(details) /\ Len(details) \in Nat
          /\ \A k \in DOMAIN details : IsDetail(details[k])
      <4>1. CASE details = <<>>  BY <4>1
      <4>2. ASSUME NEW a, details = <<a>>, IsDetail(a) PROVE <3>2  BY <4>2
      <4>3. ASSUME NEW a, NEW b, details = <<a, b>>, IsDetail(a), IsDetail(b) PROVE <3>2  BY <4>3
      <4> QED  BY <3>1, <4>1, <4>2, <4>3
    <3> QED  BY <3>1, <3>2
  <2>2. got = [kind |-> kind, header |-> [is |-> "status", details |-> [k \in DOMAIN details |-> RewriteDetail(details[k])]]]
    <3> DEFINE rewritten == [k \in DOMAIN details |-> RewriteDetail(details[k])]
    <3>1. header.is = "status" /\ header.details = details  BY <2>1
    <3>2. RewriteDetails(header) = [header EXCEPT !.details = rewritten]  BY <3>1 DEF RewriteDetails
    <3>3. RewriteDetails(header) = [is |-> "status", details |-> rewritten]  BY <2>1, <3>2
    <3>4. kind # "data"  BY <1>1, <1>3 DEF Absent
    <3>5. got = [was EXCEPT !.header = RewriteDetails(header)]  BY <3>4 DEF PassFrame
    <3> HIDE DEF rewritten, got, kind, header
    <3>6. got = [kind |-> kind, header |-> RewriteDetails(header)]  BY <1>1, <3>5
    <3> QED  BY <3>3, <3>6 DEF rewritten
  <2>3. Len(got.header.details) = Len(details)  BY <2>1, <2>2
  <2>4. ASSUME NEW d \in Infos(got) PROVE d.info[1].domain # SENTINEL_DOMAIN
    <3>1. PICK k \in DOMAIN details : d = RewriteDetail(details[k])
      BY <2>1, <2>2, <2>4 DEF Infos, ToSet
    <3> QED  BY <2>1, <2>4, <3>1, RewriteDetailFacts DEF Infos
  <2>5. ASSUME NEW k \in DOMAIN details
        PROVE  \/ got.header.details[k] = details[k]
               \/ \E d \in Infos(was) :
                    /\ details[k] = d /\ d.info[1].domain = SENTINEL_DOMAIN
                    /\ got.header.details[k] = [d EXCEPT !.info[1].domain = SERVICE_DOMAIN]
    <3>1. got.header.details[k] = RewriteDetail(details[k]) /\ IsDetail(details[k])  BY <2>1, <2>2
    <3>2. CASE RewriteDetail(details[k]) # details[k]
      <4>1. details[k] \in Infos(was)
        BY <1>1, <2>1, <3>1, <3>2, RewriteDetailFacts DEF Infos, ToSet
      <4> QED  BY <3>1, <3>2, <4>1, RewriteDetailFacts
    <3> QED  BY <3>1, <3>2
  <2>6. got.kind = was.kind /\ got.header.is = was.header.is /\ was.header.details = details
    BY <1>1, <2>1, <2>2
  <2> HIDE DEF got
  <2>7. \A d \in Infos(got) : d.info[1].domain # SENTINEL_DOMAIN  BY <2>4
  <2> QED  BY <2>3, <2>5, <2>6, <2>7 DEF got, Passed
<1> QED  BY <1>2, <1>3

-----------------------------------------------------------------------------

\* The layer starts with nothing sent.
LEMMA FrameInit == InitResponses => FrameInv
<1> SUFFICES ASSUME InitResponses PROVE FrameInv  OBVIOUS
<1>1. response \in Response  BY DEF InitResponses, Response
<1>2. Len(response) = 3 /\ sent = <<>>  BY DEF InitResponses
<1> QED  BY <1>1, <1>2 DEF FrameInv

\* Polling a frame, and the next response.
LEMMA FrameStep == FrameInv /\ Respond => FrameInv'
<1> SUFFICES ASSUME FrameInv, Respond PROVE FrameInv'  OBVIOUS
<1>1. ASSUME NEW r \in Response PROVE Len(r) \in Nat
  <2>1. CASE \E a : r = <<a>>  BY <2>1
  <2>2. CASE \E a, b, c : r = <<a, b, c>>  BY <2>2
  <2> QED  BY <2>1, <2>2, ResponseShape
<1>2. CASE Poll
  <2> DEFINE n == Len(sent)
             frame == PassFrame(response[n + 1])
  <2>1. n \in Nat /\ n < Len(response) /\ Len(response) \in Nat  BY <1>1, <1>2 DEF Poll, FrameInv
  <2>2. sent' = Append(sent, frame) /\ response' = response  BY <1>2 DEF Poll
  <2>3. sent = [i \in 1..n |-> PassFrame(response[i])]  BY DEF FrameInv
  <2> HIDE DEF n, frame
  <2>4. sent' = [i \in 1..(n + 1) |-> PassFrame(response[i])]
    <3>1. sent' = [i \in 1..(n + 1) |-> IF i = n + 1 THEN frame ELSE sent[i]]  BY <2>1, <2>2, <2>3
    <3>2. ASSUME NEW i \in 1..(n + 1) PROVE (IF i = n + 1 THEN frame ELSE sent[i]) = PassFrame(response[i])
      BY <2>1, <2>3 DEF frame
    <3> QED  BY <3>1, <3>2
  <2>5. Len(sent') = n + 1  BY <2>1, <2>4
  <2> QED  BY <2>1, <2>2, <2>4, <2>5 DEF FrameInv
<1>3. CASE NextResponse
  <2>1. response' \in Response /\ sent' = <<>>  BY <1>3 DEF NextResponse
  <2>2. Len(response') \in Nat  BY <1>1, <2>1
  <2>3. sent' = [i \in 1..Len(sent') |-> PassFrame(response'[i])] /\ Len(sent') = 0  BY <2>1
  <2> QED  BY <2>1, <2>2, <2>3 DEF FrameInv, Response, Errored
<1> QED  BY <1>2, <1>3 DEF Respond

\* What was sent is under one domain.
LEMMA FrameImplies == FrameInv => OneDomain
<1> SUFFICES ASSUME FrameInv, NEW i \in DOMAIN sent PROVE Passed(sent[i], response[i])  BY DEF OneDomain
<1>1. sent[i] = PassFrame(response[i]) /\ i \in 1..Len(sent)  BY DEF FrameInv
<1>2. IsFrame(response[i])
  <2>1. CASE \E a : response = <<a>> /\ IsFrame(a)  BY <1>1, <2>1 DEF FrameInv
  <2>2. CASE \E a, b, c : response = <<a, b, c>> /\ IsFrame(a) /\ IsFrame(b) /\ IsFrame(c)
    BY <1>1, <2>2 DEF FrameInv
  <2> QED  BY <2>1, <2>2, ResponseShape DEF FrameInv
<1> QED  BY <1>1, <1>2, PassFrameFacts

-----------------------------------------------------------------------------
(* GetShipper.                                                               *)

\* What a call could read are truth values and rows, before a step and after.
LEMMA SeesType ==
  ASSUME TypeOK, NEW g, g.seen \in Seen
  PROVE  Sees(g) \in Seen /\ (shippers' \in [Shippers -> {"absent", "live", "deleted"}] => Sees(g)' \in Seen)
<1>1. ASSUME NEW a, NEW b PROVE Authorized(a, b) \in BOOLEAN /\ Authorized(a, b)' \in BOOLEAN
  BY DEF Authorized
<1>2. ASSUME NEW a PROVE ShipperRow(a) \in {"absent", "live", "deleted"}
  BY DEF TypeOK, ShipperRow, ParsesAsShipper
<1>3. ASSUME NEW a, shippers' \in [Shippers -> {"absent", "live", "deleted"}]
      PROVE  ShipperRow(a)' \in {"absent", "live", "deleted"}
  BY <1>3 DEF ShipperRow, ParsesAsShipper, Parse
<1> QED  BY <1>1, <1>2, <1>3 DEF Sees, Seen

\* The calls' types through the steps of a read.
LEMMA ReadType == TypeOK /\ Read /\ UNCHANGED <<creates, pages>> => TypeOK'
<1> SUFFICES ASSUME TypeOK, Read, UNCHANGED <<creates, pages>> PROVE TypeOK'  OBVIOUS
<1> USE DEF creates, pages
<1>0. NothingSeen \in Seen  BY DEF NothingSeen, Seen
<1>a. ASSUME Watched, shippers' \in [Shippers -> {"absent", "live", "deleted"}]
      PROVE  get' \in GetCall \cup {NoCall}
  <2>1. CASE get = NoCall  BY <1>a, <2>1 DEF Watched, TypeOK
  <2>2. CASE get # NoCall
    <3>1. PICK g \in {get} : get' = [g EXCEPT !.seen = Sees(g)']  BY <1>a, <2>2 DEF Watched
    <3>2. g \in GetCall  BY <2>2 DEF TypeOK
    <3>3. g.seen \in Seen  BY <3>2 DEF GetCall
    <3>4. Sees(g)' \in Seen  BY <1>a, <3>3, SeesType
    <3> QED  BY <3>1, <3>2, <3>4 DEF GetCall
  <2> QED  BY <2>1, <2>2
<1>1. ASSUME NEW name \in Names, NEW caller \in Callers \cup {Anonymous}, NEW show_deleted \in BOOLEAN,
             Begin(name, caller, show_deleted)
      PROVE  TypeOK'
  <2> DEFINE g == [pc |-> "gate", name |-> name, caller |-> caller, show_deleted |-> show_deleted, seen |-> NothingSeen]
  <2>1. g \in GetCall /\ g.seen \in Seen  BY <1>0 DEF GetCall
  <2>2. get' = [g EXCEPT !.seen = Sees(g)]  BY <1>1 DEF Begin
  <2> HIDE DEF g
  <2>3. get' \in GetCall  BY <2>1, <2>2, SeesType DEF GetCall
  <2> QED  BY <1>1, <2>3 DEF Begin, TypeOK
<1>2. CASE Gate  BY <1>2 DEF Gate, TypeOK, GetCall
<1>3. CASE Fetch  BY <1>3 DEF Fetch, Answer, TypeOK
<1>4. CASE Look  BY <1>4 DEF Look, Answer, TypeOK, GetCall
<1>5. CASE AskParent  BY <1>5 DEF AskParent, Answer, TypeOK
<1>6. ASSUME NEW resource \in DOMAIN policies, NEW policy \in Policies \cup {NoPolicy}, SetIamPolicy(resource, policy)
      PROVE  TypeOK'
  BY <1>6, <1>a DEF SetIamPolicy, TypeOK
<1>7. ASSUME NEW name \in Shippers, ChangeShipper(name) PROVE TypeOK'
  BY <1>7, <1>a DEF ChangeShipper, TypeOK
<1> QED  BY <1>1, <1>2, <1>3, <1>4, <1>5, <1>6, <1>7 DEF Read

\* Each change of a store adds what the call could read after it.
LEMMA WatchedReads == ASSUME TypeOK, get # NoCall, Reads(get), Watched PROVE Reads(get)'
<1>1. PICK g \in {get} : get' = [g EXCEPT !.seen = Sees(g)']  BY DEF Watched
<1>2. g \in GetCall  BY DEF TypeOK
<1>3. /\ get'.name = g.name /\ get'.caller = g.caller /\ get'.show_deleted = g.show_deleted
      /\ get'.pc = g.pc /\ get'.seen = Sees(g)'
  BY <1>1, <1>2 DEF GetCall
<1>4. /\ Sees(g)'.authorized = g.seen.authorized \cup {Authorized(g.caller, g.name)'}
      /\ Sees(g)'.parent = g.seen.parent \cup {Authorized(g.caller, Collection)'}
      /\ Sees(g)'.row = g.seen.row \cup {ShipperRow(g.name)'}
  BY DEF Sees
<1>5. /\ Authorized(g.caller, g.name)' \in get'.seen.authorized
      /\ Authorized(g.caller, Collection)' \in get'.seen.parent
      /\ ShipperRow(g.name)' \in get'.seen.row
  BY <1>3, <1>4
<1>6. /\ Authorized(get.caller, get.name)' = Authorized(g.caller, g.name)'
      /\ Authorized(get.caller, Collection)' = Authorized(g.caller, Collection)'
      /\ ShipperRow(get.name)' = ShipperRow(g.name)'
  BY <1>3 DEF Authorized, ShipperRow, ParsesAsShipper, Parse, GrantAdmits
<1>7. /\ get'.pc = "fetch" => TRUE \in get'.seen.authorized
      /\ get'.pc \in {"look", "parent"} => FALSE \in get'.seen.authorized
      /\ get'.pc = "parent" => \E r \in get'.seen.row : ~IsVisible(r, get'.show_deleted)
  BY <1>3, <1>4 DEF Reads
<1> QED  BY <1>5, <1>6, <1>7 DEF Reads, IsVisible

\* A call begins with what it could read then, and goes the way it read.
LEMMA ReadGate == TypeOK /\ GateInv /\ workload = "read" /\ Read /\ UNCHANGED workload => GateInv'
<1> SUFFICES ASSUME TypeOK, GateInv, workload = "read", Read, UNCHANGED workload PROVE GateInv'  OBVIOUS
<1>1. ASSUME NEW name \in Names, NEW caller \in Callers \cup {Anonymous}, NEW show_deleted \in BOOLEAN,
             Begin(name, caller, show_deleted)
      PROVE  GateInv'
  <2> DEFINE g == [pc |-> "gate", name |-> name, caller |-> caller, show_deleted |-> show_deleted, seen |-> NothingSeen]
  <2>1. get' = [g EXCEPT !.seen = Sees(g)] /\ UNCHANGED <<shippers, policies>>  BY <1>1 DEF Begin
  <2>2. /\ get'.name = name /\ get'.caller = caller /\ get'.show_deleted = show_deleted
        /\ get'.pc = "gate" /\ get'.seen = Sees(g)
    BY <2>1
  <2>3. /\ Sees(g).authorized = {Authorized(caller, name)}
        /\ Sees(g).parent = {Authorized(caller, Collection)}
        /\ Sees(g).row = {ShipperRow(name)}
    BY DEF Sees, NothingSeen
  <2>4. /\ Authorized(get.caller, get.name)' = Authorized(caller, name)
        /\ Authorized(get.caller, Collection)' = Authorized(caller, Collection)
        /\ ShipperRow(get.name)' = ShipperRow(name)
    BY <2>1, <2>2 DEF Authorized, ShipperRow, ParsesAsShipper, Parse, GrantAdmits
  <2> QED  BY <2>2, <2>3, <2>4 DEF Reads, GateInv
<1>2. CASE Gate \/ (Look /\ get' # NoCall)
  <2>1. get # NoCall /\ get \in GetCall /\ Reads(get)  BY <1>2 DEF Gate, Look, TypeOK, GateInv
  <2>2. /\ UNCHANGED <<shippers, policies>>
        /\ get'.name = get.name /\ get'.caller = get.caller /\ get'.show_deleted = get.show_deleted
        /\ get'.seen = get.seen
    BY <1>2, <2>1 DEF Gate, Look, GetCall, Answer
  <2>3. /\ Authorized(get.caller, get.name)' = Authorized(get.caller, get.name)
        /\ Authorized(get.caller, Collection)' = Authorized(get.caller, Collection)
        /\ ShipperRow(get.name)' = ShipperRow(get.name)
    BY <2>2 DEF Authorized, ShipperRow, ParsesAsShipper, Parse, GrantAdmits
  <2>4. Authorized(get.caller, get.name) \in BOOLEAN  BY DEF Authorized
  <2>5. /\ get'.pc = "fetch" => TRUE \in get'.seen.authorized
        /\ get'.pc \in {"look", "parent"} => FALSE \in get'.seen.authorized
        /\ get'.pc = "parent" => \E r \in get'.seen.row : ~IsVisible(r, get'.show_deleted)
    <3>1. CASE Gate
      <4>1. get'.pc = IF Authorized(get.caller, get.name) THEN "fetch" ELSE "look"
        BY <2>1, <3>1 DEF Gate, GetCall
      <4> QED  BY <2>1, <2>2, <2>4, <4>1 DEF Reads
    <3>2. CASE Look /\ get' # NoCall
      <4>1. get.pc = "look" /\ get'.pc = "parent" /\ ~IsVisible(ShipperRow(get.name), get.show_deleted)
        BY <2>1, <3>2 DEF Look, Answer, GetCall
      <4> QED  BY <2>1, <2>2, <2>4, <4>1 DEF Reads
    <3> QED  BY <1>2, <3>1, <3>2
  <2> QED  BY <2>1, <2>2, <2>3, <2>5 DEF GateInv, Reads, IsVisible
<1>3. CASE get' = NoCall  BY <1>3 DEF GateInv
<1>4. CASE Watched
  BY <1>3, <1>4, WatchedReads DEF GateInv, Watched
<1> QED
  BY <1>1, <1>2, <1>3, <1>4 DEF Read, Fetch, AskParent, Answer, SetIamPolicy, ChangeShipper

\* The codes of what get_shipper answers.
LEMMA GetCodes ==
  /\ \A code : Bare(code).code = code
  /\ FromFieldError("PatternMismatch", <<"name">>).code = "InvalidArgument"
  /\ FromError("softdelete", "Deleted", <<"name">>).code = "NotFound"
  /\ PermissionDenied.code = "PermissionDenied"
  /\ NotFoundViaParent(TRUE).code = "NotFound" /\ NotFoundViaParent(FALSE).code = "PermissionDenied"
<1>1. \A code : Bare(code).code = code  BY DEF Bare
<1>2. FieldErrorTable["PatternMismatch"].code = "InvalidArgument"  BY DEF FieldErrorTable, Invalid, Row
<1>3. Tables["softdelete"] = SoftDeleteTable  BY DEF Tables
<1>4. SoftDeleteTable["Deleted"].code = "NotFound"  BY DEF SoftDeleteTable, Invalid, Row
<1>5. \A row, fields : ToStatus(row, fields).code = row.code  BY DEF ToStatus, Details
<1>6. PermissionDenied.code = "PermissionDenied"  BY DEF PermissionDenied, Details
<1>7. NotFoundViaParent(TRUE).code = "NotFound"  BY DEF NotFoundViaParent, Details
<1>8. NotFoundViaParent(FALSE).code = "PermissionDenied"  BY <1>6 DEF NotFoundViaParent
<1> QED  BY <1>1, <1>2, <1>3, <1>4, <1>5, <1>6, <1>7, <1>8 DEF FromFieldError, FromError

\* The answer of GetShipper is AIP-211's for something the call could have read.
LEMMA ReadAnswer == TypeOK /\ GateInv /\ Read => GetWasTrue
<1> DEFINE Malformed == FromFieldError("PatternMismatch", <<"name">>)
           Hidden    == FromError("softdelete", "Deleted", <<"name">>)
<1> SUFFICES ASSUME TypeOK, GateInv, Read, get # NoCall, get' = NoCall
             PROVE  \/ ~ParsesAsShipper(get.name) /\ TRUE \in get.seen.authorized /\ status' = Malformed
                    \/ \E a \in get.seen.authorized, r \in get.seen.row, p \in get.seen.parent :
                         status' = Disclosed(a, r, get.show_deleted, p)
  BY DEF GetWasTrue
<1>1. get \in GetCall /\ Reads(get)  BY DEF TypeOK, GateInv
<1> DEFINE parent == Authorized(get.caller, Collection)
           row == ShipperRow(get.name)
           shown == get.show_deleted
<1>2. parent \in BOOLEAN /\ shown \in BOOLEAN /\ row \in {"absent", "live", "deleted"}
  BY <1>1 DEF Authorized, GetCall, ShipperRow, ParsesAsShipper, TypeOK
<1>3. CASE Fetch
  <2>1. TRUE \in get.seen.authorized /\ row \in get.seen.row /\ parent \in get.seen.parent
    BY <1>1, <1>3 DEF Fetch, Reads
  <2>2. CASE ~ParsesAsShipper(get.name)
    <3>1. status' = Malformed  BY <1>3, <2>2 DEF Fetch, Answer, ShipperRow
    <3> QED  BY <2>1, <2>2, <3>1
  <2>3. CASE ParsesAsShipper(get.name)
    <3> HIDE DEF Hidden, Malformed
    <3>1. status' = IF row = "absent" THEN Bare("NotFound")
                    ELSE IF row = "deleted" /\ ~shown THEN Hidden ELSE Bare("Ok")
      BY <1>2, <1>3, <2>3 DEF Fetch, Answer, Hidden, Malformed
    <3>2. Disclosed(TRUE, row, shown, parent) = IF row = "absent" THEN Bare("NotFound")
                                                ELSE IF row = "deleted" /\ ~shown THEN Hidden ELSE Bare("Ok")
      BY <1>2 DEF Disclosed, IsVisible, Hidden
    <3> HIDE DEF row, parent, shown
    <3>3. status' = Disclosed(TRUE, row, shown, parent)  BY <3>1, <3>2
    <3> QED  BY <2>1, <3>3 DEF shown
  <2> QED  BY <2>2, <2>3
<1>4. CASE Look
  <2>1. FALSE \in get.seen.authorized /\ row \in get.seen.row /\ parent \in get.seen.parent
    BY <1>1, <1>4 DEF Look, Reads
  <2>2. status' = PermissionDenied /\ IsVisible(row, shown)
    BY <1>1, <1>4, NoCallAssumption DEF Look, Answer, GetCall
  <2>3. Disclosed(FALSE, row, shown, parent) = PermissionDenied  BY <2>2 DEF Disclosed
  <2> QED  BY <2>1, <2>2, <2>3
<1>5. CASE AskParent
  <2>1. FALSE \in get.seen.authorized /\ parent \in get.seen.parent
    BY <1>1, <1>5 DEF AskParent, Reads
  <2>2. PICK r \in get.seen.row : ~IsVisible(r, shown)  BY <1>1, <1>5 DEF AskParent, Reads
  <2>3. status' = NotFoundViaParent(parent)  BY <1>5 DEF AskParent, Answer
  <2>4. Disclosed(FALSE, r, shown, parent) = NotFoundViaParent(parent)
    BY <1>2, <2>2 DEF Disclosed, NotFoundViaParent
  <2> QED  BY <2>1, <2>2, <2>3, <2>4
<1>6. ~Gate
  BY <1>1, NoCallAssumption DEF Gate, GetCall
<1>7. ~Watched
  <2> SUFFICES ASSUME Watched PROVE FALSE  OBVIOUS
  <2>1. PICK g \in {get} : get' = [g EXCEPT !.seen = Sees(g)']  BY DEF Watched
  <2>2. g.seen \in Seen  BY <1>1 DEF GetCall
  <2>3. shippers' \in [Shippers -> {"absent", "live", "deleted"}]
    BY DEF Read, Begin, Gate, Fetch, Look, AskParent, Answer, SetIamPolicy, ChangeShipper, TypeOK
  <2>4. [g EXCEPT !.seen = Sees(g)'] \in GetCall  BY <1>1, <2>2, <2>3, SeesType DEF GetCall
  <2> QED  BY <2>1, <2>4, NoCallAssumption
<1> QED  BY <1>3, <1>4, <1>5, <1>6, <1>7 DEF Read, Begin, SetIamPolicy, ChangeShipper

-----------------------------------------------------------------------------
(* CreateSite, CreateShipment and BatchGetSites.                             *)

\* A soft delete and its reverse, as the creates see them.
Toggle(name) ==
  /\ shippers' = [shippers EXCEPT ![name] = IF @ = "live" THEN "deleted" ELSE "live"]
  /\ UNCHANGED <<status, rows, idempotency, call, created>>

\* The name that a batch reads next, and the sequence of its sites.
LEMMA BatchFacts ==
  ASSUME NEW b \in BatchCall
  PROVE  /\ b.pc = "batch" /\ Len(b.names) = 2 /\ DOMAIN b.names = {1, 2} /\ \A i \in {1, 2} : b.names[i] \in SiteNames
         /\ b.sites \in Seq(Child) /\ Len(b.sites) \in Nat
BY DEF BatchCall

\* The types through the steps of the creates and the batch reads.
LEMMA CreateType == TypeOK /\ Create /\ UNCHANGED <<reads, pages>> => TypeOK'
<1> SUFFICES ASSUME TypeOK, Create, UNCHANGED <<reads, pages>> PROVE TypeOK'  OBVIOUS
<1> USE DEF reads, pages
<1>1. ASSUME NEW c \in Calls, NEW r \in Request, CreateReplay(c, r) PROVE TypeOK'
  <2>1. r.id \in RequestIds /\ idempotency[r.id] # NoCall
    BY <1>1 DEF CreateReplay, Outcome, Recorded, Request
  <2>2. idempotency[r.id] \in Made  BY <2>1 DEF TypeOK
  <2>3. created' \in Made  BY <1>1, <2>2 DEF CreateReplay, Reply, Made
  <2> QED  BY <1>1, <2>3 DEF CreateReplay, TypeOK
<1>2. ASSUME NEW c \in Calls, NEW r \in Request, CreateLookup(c, r) PROVE TypeOK'
  BY <1>2 DEF CreateLookup, TypeOK, LookedUp
<1>3. ASSUME NEW c \in Calls, NEW r \in Request, CreateRejected(c, r) PROVE TypeOK'
  BY <1>3 DEF CreateRejected, Reply, TypeOK
<1>4. ASSUME NEW c \in Calls, NEW id \in Ids, RequireShipper(c, id) PROVE TypeOK'
  <2>1. call[c] \in LookedUp  BY <1>4 DEF RequireShipper, Idle, TypeOK, Creating, BatchCall
  <2> DEFINE r == call[c].request
             x == [pc |-> "put", request |-> r, row |-> ChildRow(r, id)]
  <2>2. r \in Request  BY <2>1 DEF LookedUp
  <2>3. ChildRow(r, id) \in Child
    <3>1. Parse(r.parent) \in Names  BY <2>2, AccessAssumption DEF Request, Names, Parse
    <3> QED  BY <2>2, <3>1 DEF ChildRow, Child, Request
  <2>4. x \in Creating  BY <2>2, <2>3 DEF Creating
  <2>5. /\ UNCHANGED <<shippers, rows, idempotency>>
        /\ \/ call' = [call EXCEPT ![c] = x] /\ created' = created
           \/ call' = [call EXCEPT ![c] = NoCall] /\ created' = NoCall
    BY <1>4 DEF RequireShipper, Reply
  <2> HIDE DEF x, r
  <2> QED  BY <2>4, <2>5 DEF TypeOK
<1>5. ASSUME NEW c \in Calls, Put(c) PROVE TypeOK'
  <2>1. call[c] \in Creating  BY <1>5 DEF Put, Idle, TypeOK, LookedUp, BatchCall
  <2>2. [call[c] EXCEPT !.pc = "record"] \in Creating /\ call[c].row \in Child  BY <2>1 DEF Creating
  <2>3. call' = [call EXCEPT ![c] = [call[c] EXCEPT !.pc = "record"]]  BY <1>5 DEF Put
  <2> QED  BY <1>5, <2>2, <2>3 DEF Put, TypeOK
<1>6. ASSUME NEW c \in Calls, Record(c) PROVE TypeOK'
  <2>1. call[c] \in Creating  BY <1>6 DEF Record, Idle, TypeOK, LookedUp, BatchCall
  <2> DEFINE m == [request |-> call[c].request, row |-> call[c].row]
  <2>2. m \in Made  BY <2>1 DEF Creating, Made
  <2>3. created' = m /\ (idempotency' = idempotency \/ idempotency' = [idempotency EXCEPT ![call[c].request.id] = m])
    BY <1>6 DEF Record, Reply, Remember
  <2> HIDE DEF m
  <2> QED  BY <1>6, <2>2, <2>3 DEF Record, TypeOK
<1>7. ASSUME NEW c \in Calls, NEW names \in Batches, NEW parent \in Names \cup {NoText},
             BatchBegin(c, names, parent)
      PROVE  TypeOK'
  <2> DEFINE x == [pc |-> "batch", names |-> names, parent |-> parent, sites |-> <<>>,
                   absent |-> {i \in DOMAIN names : GetSite(names[i]) = {}}]
  <2>1. x \in BatchCall  BY BatchesAssumption DEF BatchCall
  <2>2. call' = [call EXCEPT ![c] = x]  BY <1>7 DEF BatchBegin
  <2> HIDE DEF x
  <2> QED  BY <1>7, <2>1, <2>2 DEF BatchBegin, TypeOK
<1>8. ASSUME NEW c \in Calls, BatchStep(c) PROVE TypeOK'
  <2> DEFINE b == call[c]
             site == GetSite(b.names[Len(b.sites) + 1])
             found == CHOOSE s \in site : TRUE
             x == [b EXCEPT !.sites = Append(b.sites, found)]
  <2>1. b \in BatchCall  BY <1>8 DEF BatchStep, Idle, TypeOK, LookedUp, Creating
  <2>2. site # {} => found \in Child  BY DEF GetSite, TypeOK
  <2>3. site # {} => x \in BatchCall
    <3> HIDE DEF b, site, found
    <3>1. ASSUME site # {} PROVE Append(b.sites, found) \in Seq(Child)  BY <2>1, <2>2, <3>1, BatchFacts
    <3> QED  BY <2>1, <3>1 DEF BatchCall
  <2>4. /\ UNCHANGED <<shippers, rows, idempotency>>
        /\ \/ site # {} /\ call' = [call EXCEPT ![c] = x] /\ created' = created
           \/ call' = [call EXCEPT ![c] = NoCall] /\ created' = NoCall
    BY <1>8 DEF BatchStep, Reply
  <2> HIDE DEF x, site, b
  <2> QED  BY <2>3, <2>4 DEF TypeOK
<1>9. ASSUME NEW c \in Calls, BatchAnswer(c) PROVE TypeOK'
  BY <1>9 DEF BatchAnswer, Reply, TypeOK
<1>10. ASSUME NEW name \in Shippers, Toggle(name) PROVE TypeOK'
  BY <1>10 DEF Toggle, TypeOK
<1> QED  BY <1>1, <1>2, <1>3, <1>4, <1>5, <1>6, <1>7, <1>8, <1>9, <1>10 DEF Create, Toggle

\* The name that a text parses to has the row of that text.
LEMMA ParsedRow == ASSUME NEW n, ShipperRow(n) # "absent" PROVE ShipperRow(Parse(n)) # "absent"
BY AccessAssumption DEF ShipperRow, ParsesAsShipper, Parse

\* No row leaves a table.
Grows == rows \subseteq rows' /\ \A n \in Shippers : shippers[n] # "absent" => shippers'[n] # "absent"

\* ... so what was stored stays stored.
LEMMA GrowsKeeps ==
  ASSUME Grows
  PROVE  /\ \A m : Fits(m) => Fits(m)'
         /\ \A m : Backed(m) => Backed(m)'
         /\ \A x \in LookedUp \cup Creating \cup BatchCall : Sound(x) => Sound(x)'
<1>1. \A n : ShipperRow(n) # "absent" => ShipperRow(n)' # "absent"  BY DEF Grows, ShipperRow, ParsesAsShipper, Parse
<1>2. \A m : Fits(m) => Fits(m)'  BY <1>1 DEF Fits
<1>3. \A m : Backed(m) => Backed(m)'  BY <1>2 DEF Backed, Grows
<1>4. \A n : GetSite(n) \subseteq GetSite(n)'  BY DEF GetSite, Grows
<1>5. ASSUME NEW x \in BatchCall, BatchInv(x) PROVE BatchInv(x)'
  BY <1>4, <1>5 DEF BatchInv
<1>6. ASSUME NEW x \in LookedUp \cup Creating \cup BatchCall, Sound(x) PROVE Sound(x)'
  <2>1. CASE x \in BatchCall  BY <1>2, <1>3, <1>5, <1>6, <2>1 DEF Sound
  <2>2. CASE x \in LookedUp \cup Creating
    <3>1. x.pc # "batch"  BY <2>2 DEF LookedUp, Creating
    <3> QED  BY <1>2, <1>3, <1>6, <3>1 DEF Sound
  <2> QED  BY <2>1, <2>2
<1> QED  BY <1>2, <1>3, <1>6

\* A step that changes at most one call, one answer and one record.
LEMMA StoredStep ==
  ASSUME TypeOK, StoredInv, Grows,
         NEW c \in Calls, NEW x, call' = [call EXCEPT ![c] = x], x # NoCall => Sound(x)',
         NEW made, created' = made, made # NoCall => Backed(made)',
         NEW again, \A i \in RequestIds : idempotency'[i] \in {idempotency[i], again}, again # NoCall => Backed(again)'
  PROVE  StoredInv'
<1>1. created' # NoCall => Backed(created)'
  BY DEF Backed, Fits, ShipperRow, ParsesAsShipper, Parse
<1>2. ASSUME NEW i \in RequestIds, idempotency'[i] # NoCall PROVE Backed(idempotency[i])'
  <2>1. PICK m : m = idempotency'[i]  OBVIOUS
  <2>2. Backed(m)'  BY <1>2, <2>1, GrowsKeeps DEF StoredInv
  <2> QED  BY <2>1, <2>2 DEF Backed, Fits, ShipperRow, ParsesAsShipper, Parse
<1>3. ASSUME NEW d \in Calls, call'[d] # NoCall PROVE Sound(call[d])'
  <2>1. PICK y : y = call'[d]  OBVIOUS
  <2>2. Sound(y)'
    <3>1. CASE d = c  BY <1>3, <2>1, <3>1 DEF TypeOK
    <3>2. CASE d # c
      <4>1. y = call[d]  BY <2>1, <3>2 DEF TypeOK
      <4>2. y \in LookedUp \cup Creating \cup BatchCall /\ Sound(y)
        BY <1>3, <2>1, <4>1 DEF TypeOK, StoredInv, Idle
      <4> QED  BY <4>2, GrowsKeeps
    <3> QED  BY <3>1, <3>2
  <2> QED  BY <2>1, <2>2 DEF Sound, Backed, Fits, BatchInv, GetSite, ShipperRow, ParsesAsShipper, Parse
<1> QED  BY <1>1, <1>2, <1>3 DEF StoredInv, Idle

\* A step of the shippers, or of another client.
LEMMA StoredUnchanged == ASSUME TypeOK, StoredInv, Grows, UNCHANGED creates PROVE StoredInv'
<1>1. UNCHANGED <<idempotency, call, created>>  BY DEF creates
<1>2. created' # NoCall => Backed(created)'
  <2>1. PICK m : m = created  OBVIOUS
  <2> QED  BY <1>1, <2>1, GrowsKeeps DEF StoredInv, Backed, Fits, ShipperRow, ParsesAsShipper, Parse
<1>3. ASSUME NEW i \in RequestIds, idempotency'[i] # NoCall PROVE Backed(idempotency[i])'
  <2>1. PICK m : m = idempotency[i]  OBVIOUS
  <2>2. Backed(m)'  BY <1>1, <1>3, <2>1, GrowsKeeps DEF StoredInv
  <2> QED  BY <1>1, <2>1, <2>2 DEF Backed, Fits, ShipperRow, ParsesAsShipper, Parse
<1>4. ASSUME NEW d \in Calls, call'[d] # NoCall PROVE Sound(call[d])'
  <2>1. PICK y : y = call[d]  OBVIOUS
  <2>2. y \in LookedUp \cup Creating \cup BatchCall /\ Sound(y)
    BY <1>1, <1>4, <2>1 DEF TypeOK, StoredInv, Idle
  <2>3. Sound(y)'  BY <2>2, GrowsKeeps
  <2> QED  BY <1>1, <2>1, <2>3 DEF Sound, Backed, Fits, BatchInv, GetSite, ShipperRow, ParsesAsShipper, Parse
<1> QED  BY <1>2, <1>3, <1>4 DEF StoredInv, Idle

\* The next site of a batch.
LEMMA BatchStepFacts ==
  ASSUME TypeOK, StoredInv, NEW c \in Calls, BatchStep(c)
  PROVE  /\ call[c] \in BatchCall /\ BatchInv(call[c])
         /\ Len(call[c].sites) \in {0, 1}
         /\ \/ \E x \in BatchCall : call' = [call EXCEPT ![c] = x] /\ Sound(x) /\ created' = created
            \/ /\ call' = [call EXCEPT ![c] = NoCall] /\ created' = NoCall
               /\ \/ status' = Bare("NotFound") /\ GetSite(call[c].names[Len(call[c].sites) + 1]) = {}
                  \/ status' \in {FromFieldError("PatternMismatch", <<"names">>), Bare("InvalidArgument")}
<1> DEFINE b == call[c]
           k == Len(b.sites) + 1
           name == b.names[k]
           site == GetSite(name)
           found == CHOOSE s \in site : TRUE
           x == [b EXCEPT !.sites = Append(b.sites, found)]
           good == ParsesAsShipper(name.parent) /\ b.parent \in {NoText, Parse(name.parent)} /\ site # {}
<1>1. b \in BatchCall  BY DEF BatchStep, Idle, TypeOK, LookedUp, Creating
<1>2. BatchInv(b)  BY DEF BatchStep, StoredInv, Sound
<1>3. /\ Len(b.names) = 2 /\ Len(b.sites) \in Nat /\ Len(b.sites) < Len(b.names) /\ b.sites \in Seq(Child)
  BY <1>1, BatchFacts DEF BatchStep
<1>4. k \in {1, 2} /\ Len(b.sites) \in {0, 1}
  <2>1. \A n \in Nat : n < 2 => n \in {0, 1} /\ n + 1 \in {1, 2}  OBVIOUS
  <2> QED  BY <1>3, <2>1
<1>5. CASE good
  <2>1. call' = [call EXCEPT ![c] = x] /\ created' = created  BY <1>5 DEF BatchStep
  <2>2. found \in site /\ found \in Child  BY <1>5 DEF GetSite, TypeOK
  <2>3. b.parent \in {NoText, Parse(name.parent)}  BY <1>5
  <2> DEFINE sites == Append(b.sites, found)
  <2> HIDE DEF found, site, name, k, b, good
  <2>4. sites \in Seq(Child) /\ Len(sites) = k /\ sites[k] = found /\ \A i \in 1..Len(b.sites) : sites[i] = b.sites[i]
    BY <1>3, <2>2, AppendProperties DEF k
  <2> HIDE DEF sites
  <2>5. x \in BatchCall /\ x.names = b.names /\ x.parent = b.parent /\ x.sites = sites /\ x.absent = b.absent /\ x.pc = "batch"
    BY <1>1, <2>4 DEF BatchCall, sites
  <2> HIDE DEF x
  <2>6. ASSUME NEW i \in 1..Len(x.sites)
        PROVE  x.sites[i] \in GetSite(x.names[i]) /\ x.parent \in {NoText, Parse(x.names[i].parent)}
    <3>1. CASE i = k  BY <2>2, <2>3, <2>4, <2>5, <3>1 DEF name, site
    <3>2. CASE i # k
      <4>1. i \in 1..Len(b.sites)  BY <1>3, <2>4, <2>5, <3>2 DEF k
      <4> QED  BY <1>2, <2>4, <2>5, <4>1 DEF BatchInv
    <3> QED  BY <3>1, <3>2
  <2>7. BatchInv(x)  BY <1>2, <1>4, <2>4, <2>5, <2>6 DEF BatchInv
  <2>8. Sound(x)  BY <2>5, <2>7 DEF Sound
  <2> QED  BY <1>1, <1>2, <1>4, <2>1, <2>5, <2>8 DEF b
<1>6. CASE ~good
  <2>1. call' = [call EXCEPT ![c] = NoCall] /\ created' = NoCall  BY <1>6 DEF BatchStep, Reply
  <2>2. \/ status' = Bare("NotFound") /\ site = {}
        \/ status' \in {FromFieldError("PatternMismatch", <<"names">>), Bare("InvalidArgument")}
    BY <1>6 DEF BatchStep, Reply
  <2> QED  BY <1>1, <1>2, <1>4, <2>1, <2>2
<1> QED  BY <1>5, <1>6

\* Rows, records and answers through the steps of the creates and batch reads.
LEMMA CreateStored == TypeOK /\ StoredInv /\ Create => StoredInv'
<1> SUFFICES ASSUME TypeOK, StoredInv, Create PROVE StoredInv'  OBVIOUS
<1>0. ASSUME UNCHANGED <<shippers, rows>> PROVE Grows  BY <1>0 DEF Grows
<1>1. ASSUME NEW c \in Calls, NEW r \in Request, CreateReplay(c, r) PROVE StoredInv'
  <2>1. r.id \in RequestIds /\ idempotency[r.id] # NoCall
    BY <1>1 DEF CreateReplay, Outcome, Recorded, Request
  <2>2. idempotency[r.id] \in Made /\ Backed(idempotency[r.id])  BY <2>1 DEF TypeOK, StoredInv
  <2>3. Decoded(idempotency[r.id].request) = Decoded(r)  BY <1>1 DEF CreateReplay, Outcome
  <2>4. idempotency[r.id].request.parent = r.parent /\ idempotency[r.id].request.text = r.text
    BY <2>3 DEF Decoded
  <2> DEFINE m == [request |-> r, row |-> idempotency[r.id].row]
  <2>5. Backed(m)  BY <2>2, <2>4 DEF Backed, Fits
  <2>6. created' = m /\ UNCHANGED <<shippers, rows, idempotency, call>>  BY <1>1 DEF CreateReplay, Reply
  <2>7. Grows  BY <1>0, <2>6
  <2>8. call' = [call EXCEPT ![c] = NoCall]  BY <1>1, <2>6 DEF CreateReplay, Idle, TypeOK
  <2> HIDE DEF m
  <2>9. PICK n : n = m  OBVIOUS
  <2>10. Backed(n)'  BY <2>5, <2>7, <2>9, GrowsKeeps
  <2> QED  BY <2>6, <2>7, <2>8, <2>9, <2>10, StoredStep
<1>2. ASSUME NEW c \in Calls, NEW r \in Request, CreateLookup(c, r) PROVE StoredInv'
  <2> DEFINE x == [pc |-> "require", request |-> r]
  <2>1. call' = [call EXCEPT ![c] = x] /\ UNCHANGED <<shippers, rows, idempotency, created>>  BY <1>2 DEF CreateLookup
  <2>2. Sound(x)'  BY DEF Sound
  <2>3. Grows  BY <1>0, <2>1
  <2>4. PICK n : n = created  OBVIOUS
  <2>5. n # NoCall => Backed(n)'  BY <2>3, <2>4, GrowsKeeps DEF StoredInv
  <2> HIDE DEF x
  <2> QED  BY <2>1, <2>2, <2>3, <2>4, <2>5, StoredStep
<1>3. ASSUME NEW c \in Calls, NEW r \in Request, CreateRejected(c, r) PROVE StoredInv'
  <2>1. created' = NoCall /\ UNCHANGED <<shippers, rows, idempotency, call>>  BY <1>3 DEF CreateRejected, Reply
  <2>2. call' = [call EXCEPT ![c] = NoCall]  BY <1>3, <2>1 DEF CreateRejected, Idle, TypeOK
  <2> QED  BY <1>0, <2>1, <2>2, StoredStep
<1>4. ASSUME NEW c \in Calls, NEW id \in Ids, RequireShipper(c, id) PROVE StoredInv'
  <2>1. call[c] \in LookedUp  BY <1>4 DEF RequireShipper, Idle, TypeOK, Creating, BatchCall
  <2>2. PICK r : r = call[c].request  OBVIOUS
  <2> DEFINE x == [pc |-> "put", request |-> r, row |-> ChildRow(r, id)]
  <2>3. UNCHANGED <<shippers, rows, idempotency>> /\ Grows  BY <1>0, <1>4 DEF RequireShipper
  <2>4. CASE ShipperRow(r.parent) # "absent" /\ ~r.validate_only
    <3>1. call' = [call EXCEPT ![c] = x] /\ created' = created  BY <1>4, <2>2, <2>4 DEF RequireShipper
    <3>2. Fits(x)
      <4>1. ShipperRow(Parse(r.parent)) # "absent"  BY <2>4, ParsedRow
      <4> QED  BY <4>1 DEF Fits, ChildRow
    <3>3. Sound(x)'  BY <2>3, <3>2, GrowsKeeps DEF Sound
    <3>4. PICK n : n = created  OBVIOUS
    <3>5. n # NoCall => Backed(n)'  BY <2>3, <3>4, GrowsKeeps DEF StoredInv
    <3> HIDE DEF x
    <3> QED  BY <2>3, <3>1, <3>3, <3>4, <3>5, StoredStep
  <2>5. CASE ~(ShipperRow(r.parent) # "absent" /\ ~r.validate_only)
    <3>1. call' = [call EXCEPT ![c] = NoCall] /\ created' = NoCall  BY <1>4, <2>2, <2>5 DEF RequireShipper, Reply
    <3> QED  BY <2>3, <3>1, StoredStep
  <2> QED  BY <2>4, <2>5
<1>5. ASSUME NEW c \in Calls, Put(c) PROVE StoredInv'
  <2>1. call[c] \in Creating  BY <1>5 DEF Put, Idle, TypeOK, LookedUp, BatchCall
  <2>2. call[c].pc = "put" /\ Fits(call[c])  BY <1>5 DEF Put, StoredInv, Sound
  <2>3. PICK x : x = [call[c] EXCEPT !.pc = "record"]  OBVIOUS
  <2>4. x.pc = "record" /\ x.row = call[c].row /\ x.request = call[c].request  BY <2>1, <2>3 DEF Creating
  <2>5. /\ call' = [call EXCEPT ![c] = x] /\ UNCHANGED <<shippers, idempotency, created>>
        /\ rows' = rows \cup {x.row}
    BY <1>5, <2>3, <2>4 DEF Put
  <2>6. Grows  BY <2>5 DEF Grows
  <2>7. Fits(x)  BY <2>2, <2>4 DEF Fits
  <2>8. Backed(x)'  BY <2>5, <2>6, <2>7, GrowsKeeps DEF Backed
  <2>9. Sound(x)'  BY <2>4, <2>8 DEF Sound
  <2>10. PICK n : n = created  OBVIOUS
  <2>11. n # NoCall => Backed(n)'  BY <2>6, <2>10, GrowsKeeps DEF StoredInv
  <2> QED  BY <2>5, <2>6, <2>9, <2>10, <2>11, StoredStep
<1>6. ASSUME NEW c \in Calls, Record(c) PROVE StoredInv'
  <2>1. Backed(call[c])  BY <1>6 DEF Record, StoredInv, Sound
  <2>2. PICK m : m = [request |-> call[c].request, row |-> call[c].row]  OBVIOUS
  <2>3. Backed(m)  BY <2>1, <2>2 DEF Backed, Fits
  <2>4. /\ created' = m /\ call' = [call EXCEPT ![c] = NoCall] /\ UNCHANGED <<shippers, rows>>
    BY <1>6, <2>2 DEF Record, Reply
  <2>5. \A i \in RequestIds : idempotency'[i] \in {idempotency[i], m}
    BY <1>6, <2>2 DEF Record, Remember, TypeOK
  <2>6. Grows /\ Backed(m)'  BY <1>0, <2>3, <2>4, GrowsKeeps
  <2> QED  BY <2>4, <2>5, <2>6, StoredStep
<1>7. ASSUME NEW c \in Calls, NEW names \in Batches, NEW parent \in Names \cup {NoText},
             BatchBegin(c, names, parent)
      PROVE  StoredInv'
  <2>1. PICK x : x = [pc |-> "batch", names |-> names, parent |-> parent, sites |-> <<>>,
                      absent |-> {i \in DOMAIN names : GetSite(names[i]) = {}}]
    OBVIOUS
  <2>2. call' = [call EXCEPT ![c] = x] /\ UNCHANGED <<shippers, rows, idempotency, created>>
    BY <1>7, <2>1 DEF BatchBegin
  <2>3. x \in BatchCall  BY <2>1, BatchesAssumption DEF BatchCall
  <2>4. BatchInv(x)  BY <2>1, BatchesAssumption DEF BatchInv
  <2>5. Sound(x)  BY <2>1, <2>4 DEF Sound
  <2>6. Grows /\ Sound(x)'  BY <1>0, <2>2, <2>3, <2>5, GrowsKeeps
  <2>7. PICK n : n = created  OBVIOUS
  <2>8. n # NoCall => Backed(n)'  BY <2>6, <2>7, GrowsKeeps DEF StoredInv
  <2> QED  BY <2>2, <2>6, <2>7, <2>8, StoredStep
<1>8. ASSUME NEW c \in Calls, BatchStep(c) PROVE StoredInv'
  <2>1. UNCHANGED <<shippers, rows, idempotency>> /\ Grows  BY <1>0, <1>8 DEF BatchStep
  <2>2. CASE call' = [call EXCEPT ![c] = NoCall] /\ created' = NoCall  BY <2>1, <2>2, StoredStep
  <2>3. CASE \E x \in BatchCall : call' = [call EXCEPT ![c] = x] /\ Sound(x) /\ created' = created
    <3>1. PICK x \in BatchCall : call' = [call EXCEPT ![c] = x] /\ Sound(x) /\ created' = created  BY <2>3
    <3>2. Sound(x)'  BY <2>1, <3>1, GrowsKeeps
    <3>3. PICK n : n = created  OBVIOUS
    <3>4. n # NoCall => Backed(n)'  BY <2>1, <3>3, GrowsKeeps DEF StoredInv
    <3> QED  BY <2>1, <3>1, <3>2, <3>3, <3>4, StoredStep
  <2> QED  BY <1>8, <2>2, <2>3, BatchStepFacts
<1>9. ASSUME NEW c \in Calls, BatchAnswer(c) PROVE StoredInv'
  <2>1. call' = [call EXCEPT ![c] = NoCall] /\ created' = NoCall /\ UNCHANGED <<shippers, rows, idempotency>>
    BY <1>9 DEF BatchAnswer, Reply
  <2> QED  BY <1>0, <2>1, StoredStep
<1>10. ASSUME NEW name \in Shippers, Toggle(name) PROVE StoredInv'
  <2>1. Grows /\ UNCHANGED creates  BY <1>10 DEF Toggle, Grows, TypeOK, creates
  <2> QED  BY <2>1, StoredUnchanged
<1> QED  BY <1>1, <1>2, <1>3, <1>4, <1>5, <1>6, <1>7, <1>8, <1>9, <1>10 DEF Create, Toggle

\* What a batch answers: every row it read is still there, and NOT_FOUND is
\* for a name that was missing from the start.
LEMMA BatchAnswerTrue == TypeOK /\ StoredInv /\ Create => \A c \in Calls : BatchWasTrue(c)
<1> SUFFICES ASSUME TypeOK, StoredInv, Create, NEW c \in Calls,
                    ~Idle(c), call[c].pc = "batch", call'[c] = NoCall
             PROVE  /\ status'.code = "Ok" =>
                         \A i \in DOMAIN call[c].names : /\ call[c].sites[i] \in GetSite(call[c].names[i])
                                                         /\ call[c].parent \in {NoText, call[c].sites[i].parent}
                    /\ status'.code = "NotFound" => call[c].absent # {}
  BY DEF BatchWasTrue
<1> DEFINE b == call[c]
<1>1. b \in BatchCall /\ BatchInv(b)
  BY DEF Idle, TypeOK, LookedUp, Creating, StoredInv, Sound
<1>2. CASE BatchStep(c)
  <2>1. ~ \E x \in BatchCall : call' = [call EXCEPT ![c] = x]  BY NoCallAssumption DEF TypeOK
  <2>2. CASE status' = Bare("NotFound") /\ GetSite(b.names[Len(b.sites) + 1]) = {}
    <3>0. \A n \in {0, 1} : n + 1 \in {1, 2}  OBVIOUS
    <3>1. Len(b.sites) + 1 \in {1, 2}  BY <1>2, <3>0, BatchStepFacts
    <3>2. Len(b.sites) + 1 \in b.absent  BY <1>1, <2>2, <3>1 DEF BatchInv
    <3> QED  BY <2>2, <3>2, GetCodes
  <2>3. CASE status' \in {FromFieldError("PatternMismatch", <<"names">>), Bare("InvalidArgument")}
    <3>1. FromFieldError("PatternMismatch", <<"names">>).code = "InvalidArgument"
      BY DEF FromFieldError, FieldErrorTable, ToStatus, Details, Invalid, Row
    <3> QED  BY <2>3, <3>1, GetCodes
  <2> QED  BY <1>2, <2>1, <2>2, <2>3, BatchStepFacts
<1>3. CASE BatchAnswer(c)
  <2>1. status'.code = "Ok" /\ Len(b.sites) = 2 /\ DOMAIN b.names = {1, 2}
    BY <1>1, <1>3, BatchFacts, GetCodes DEF BatchAnswer, Reply
  <2>2. \A i \in {1, 2} : b.sites[i] \in GetSite(b.names[i]) /\ b.parent \in {NoText, Parse(b.names[i].parent)}
    BY <1>1, <2>1 DEF BatchInv
  <2>3. \A i \in {1, 2} : b.sites[i].parent = Parse(b.names[i].parent)  BY <2>2 DEF GetSite
  <2> QED  BY <2>1, <2>2, <2>3
<1>4. ASSUME NEW d \in Calls, NEW x, call' = [call EXCEPT ![d] = x] PROVE d = c
  BY <1>4 DEF TypeOK, Idle
<1>5. call' # call  BY DEF Idle
<1>6. ASSUME NEW d \in Calls, NEW r \in Request, CreateReplay(d, r) \/ CreateLookup(d, r) \/ CreateRejected(d, r)
      PROVE  FALSE
  BY <1>4, <1>5, <1>6 DEF CreateReplay, CreateLookup, CreateRejected, Idle
<1>7. ASSUME NEW d \in Calls, NEW id \in Ids, RequireShipper(d, id) PROVE FALSE
  BY <1>4, <1>7 DEF RequireShipper
<1>8. ASSUME NEW d \in Calls, Put(d) \/ Record(d) PROVE FALSE
  <2>1. \E x : call' = [call EXCEPT ![d] = x]  BY <1>8 DEF Put, Record
  <2> QED  BY <1>4, <1>8, <2>1 DEF Put, Record
<1>9. ASSUME NEW d \in Calls, NEW names \in Batches, NEW parent \in Names \cup {NoText},
             BatchBegin(d, names, parent)
      PROVE  FALSE
  BY <1>4, <1>9 DEF BatchBegin, Idle
<1>10. ASSUME NEW d \in Calls, BatchStep(d) PROVE d = c
  BY <1>4, <1>10, BatchStepFacts
<1>11. ASSUME NEW d \in Calls, BatchAnswer(d) PROVE d = c
  BY <1>4, <1>11 DEF BatchAnswer
<1>12. ASSUME NEW name \in Shippers, Toggle(name) PROVE FALSE
  BY <1>5, <1>12 DEF Toggle
<1> QED  BY <1>2, <1>3, <1>6, <1>7, <1>8, <1>9, <1>10, <1>11, <1>12 DEF Create, Toggle

-----------------------------------------------------------------------------
(* ListOperations.                                                           *)

\* The operations of the store, as a finite set of names.
LEMMA PresentFacts ==
  /\ Present \subseteq Operations /\ Present \subseteq Nat /\ IsFiniteSet(Present)
  /\ \A o : Rank(o) = Place(Present, Ascending, o)
  /\ IsOrder(Present, Ascending)
<1>1. Present \subseteq Operations /\ Present \subseteq Nat  BY AccessAssumption DEF Present
<1>2. IsFiniteSet(Present)  BY <1>1, AccessAssumption, FS_Subset
<1> QED  BY <1>1, <1>2, AscendingOrder DEF Rank

\* The same of the operations after a step.
LEMMA PresentFactsNext ==
  /\ Present' \subseteq Operations /\ Present' \subseteq Nat /\ IsFiniteSet(Present')
  /\ \A o : Rank(o)' = Place(Present', Ascending, o)
<1>1. Present' \subseteq Operations /\ Present' \subseteq Nat  BY AccessAssumption DEF Present
<1>2. IsFiniteSet(Present')  BY <1>1, AccessAssumption, FS_Subset
<1> QED  BY <1>1, <1>2 DEF Rank, Place

\* A page leaves out only what lies before it and, if it is not the last one,
\* what lies after it.
LEMMA PageFacts ==
  ASSUME NEW offset \in Nat, NEW page_size \in PageSizes
  PROVE  /\ Page(offset, page_size).operations \subseteq Present
         /\ Page(offset, page_size).next \in Nat
         /\ \A o \in Present \ Page(offset, page_size).operations :
              Page(offset, page_size).next = 0 \/ Rank(o) <= Page(offset, page_size).next => Rank(o) <= offset
<1> DEFINE n     == Cardinality(Present)
           limit == IF page_size = 0 THEN DefaultSize ELSE IF page_size < MaxSize THEN page_size ELSE MaxSize
           from  == IF offset < n THEN offset ELSE n
           to    == IF from + limit < n THEN from + limit ELSE n
           page  == SubSeq(List, from + 1, to)
<1>1. n \in Nat /\ \A o \in Present : Rank(o) \in 1..n  BY PresentFacts, PlaceOrder
<1>2. \A i \in 1..n : List[i] \in Present /\ Rank(List[i]) = i
  BY PresentFacts, InOrderFacts DEF List
<1>3. Len(List) = n  BY PresentFacts, InOrderFacts DEF List
<1>4. limit \in Nat /\ limit # 0  BY AccessAssumption
<1>5. Page(offset, page_size) = [operations |-> ToSet(page), next |-> IF from + limit < n THEN from + limit ELSE 0]
  BY <1>3 DEF Page
<1> HIDE DEF n, limit
<1>6. from \in Nat /\ to \in Nat /\ to <= n /\ from <= offset
      /\ IF from + limit < n THEN to = from + limit ELSE to = n
  BY <1>1, <1>4
<1> HIDE DEF from, to
<1>7. /\ page \in Seq(Present)
      /\ Len(page) = IF from + 1 <= to THEN to - (from + 1) + 1 ELSE 0
      /\ \A i \in 1..(to - (from + 1) + 1) : page[i] = List[(from + 1) + i - 1]
  <2>1. \A i \in (from + 1)..to : List[i] \in Present  BY <1>1, <1>2, <1>6
  <2> QED  BY <1>6, <2>1, SubSeqProperties
<1> HIDE DEF page
<1>8. ToSet(page) \subseteq Present  BY <1>7 DEF ToSet
<1>9. ASSUME NEW o \in Present, from < Rank(o), Rank(o) <= to PROVE o \in ToSet(page)
  <2>1. PICK k : k = Rank(o) /\ k \in 1..n  BY <1>1
  <2>2. o = List[k]
    <3>1. Place(Present, Ascending, List[k]) = Place(Present, Ascending, o) /\ List[k] \in Present  BY <1>2, <2>1, PresentFacts
    <3> QED  BY <3>1, PresentFacts, PlaceOrder
  <2> DEFINE i == k - from
  <2>3. i \in 1..(to - (from + 1) + 1) /\ from + 1 <= to /\ (from + 1) + i - 1 = k  BY <1>1, <1>6, <1>9, <2>1
  <2>4. i \in 1..Len(page) /\ page[i] = List[k]  BY <1>6, <1>7, <2>3
  <2> QED  BY <1>7, <2>2, <2>4 DEF ToSet
<1>10. ASSUME NEW o \in Present, o \notin ToSet(page) PROVE Rank(o) <= from \/ to < Rank(o)
  BY <1>1, <1>6, <1>9, <1>10
<1>11. ASSUME NEW o \in Present, o \notin ToSet(page),
              (IF from + limit < n THEN from + limit ELSE 0) = 0 \/ Rank(o) <= (IF from + limit < n THEN from + limit ELSE 0)
       PROVE  Rank(o) <= offset
  <2>1. Rank(o) \in 1..n  BY <1>1
  <2>2. Rank(o) <= to  BY <1>1, <1>4, <1>6, <1>11, <2>1
  <2> QED  BY <1>6, <1>10, <1>11, <2>1, <2>2
<1> QED  BY <1>1, <1>4, <1>5, <1>6, <1>8, <1>11

\* A set of operations is finite, and so is what a scan has missed.
LEMMA OperationsFinite == \A S \in SUBSET Operations : IsFiniteSet(S) /\ Cardinality(S) \in Nat
BY AccessAssumption, FS_Subset, FS_CardinalityType

\* The types through the steps of the operation store.
LEMMA OperateType == TypeOK /\ Operate /\ UNCHANGED <<shippers, reads, creates>> => TypeOK'
<1> SUFFICES ASSUME TypeOK, Operate, UNCHANGED <<shippers, reads, creates>> PROVE TypeOK'  OBVIOUS
<1> USE DEF reads, creates
<1>1. ASSUME NEW size \in PageSizes, ListOperations(size) PROVE TypeOK'
  <2> DEFINE page == Page(scan.offset, size)
             old  == IF scan.pc = "paging" THEN scan ELSE [NoScan EXCEPT !.always = Present]
  <2>1. scan.offset \in Nat  BY DEF TypeOK, Scan
  <2>2. page.operations \subseteq Operations /\ page.next \in Nat  BY <2>1, PageFacts, PresentFacts
  <2>3. [NoScan EXCEPT !.always = Present] \in Scan  BY PresentFacts DEF NoScan, Scan
  <2>4. old \in Scan  BY <2>3 DEF TypeOK
  <2>5. scan' = [old EXCEPT !.pc = IF page.next = 0 THEN "finished" ELSE "paging",
                            !.offset = page.next, !.returned = old.returned \cup page.operations]
    BY <1>1 DEF ListOperations
  <2> HIDE DEF page, old
  <2>6. scan' \in Scan  BY <2>2, <2>4, <2>5 DEF Scan
  <2> QED  BY <1>1, <2>6 DEF ListOperations, TypeOK
<1>2. ASSUME NEW o \in Operations, CreateOperation(o) PROVE TypeOK'
  BY <1>2 DEF CreateOperation, TypeOK
<1>3. ASSUME NEW o \in Operations, DeleteOperation(o) PROVE TypeOK'
  <2>1. scan \in Scan  BY DEF TypeOK
  <2>2. [scan EXCEPT !.always = scan.always \ {o}, !.removed = scan.removed + 1] \in Scan
    <3>1. PICK always, removed : always = scan.always \ {o} /\ removed = scan.removed + 1  OBVIOUS
    <3>2. always \in SUBSET Operations /\ removed \in Nat  BY <2>1, <3>1 DEF Scan
    <3>3. [scan EXCEPT !.always = always, !.removed = removed] \in Scan  BY <2>1, <3>2 DEF Scan
    <3> QED  BY <3>1, <3>3
  <2>3. scan' \in Scan  BY <1>3, <2>1, <2>2 DEF DeleteOperation
  <2> QED  BY <1>3, <2>3 DEF DeleteOperation, TypeOK
<1> QED  BY <1>1, <1>2, <1>3 DEF Operate

\* The scan through those steps: a page misses only what was missed before it,
\* a create moves names away from the pages, and a delete moves at most one
\* more name under the offset.
LEMMA OperateScan == TypeOK /\ ScanInv /\ Operate => ScanInv'
<1> SUFFICES ASSUME TypeOK, ScanInv, Operate PROVE ScanInv'  OBVIOUS
<1>0. scan \in Scan  BY DEF TypeOK
<1>a. Missed \in SUBSET Operations  BY <1>0 DEF Missed, Scan
<1>1. ASSUME NEW size \in PageSizes, ListOperations(size) PROVE ScanInv'
  <2> DEFINE page == Page(scan.offset, size)
             old  == IF scan.pc = "paging" THEN scan ELSE [NoScan EXCEPT !.always = Present]
             left == {o \in old.always \ old.returned : Rank(o) <= scan.offset}
  <2>1. scan.offset \in Nat  BY <1>0 DEF Scan
  <2>2. page.operations \subseteq Present /\ page.next \in Nat
    BY <2>1, PageFacts
  <2>3. \A o \in Present \ page.operations : page.next = 0 \/ Rank(o) <= page.next => Rank(o) <= scan.offset
    BY <2>1, PageFacts
  <2>4. old \in Scan /\ old.always \subseteq Present
    <3>1. CASE scan.pc = "paging"  BY <1>0, <3>1 DEF ScanInv
    <3>2. CASE scan.pc # "paging"  BY <3>2, PresentFacts DEF NoScan, Scan
    <3> QED  BY <3>1, <3>2
  <2>5. Cardinality(left) <= old.removed
    <3>1. CASE scan.pc = "paging"
      <4>1. left = Missed  BY <3>1 DEF Missed
      <4> QED  BY <3>1, <4>1 DEF ScanInv
    <3>2. CASE scan.pc # "paging"
      <4>1. scan.offset = 0 /\ old.removed = 0 /\ old.always = Present  BY <3>2 DEF ScanInv, NoScan
      <4>2. \A o \in Present : ~(Rank(o) <= 0)
        <5>1. \A o \in Present : Rank(o) \in 1..Cardinality(Present)  BY PresentFacts, PlaceOrder
        <5>2. Cardinality(Present) \in Nat  BY PresentFacts, FS_CardinalityType
        <5> QED  BY <5>1, <5>2
      <4>3. left = {}  BY <4>1, <4>2
      <4> HIDE DEF left, old
      <4> QED  BY <4>1, <4>3, FS_EmptySet
    <3> QED  BY <3>1, <3>2
  <2>6. scan' = [old EXCEPT !.pc = IF page.next = 0 THEN "finished" ELSE "paging",
                            !.offset = page.next, !.returned = old.returned \cup page.operations]
    BY <1>1 DEF ListOperations
  <2> HIDE DEF page, old
  <2>7. /\ scan'.pc = IF page.next = 0 THEN "finished" ELSE "paging"
        /\ scan'.offset = page.next /\ scan'.returned = old.returned \cup page.operations
        /\ scan'.always = old.always /\ scan'.removed = old.removed
    BY <2>4, <2>6 DEF Scan
  <2>8. Present' = Present /\ \A o : Rank(o)' = Rank(o)  BY <1>1 DEF ListOperations, Present, Rank, Place
  <2>9. left \in SUBSET Operations /\ old.removed \in Nat /\ IsFiniteSet(left) /\ Cardinality(left) \in Nat
    <3>1. left \in SUBSET Operations /\ old.removed \in Nat  BY <2>4 DEF Scan
    <3> HIDE DEF left
    <3> QED  BY <3>1, OperationsFinite
  <2>10. ASSUME NEW T \in SUBSET left PROVE Cardinality(T) <= old.removed
    <3> HIDE DEF left
    <3>1. T \in SUBSET Operations  BY <2>9
    <3>2. Cardinality(T) <= Cardinality(left) /\ Cardinality(T) \in Nat  BY <2>9, <3>1, FS_Subset, OperationsFinite
    <3> QED  BY <2>5, <2>9, <3>2
  <2>11. CASE page.next = 0
    <3>1. scan'.always \ scan'.returned \in SUBSET left  BY <2>3, <2>4, <2>7, <2>11
    <3> QED  BY <2>7, <2>10, <2>11, <3>1 DEF ScanInv, SkipsAreRemovals
  <2>12. CASE page.next # 0
    <3>1. Missed' = {o \in scan'.always \ scan'.returned : Rank(o) <= scan'.offset}  BY <2>8 DEF Missed, Rank, Present, Place
    <3>2. Missed' \in SUBSET left  BY <2>3, <2>4, <2>7, <2>12, <3>1
    <3> QED  BY <2>4, <2>7, <2>8, <2>10, <2>12, <3>2 DEF ScanInv, SkipsAreRemovals
  <2> QED  BY <2>11, <2>12
<1>2. ASSUME NEW x \in Operations, CreateOperation(x) PROVE ScanInv'
  <2>1. Present' = Present \cup {x} /\ scan' = scan /\ x \in Nat
    BY <1>2, AccessAssumption DEF CreateOperation, Present, TypeOK
  <2>2. \A o : Rank(o) <= Rank(o)' /\ Rank(o) \in Nat /\ Rank(o)' \in Nat
    BY <2>1, PresentFacts, PresentFactsNext, PlaceChanges
  <2>3. Missed' \in SUBSET Missed
    <3>1. ASSUME NEW o, o \in Missed' PROVE o \in Missed
      <4>1. o \in scan.always \ scan.returned /\ Rank(o)' <= scan.offset  BY <2>1, <3>1 DEF Missed, Rank, Present, Place
      <4>2. Rank(o) <= scan.offset  BY <1>0, <2>2, <4>1 DEF Scan
      <4> QED  BY <4>1, <4>2 DEF Missed
    <3> QED  BY <3>1
  <2>4. Cardinality(Missed') <= Cardinality(Missed)  BY <1>a, <2>3, OperationsFinite, FS_Subset
  <2>5. Cardinality(Missed') \in Nat /\ Cardinality(Missed) \in Nat  BY <1>a, <2>3, OperationsFinite
  <2>6. scan.removed \in Nat  BY <1>0 DEF Scan
  <2> QED  BY <2>1, <2>4, <2>5, <2>6 DEF ScanInv, SkipsAreRemovals
<1>3. ASSUME NEW x \in Operations, DeleteOperation(x) PROVE ScanInv'
  <2>1. CASE scan.pc # "paging"
    BY <1>3, <2>1 DEF DeleteOperation, ScanInv, SkipsAreRemovals
  <2>2. CASE scan.pc = "paging"
    <3>1. /\ Present' = Present \ {x} /\ x \in Nat
          /\ scan' = [scan EXCEPT !.always = scan.always \ {x}, !.removed = scan.removed + 1]
      BY <1>3, <2>2, AccessAssumption DEF DeleteOperation, Present, TypeOK
    <3>2. /\ scan'.pc = "paging" /\ scan'.offset = scan.offset /\ scan'.returned = scan.returned
          /\ scan'.always = scan.always \ {x} /\ scan'.removed = scan.removed + 1
          /\ scan.offset \in Nat /\ scan.removed \in Nat
      BY <1>0, <2>2, <3>1 DEF Scan
    <3>3. scan.always \subseteq Present /\ Cardinality(Missed) <= scan.removed  BY <2>2 DEF ScanInv
    <3>4. \A o : Rank(o) <= Rank(o)' + 1 /\ Rank(o) \in Nat /\ Rank(o)' \in Nat
      BY <3>1, PresentFacts, PresentFactsNext, PlaceChanges
    <3>5. ASSUME NEW o, o \in Missed' PROVE o \in Present /\ (o \in Missed \/ Rank(o) = scan.offset + 1)
      <4>1. o \in scan.always \ scan.returned /\ Rank(o)' <= scan.offset
        BY <3>2, <3>5 DEF Missed, Rank, Present, Place
      <4>2. Rank(o) <= scan.offset \/ Rank(o) = scan.offset + 1  BY <3>2, <3>4, <4>1
      <4> QED  BY <3>3, <4>1, <4>2 DEF Missed
    <3>6. PICK y : Missed' \in SUBSET (Missed \cup {y})
      <4>1. CASE Missed' \subseteq Missed  BY <4>1
      <4>2. CASE ~(Missed' \subseteq Missed)
        <5>1. PICK y \in Missed' : y \notin Missed  BY <4>2
        <5>2. y \in Present /\ Place(Present, Ascending, y) = scan.offset + 1  BY <3>5, <5>1, PresentFacts
        <5>3. ASSUME NEW o \in Missed', o \notin Missed PROVE o = y
          <6>1. o \in Present /\ Place(Present, Ascending, o) = scan.offset + 1  BY <3>5, <5>3, PresentFacts
          <6> QED  BY <5>2, <6>1, PresentFacts, PlaceOrder
        <5> QED  BY <5>3
      <4> QED  BY <4>1, <4>2
    <3>7. Cardinality(Missed') <= Cardinality(Missed) + 1
      <4>1. /\ IsFiniteSet(Missed \cup {y})
            /\ Cardinality(Missed \cup {y}) = IF y \in Missed THEN Cardinality(Missed) ELSE Cardinality(Missed) + 1
        BY <1>a, OperationsFinite, FS_AddElement
      <4>2. Cardinality(Missed') <= Cardinality(Missed \cup {y}) /\ IsFiniteSet(Missed')  BY <3>6, <4>1, FS_Subset
      <4>3. Cardinality(Missed) \in Nat /\ Cardinality(Missed') \in Nat
        BY <1>a, <4>2, OperationsFinite, FS_CardinalityType
      <4>4. Cardinality(Missed \cup {y}) \in {Cardinality(Missed), Cardinality(Missed) + 1}  BY <4>1
      <4> QED  BY <4>2, <4>3, <4>4
    <3>8. Cardinality(Missed) \in Nat /\ IsFiniteSet(Missed \cup {y})  BY <1>a, OperationsFinite, FS_AddElement
    <3>9. Cardinality(Missed') \in Nat  BY <3>6, <3>8, FS_Subset, FS_CardinalityType
    <3>10. Cardinality(Missed') <= scan'.removed  BY <3>2, <3>3, <3>7, <3>8, <3>9
    <3>11. scan'.always \subseteq Present'  BY <3>1, <3>2, <3>3
    <3> QED  BY <3>2, <3>10, <3>11 DEF ScanInv, SkipsAreRemovals
  <2> QED  BY <2>1, <2>2
<1> QED  BY <1>1, <1>2, <1>3 DEF Operate

-----------------------------------------------------------------------------
(* The specification.                                                        *)

\* What a step of one workload leaves alone of the others' invariants.
LEMMA AccessFrame ==
  ASSUME AccessInv, UNCHANGED workload
  PROVE  /\ UNCHANGED <<shippers, reads>> => GateInv'
         /\ UNCHANGED pages => ScanInv'
         /\ workload # "read" /\ UNCHANGED reads => GateInv'
<1>1. ASSUME UNCHANGED pages PROVE ScanInv'
  BY <1>1 DEF AccessInv, pages, ScanInv, SkipsAreRemovals, Missed, Rank, Present, Place
<1>2. ASSUME workload # "read", UNCHANGED reads PROVE GateInv'
  BY <1>2 DEF AccessInv, reads, GateInv
<1>3. ASSUME UNCHANGED <<shippers, reads>> PROVE GateInv'
  BY <1>3 DEF AccessInv, reads, GateInv, Reads, Authorized, ShipperRow, ParsesAsShipper, Parse, GrantAdmits
<1> QED  BY <1>1, <1>2, <1>3

\* The stores start empty.
LEMMA AccessInit == Init => AccessInv /\ FrameInv
<1> SUFFICES ASSUME Init PROVE AccessInv /\ FrameInv  OBVIOUS
<1>1. NoScan \in Scan  BY DEF NoScan, Scan
<1>2. TypeOK  BY <1>1 DEF Init, TypeOK
<1>3. GateInv /\ StoredInv  BY DEF Init, GateInv, StoredInv, Idle
<1>4. ScanInv  BY DEF Init, ScanInv, SkipsAreRemovals, NoScan
<1> QED  BY <1>2, <1>3, <1>4, FrameInit DEF AccessInv, Init

\* One step of any of the clients.
LEMMA AccessStep == AccessInv /\ FrameInv /\ [Next]_vars => AccessInv' /\ FrameInv'
<1> SUFFICES ASSUME AccessInv, FrameInv, [Next]_vars PROVE AccessInv' /\ FrameInv'  OBVIOUS
<1>a. ASSUME UNCHANGED responses PROVE FrameInv'  BY <1>a DEF responses, FrameInv
<1>b. TypeOK /\ GateInv /\ StoredInv /\ ScanInv  BY DEF AccessInv
<1>c. ASSUME UNCHANGED <<shippers, reads, creates, pages>> PROVE TypeOK'
  BY <1>b, <1>c DEF TypeOK, reads, creates, pages
<1>d. ASSUME UNCHANGED <<shippers, creates>> PROVE StoredInv'
  <2>1. Grows  BY <1>d DEF Grows, creates
  <2> QED  BY <1>b, <1>d, <2>1, StoredUnchanged
<1>1. CASE UNCHANGED vars
  BY <1>1, <1>a, <1>b, <1>c, <1>d, AccessFrame DEF vars, AccessInv
<1>2. CASE workload = "read" /\ Read /\ UNCHANGED <<creates, pages, responses>> /\ UNCHANGED workload
  <2>1. Grows /\ UNCHANGED creates
    <3>1. rows' = rows  BY <1>2 DEF creates
    <3>2. \A n \in Shippers : shippers[n] # "absent" => shippers'[n] # "absent"
      <4>1. CASE \E name \in Shippers : ChangeShipper(name)  BY <1>b, <4>1 DEF ChangeShipper, TypeOK
      <4>2. CASE UNCHANGED shippers  BY <4>2
      <4> QED  BY <1>2, <4>1, <4>2 DEF Read, Begin, Gate, Fetch, Look, AskParent, Answer, SetIamPolicy
    <3> QED  BY <1>2, <3>1, <3>2 DEF Grows
  <2>2. TypeOK'  BY <1>2, <1>b, ReadType
  <2>3. GateInv'  BY <1>2, <1>b, ReadGate
  <2>4. StoredInv'  BY <1>b, <2>1, StoredUnchanged
  <2>5. ScanInv'  BY <1>2, AccessFrame
  <2> QED  BY <1>2, <1>a, <2>2, <2>3, <2>4, <2>5 DEF AccessInv
<1>3. CASE workload = "create" /\ Create /\ UNCHANGED <<reads, pages, responses>> /\ UNCHANGED workload
  <2>1. TypeOK' /\ StoredInv'  BY <1>3, <1>b, CreateType, CreateStored
  <2>2. GateInv' /\ ScanInv'  BY <1>3, AccessFrame
  <2> QED  BY <1>3, <1>a, <2>1, <2>2 DEF AccessInv
<1>4. CASE /\ workload = "operations" /\ Operate /\ UNCHANGED <<shippers, status, reads, creates, responses>>
           /\ UNCHANGED workload
  <2>1. TypeOK' /\ ScanInv'  BY <1>4, <1>b, OperateType, OperateScan
  <2>2. GateInv' /\ StoredInv'  BY <1>4, <1>d, AccessFrame
  <2> QED  BY <1>4, <1>a, <2>1, <2>2 DEF AccessInv
<1>5. CASE /\ workload = "respond" /\ Respond /\ UNCHANGED <<shippers, status, reads, creates, pages>>
           /\ UNCHANGED workload
  <2>1. FrameInv'  BY <1>5, FrameStep
  <2> QED  BY <1>5, <1>c, <1>d, <2>1, AccessFrame DEF AccessInv
<1> QED  BY <1>1, <1>2, <1>3, <1>4, <1>5 DEF Next

\* The invariant behind the properties below: what a call in flight has read,
\* what it has built, and what a scan has passed over.
THEOREM AccessInvariant == Spec => [](AccessInv /\ FrameInv)
BY AccessInit, AccessStep, PTL DEF Spec

\* OneDomain, whatever domain main.rs hands to the layer: no frame of any
\* response leaves the server with the library's own domain.
THEOREM OneDomainAlways == Spec => []OneDomain
BY AccessInvariant, FrameImplies, PTL

\* AnswersAreStored: whatever creates, replays and previews run together, the
\* row that one of them answers is in the store, under a parent that exists.
THEOREM AnswersStored == Spec => []AnswersAreStored
<1>1. AccessInv => AnswersAreStored  BY DEF AccessInv, StoredInv, Backed, Fits, AnswersAreStored
<1> QED  BY <1>1, AccessInvariant, PTL

\* SkipsAreRemovals: however many operations there are and whatever sizes the
\* pages have, a scan misses no more lasting operations than were removed.
THEOREM SkipsBounded == Spec => []SkipsAreRemovals
<1>1. AccessInv => SkipsAreRemovals  BY DEF AccessInv, ScanInv
<1> QED  BY <1>1, AccessInvariant, PTL

\* AnswersWereTrue: each answer of GetShipper, whole, is the one AIP-211 gives
\* for what the call could have read of the policy under the request's own
\* spelling, of the shipper that it parses to and of the collection, and each
\* answer of BatchGetSites is true of the sites when it is given.
THEOREM AnswersTrue == Spec => AnswersWereTrue
<1>1. AccessInv /\ [Next]_vars => [GetWasTrue /\ \A c \in Calls : BatchWasTrue(c)]_vars
  <2> SUFFICES ASSUME AccessInv, Next PROVE GetWasTrue /\ \A c \in Calls : BatchWasTrue(c)  OBVIOUS
  <2>a. TypeOK /\ GateInv /\ StoredInv  BY DEF AccessInv
  <2>b. ASSUME UNCHANGED reads PROVE GetWasTrue  BY <2>b DEF reads, GetWasTrue
  <2>c. ASSUME UNCHANGED creates PROVE \A c \in Calls : BatchWasTrue(c)  BY <2>c DEF creates, BatchWasTrue, Idle
  <2>1. CASE Read /\ UNCHANGED creates  BY <2>1, <2>a, <2>c, ReadAnswer
  <2>2. CASE Create /\ UNCHANGED reads  BY <2>2, <2>a, <2>b, BatchAnswerTrue
  <2>3. CASE UNCHANGED <<reads, creates>>  BY <2>3, <2>b, <2>c
  <2> QED  BY <2>1, <2>2, <2>3 DEF Next
<1> QED  BY <1>1, AccessInvariant, PTL DEF Spec, AnswersWereTrue
=============================================================================
