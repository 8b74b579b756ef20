------------------------------ MODULE Boundary ------------------------------
(* The aip-errordomain layer as main.rs installs it: each response of the    *)
(* inner service passes it, its headers when the inner future resolves and   *)
(* its body frame by frame.                                                  *)
EXTENDS Errors

CONSTANT ForeignDomain   \* an ErrorInfo domain that no aip crate raises

VARIABLES
  response,   \* the frames of the inner service's response
  sent        \* the frames that the client has received

responses == <<response, sent>>

Headers(header)  == [kind |-> "headers", header |-> header]
Trailers(header) == [kind |-> "trailers", header |-> header]
Data             == [kind |-> "data", header |-> Absent]

\* Validators as a service leaves them: untouched, with a violation of its own,
\* and with those of a nested message's validator brought in under its field.
Validators ==
  LET new   == Validator(SENTINEL_DOMAIN, "FIELD_REQUIRED")
      inner == AddFieldViolation(new, <<"latitude">>)
  IN  {new, AddFieldViolation(new, <<"site">>), AddFieldError(new, <<"lat_lng">>, inner)}

\* Every status that a crate can turn into a response, and those a handler
\* makes itself: bare ones, and one under a domain of its own.
Raised ==
  (UNION {{FromError(crate, e, <<"field">>) : e \in DOMAIN Tables[crate]} : crate \in DOMAIN Tables})
  \cup {FromFieldError(e, <<"parent">>) : e \in DOMAIN FieldErrorTable}
  \cup {Conflict, PermissionDenied, NotFoundViaParent(TRUE), FromUnknownIdentifier}
  \cup {FromValidator(v) : v \in {w \in Validators : ~IsValid(w)}}
  \cup {Details("InvalidArgument", "OTHER", ForeignDomain, {}, <<>>)}

\* Details that do not decode: the whole header, or one typed as ErrorInfo.
Undecodable == {Garbled, [is |-> "status", details |-> <<[type |-> "google.rpc.ErrorInfo", info |-> <<>>]>>]}
Errored == {Encode(status) : status \in Raised} \cup Undecodable

\* A unary error is in the headers alone; a stream's is in real trailers.
Response == {<<Headers(header)>> : header \in Errored}
       \cup {<<Headers(Absent), Data, Trailers(header)>> : header \in Errored \cup {Absent}}

\* Mutant: only the headers of a response are rewritten.
Mut_PassFrame_HeadersOnly(frame) ==
  IF frame.kind = "headers" THEN [frame EXCEPT !.header = RewriteDetails(@)] ELSE frame

\* ResponseFuture::poll on the headers, RewriteBody::poll_frame on the rest.
PassFrame(frame) ==
  IF frame.kind = "data" THEN frame ELSE [frame EXCEPT !.header = RewriteDetails(@)]

InitResponses == response = <<Headers(Absent), Data, Trailers(Absent)>> /\ sent = <<>>

Poll == /\ Len(sent) < Len(response)
        /\ sent' = Append(sent, PassFrame(response[Len(sent) + 1]))
        /\ UNCHANGED response

NextResponse == /\ Len(sent) = Len(response)
                /\ response' \in Response
                /\ sent' = <<>>

Respond == Poll \/ NextResponse

-----------------------------------------------------------------------------

Infos(frame) == IF frame.header.is # "status" THEN {}
                ELSE {d \in ToSet(frame.header.details) : IsErrorInfo(d.type) /\ d.info # <<>>}

\* What the layer may make of one frame.
Passed(got, was) ==
  /\ \A d \in Infos(got) : d.info[1].domain # SENTINEL_DOMAIN
  /\ got.kind = was.kind /\ got.header.is = was.header.is
  /\ was.header.is = "status" =>
       /\ Len(got.header.details) = Len(was.header.details)
       /\ \A k \in DOMAIN was.header.details :
            \/ got.header.details[k] = was.header.details[k]
            \/ \E d \in Infos(was) :
                 /\ was.header.details[k] = d /\ d.info[1].domain = SENTINEL_DOMAIN
                 /\ got.header.details[k] = [d EXCEPT !.info[1].domain = SERVICE_DOMAIN]

\* Clients see one domain: wherever the status travels, no frame that left the
\* server carries the library's sentinel, a domain that is not the library's
\* and details that do not decode pass as they were, and nothing else of any
\* frame changes (aip-errordomain).
OneDomain == \A i \in DOMAIN sent : Passed(sent[i], response[i])

\* Why it holds: what was sent is what the layer makes of what was answered.
FrameInv ==
  /\ response \in Response
  /\ Len(sent) \in 0..Len(response)
  /\ sent = [i \in 1..Len(sent) |-> PassFrame(response[i])]
=============================================================================
