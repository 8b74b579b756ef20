------------------------------- MODULE Errors -------------------------------
(* How a failure reaches a client: each crate's `From<Error> for             *)
(* tonic::Status` with its AIP-193 details, aip-validation's accumulator,    *)
(* and the aip-errordomain layer that rewrites the library's domain in the   *)
(* headers or the trailers of a response.                                    *)
EXTENDS Sequences, SequencesExt

CONSTANT SERVICE_DOMAIN   \* what main.rs hands to the layer

SENTINEL_DOMAIN == "aip-rs"

ASSUME DomainAssumption == SERVICE_DOMAIN # SENTINEL_DOMAIN

\* A status with its ErrorInfo and the fields of its BadRequest.
Details(code, reason, domain, keys, fields) ==
  [code |-> code, info |-> <<[reason |-> reason, domain |-> domain, keys |-> keys]>>, fields |-> fields]
Bare(code) == [code |-> code, info |-> <<>>, fields |-> <<>>]

Row(code, reason, keys) == [code |-> code, reason |-> reason, keys |-> keys]
Invalid(reason, keys)   == Row("InvalidArgument", reason, keys)

-----------------------------------------------------------------------------
(* One table for each crate: the rows of its `match`.                        *)

ResourceNameTable ==
  [Empty           |-> Invalid("RESOURCE_NAME_EMPTY", {}),
   EmptySegment    |-> Invalid("RESOURCE_NAME_EMPTY_SEGMENT", {"index"}),
   InvalidDnsName  |-> Invalid("RESOURCE_NAME_INVALID_SEGMENT", {"segment"}),
   PatternMismatch |-> Invalid("RESOURCE_NAME_PATTERN_MISMATCH", {"pattern"}),
   InvalidPattern  |-> Invalid("RESOURCE_NAME_INVALID_PATTERN", {"detail"}),
   VariableInName  |-> Invalid("RESOURCE_NAME_VARIABLE_IN_NAME", {"segment"}),
   MissingVariable |-> Invalid("RESOURCE_NAME_MISSING_VARIABLE", {"variable"}),
   UnknownVariable |-> Invalid("RESOURCE_NAME_UNKNOWN_VARIABLE", {"variable"}),
   InvalidVariable |-> Invalid("RESOURCE_NAME_INVALID_VARIABLE", {"variable", "reason"})]

\* `From<FieldError>` spells its table out again.
FieldErrorTable ==
  [Empty           |-> Invalid("RESOURCE_NAME_EMPTY", {}),
   EmptySegment    |-> Invalid("RESOURCE_NAME_EMPTY_SEGMENT", {"index"}),
   InvalidDnsName  |-> Invalid("RESOURCE_NAME_INVALID_SEGMENT", {"segment"}),
   PatternMismatch |-> Invalid("RESOURCE_NAME_PATTERN_MISMATCH", {"pattern"}),
   InvalidPattern  |-> Invalid("RESOURCE_NAME_INVALID_PATTERN", {"detail"}),
   VariableInName  |-> Invalid("RESOURCE_NAME_VARIABLE_IN_NAME", {"segment"}),
   MissingVariable |-> Invalid("RESOURCE_NAME_MISSING_VARIABLE", {"variable"}),
   UnknownVariable |-> Invalid("RESOURCE_NAME_UNKNOWN_VARIABLE", {"variable"}),
   InvalidVariable |-> Invalid("RESOURCE_NAME_INVALID_VARIABLE", {"variable", "reason"})]

ResourceIdTable ==
  [Length            |-> Invalid("RESOURCE_ID_LENGTH", {"length"}),
   LeadingCharacter  |-> Invalid("RESOURCE_ID_LEADING_CHARACTER", {}),
   TrailingCharacter |-> Invalid("RESOURCE_ID_TRAILING_CHARACTER", {}),
   Character         |-> Invalid("RESOURCE_ID_INVALID_CHARACTER", {"character", "position"})]

RequestIdTable == [NotAUuid |-> Invalid("REQUEST_ID_INVALID", {"length"})]

EtagTable == [Mismatch  |-> Row("Aborted", "ETAG_MISMATCH", {}),
              Malformed |-> Invalid("ETAG_MALFORMED", {"etag"})]

SoftDeleteTable ==
  [Deleted        |-> Row("NotFound", "SOFT_DELETE_NOT_FOUND", {"name"}),
   NotDeleted     |-> Row("AlreadyExists", "SOFT_DELETE_NOT_DELETED", {"name"}),
   FilterRequired |-> Invalid("PURGE_FILTER_REQUIRED", {})]

OrderingTable == [Syntax       |-> Invalid("ORDER_BY_SYNTAX", {"detail"}),
                  UnknownField |-> Invalid("ORDER_BY_UNKNOWN_FIELD", {"field"})]

PaginationTable ==
  [Malformed          |-> Invalid("PAGE_TOKEN_MALFORMED", {}),
   UnsupportedVersion |-> Invalid("PAGE_TOKEN_UNSUPPORTED_VERSION", {"found", "expected"}),
   ChecksumMismatch   |-> Invalid("PAGE_TOKEN_CHECKSUM_MISMATCH", {}),
   Decode             |-> Invalid("PAGE_TOKEN_DECODE", {"detail"}),
   NegativePageSize   |-> Invalid("PAGE_SIZE_NEGATIVE", {"page_size"})]

FilteringTable ==
  [Syntax            |-> Invalid("FILTER_SYNTAX", {"position", "detail"}),
   Type              |-> Invalid("FILTER_TYPE", {"detail"}),
   UndeclaredIdent   |-> Invalid("FILTER_UNDECLARED_IDENTIFIER", {"identifier"}),
   UnknownField      |-> Invalid("FILTER_UNKNOWN_FIELD", {"path", "message"}),
   UnfilterableField |-> Invalid("FILTER_UNFILTERABLE_FIELD", {"path", "message", "detail"})]

\* UnknownIdentifier is a server fault and carries no details.
SqlTable == [Unsupported     |-> Invalid("FILTER_UNSUPPORTED", {"detail"}),
             InvalidDuration |-> Invalid("FILTER_INVALID_DURATION", {"literal"})]

FieldMaskTable ==
  [UnknownPath      |-> Invalid("FIELD_MASK_UNKNOWN_PATH", {"path", "message"}),
   WildcardNotAlone |-> Invalid("FIELD_MASK_WILDCARD_NOT_ALONE", {}),
   TypeMismatch     |-> Invalid("FIELD_MASK_TYPE_MISMATCH", {"dst", "src"})]

FieldBehaviorTable ==
  [RequiredFields |-> Invalid("FIELD_REQUIRED", {"fields"}),
   ImmutableField |-> Invalid("FIELD_IMMUTABLE", {"path"}),
   TypeMismatch   |-> Invalid("FIELD_BEHAVIOR_TYPE_MISMATCH", {"old", "updated"})]

ReflectTable ==
  [InvalidResourceType      |-> Invalid("RESOURCE_TYPE_INVALID", {"resource_type", "detail"}),
   InvalidResourceReference |-> Invalid("RESOURCE_REFERENCE_INVALID", {"field", "value", "type"})]

LroTable ==
  [NameInvalid        |-> Invalid("OPERATION_NAME_INVALID", {"name"}),
   NotFound           |-> Row("NotFound", "OPERATION_NOT_FOUND", {"name"}),
   AlreadyDone        |-> Row("FailedPrecondition", "OPERATION_ALREADY_DONE", {"name"}),
   Malformed          |-> Row("Internal", "OPERATION_MALFORMED", {"detail"}),
   TypeMismatch       |-> Row("Internal", "OPERATION_MALFORMED", {"expected", "got"}),
   WaitTimeoutInvalid |-> Invalid("OPERATION_WAIT_TIMEOUT_INVALID", {}),
   Aborted            |-> Row("Aborted", "OPERATION_ABORTED", {"name"})]

IamTable ==
  [MemberEmpty         |-> Invalid("IAM_MEMBER_EMPTY", {}),
   MemberUnknownType   |-> Invalid("IAM_MEMBER_UNKNOWN_TYPE", {"prefix"}),
   MemberEmptyValue    |-> Invalid("IAM_MEMBER_EMPTY_VALUE", {"kind"}),
   RoleMalformed       |-> Invalid("IAM_ROLE_MALFORMED", {"role"}),
   PermissionMalformed |-> Invalid("IAM_PERMISSION_MALFORMED", {"permission"}),
   PolicyConditionRequiresVersion3 |-> Invalid("IAM_POLICY_CONDITION_REQUIRES_VERSION_3", {"version"}),
   PolicyEtagMismatch  |-> Row("Aborted", "IAM_POLICY_ETAG_MISMATCH", {}),
   ConditionMalformed  |-> Invalid("IAM_CONDITION_MALFORMED", {"expression", "detail"}),
   ConditionEvaluation |-> Invalid("IAM_CONDITION_EVALUATION_FAILED", {"expression", "detail"})]

Tables ==
  [resourcename |-> ResourceNameTable, resourceid |-> ResourceIdTable, requestid |-> RequestIdTable,
   etag |-> EtagTable, softdelete |-> SoftDeleteTable, ordering |-> OrderingTable,
   pagination |-> PaginationTable, filtering |-> FilteringTable, sql |-> SqlTable,
   fieldmask |-> FieldMaskTable, fieldbehavior |-> FieldBehaviorTable, reflect |-> ReflectTable,
   lro |-> LroTable, iam |-> IamTable]

ToStatus(row, fields) == Details(row.code, row.reason, SENTINEL_DOMAIN, row.keys, fields)

\* The BadRequest names a path of the request: a sequence of field names.
Violates(crate, e, field) ==
  CASE crate = "fieldbehavior" /\ e # "TypeMismatch"     -> <<field>>
    [] crate = "fieldmask" /\ e = "UnknownPath"          -> <<field>>
    [] crate = "ordering" /\ e = "UnknownField"          -> <<field>>
    [] crate = "reflect" /\ e = "InvalidResourceReference" -> <<field>>
    [] crate = "pagination" /\ e = "NegativePageSize"    -> << <<"page_size">> >>
    [] OTHER                                             -> <<>>

FromError(crate, e, field) == ToStatus(Tables[crate][e], Violates(crate, e, field))
FromFieldError(e, field)   == ToStatus(FieldErrorTable[e], <<field>>)
FromUnknownIdentifier      == Bare("Internal")

-----------------------------------------------------------------------------
(* aip-iam authz.rs, and the `conflict` of aip-requestid.                    *)

Conflict == Details("AlreadyExists", "REQUEST_ID_CONFLICT", SENTINEL_DOMAIN, {"request_id"}, <<>>)

PermissionDenied ==
  Details("PermissionDenied", "IAM_PERMISSION_DENIED", SENTINEL_DOMAIN, {"permission", "resource"}, <<>>)

NotFoundViaParent(parentReadAllowed) ==
  IF parentReadAllowed
  THEN Details("NotFound", "IAM_RESOURCE_NOT_FOUND", SENTINEL_DOMAIN, {"resource"}, <<>>)
  ELSE PermissionDenied

-----------------------------------------------------------------------------
(* aip-validation.                                                           *)

Validator(domain, reason) == [domain |-> domain, reason |-> reason, parent |-> <<>>, violations |-> <<>>]
SetParentField(v, parent) == [v EXCEPT !.parent = parent]
AddFieldViolation(v, field) == [v EXCEPT !.violations = Append(@, v.parent \o field)]

\* The violations of `inner` come in under `field`, and the parent is restored.
AddFieldError(v, field, inner) ==
  SetParentField(FoldLeft(AddFieldViolation, SetParentField(v, v.parent \o field), inner.violations), v.parent)

IsValid(v)         == v.violations = <<>>
FromValidator(v)   == Details("InvalidArgument", v.reason, v.domain, {"fields"}, v.violations)

-----------------------------------------------------------------------------
(* aip-errordomain.  `grpc-status-details-bin` is "absent", "garbled", or a  *)
(* sequence of details; a detail has a type and, when it decodes, an info.   *)

IsErrorInfo(type) == type \in {"type.googleapis.com/google.rpc.ErrorInfo", "google.rpc.ErrorInfo"}

RewriteDetail(d) ==
  IF IsErrorInfo(d.type) /\ d.info # <<>> /\ d.info[1].domain = SENTINEL_DOMAIN
  THEN [d EXCEPT !.info[1].domain = SERVICE_DOMAIN] ELSE d

RewriteDetails(header) ==
  IF header.is = "status"
  THEN [header EXCEPT !.details = [i \in DOMAIN @ |-> RewriteDetail(@[i])]] ELSE header

Absent  == [is |-> "absent"]
Garbled == [is |-> "garbled"]
\* How tonic puts a status on the wire: one Any for each kind of details.
Encode(status) ==
  [is |-> "status",
   details |-> [i \in DOMAIN status.info |->
                 [type |-> "type.googleapis.com/google.rpc.ErrorInfo", info |-> <<status.info[i]>>]]
               \o (IF status.fields = <<>> THEN <<>>
                   ELSE <<[type |-> "type.googleapis.com/google.rpc.BadRequest", info |-> <<>>]>>)]
=============================================================================
