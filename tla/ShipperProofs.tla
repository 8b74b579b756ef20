---------------------------- MODULE ShipperProofs ----------------------------
(***************************************************************************)
(* Proofs about the Shipper handlers: ShipperInv is inductive, for any     *)
(* number of calls, names, contents and request ids, and any digest.       *)
(***************************************************************************)
EXTENDS ShipperHistory, TLAPS

(* Knowing of more spellings weakens the claim; an etag just computed       *)
(* satisfies it when its own spelling is known.                             *)
LEMMA DescribedMore ==
  ASSUME NEW s, NEW R, NEW Q, R \subseteq Q, Described(s, R)
  PROVE  Described(s, Q)
  BY DEF Described

LEMMA FreshlyDescribed ==
  ASSUME NEW s \in Shipper, NEW R, s.etag = Compute(s),
         s.spelling # Canonical => s.name \in R
  PROVE  Described(s, R)
<1>1. s.spelling \in Spellings /\ [s EXCEPT !.spelling = s.spelling] = s
  BY DEF Shipper
<1>2. s.spelling = Canonical => Row(s) = s
  BY <1>1 DEF Row
<1>3. s.etag \in Etags
  BY DEF Shipper
<1>4. QED
  BY <1>1, <1>2, <1>3 DEF Described, Check

(* Storing a shipper restores the canonical text of its name and keeps what *)
(* its etag says.                                                           *)
LEMMA RowFacts ==
  ASSUME NEW s \in Shipper, NEW R, Described(s, R)
  PROVE  /\ Row(s) \in Shipper
         /\ Row(s).name = s.name /\ Row(s).spelling = Canonical
         /\ Described(Row(s), R)
<1>1. /\ Row(s) \in Shipper /\ Row(s).name = s.name /\ Row(s).content = s.content
      /\ Row(s).spelling = Canonical /\ Row(s).etag = s.etag
  BY SpellingAssumption DEF Row, Shipper
<1>2. Row(Row(s)) = Row(s)
  BY DEF Row, Shipper
<1>3. ASSUME NEW t \in Spellings
      PROVE  Compute([Row(s) EXCEPT !.spelling = t]) = Compute([s EXCEPT !.spelling = t])
  BY DEF Row, Shipper, Compute
<1>4. QED
  BY <1>1, <1>2, <1>3 DEF Described

(* What build_shipper and the update pipeline produce is a shipper whose    *)
(* etag describes its content.                                              *)
LEMMA BuildFacts ==
  ASSUME NEW n \in Names, NEW x \in Contents
  PROVE  /\ BuildShipper(n, x) \in Shipper
         /\ BuildShipper(n, x).content = x
         /\ BuildShipper(n, x).name = n
         /\ BuildShipper(n, x).spelling = Canonical
         /\ BuildShipper(n, x).etag = Compute(BuildShipper(n, x))
<1>1. Digest[<<n, Canonical, x>>] \in Etags
  BY DigestAssumption, SpellingAssumption
<1>2. QED
  BY <1>1, SpellingAssumption DEF BuildShipper, Shipper, Compute

(* The merge of update_shipper keeps the typed name, takes the spelling of  *)
(* the request and renews the etag.                                         *)
LEMMA MergeFacts ==
  ASSUME NEW s \in Shipper, NEW t \in Spellings, NEW x \in Contents \cup {None}
  PROVE  /\ Merge(s, t, x) \in Shipper
         /\ Merge(s, t, x).name = s.name
         /\ Merge(s, t, x).spelling = t
         /\ Merge(s, t, x).etag = Compute(Merge(s, t, x))
<1> DEFINE merged == IF x = None THEN s.content ELSE x
<1>1. merged \in Contents /\ s.name \in Names
  BY DEF Shipper
<1>2. Digest[<<s.name, t, merged>>] \in Etags
  BY <1>1, DigestAssumption
<1>3. Merge(s, t, x) = [s EXCEPT !.spelling = t, !.content = merged,
                                 !.etag = Digest[<<s.name, t, merged>>]]
  BY DEF Merge
<1> HIDE DEF merged
<1>4. QED
  BY <1>1, <1>2, <1>3 DEF Shipper, Compute

(* Stamping or clearing delete_time leaves the etag right.                  *)
LEMMA StampFacts ==
  ASSUME NEW s \in Shipper, NEW b \in BOOLEAN, NEW R, Described(s, R)
  PROVE  /\ [s EXCEPT !.deleted = b] \in Shipper
         /\ Described([s EXCEPT !.deleted = b], R)
<1> DEFINE z == [s EXCEPT !.deleted = b]
<1>1. z \in Shipper /\ z.name = s.name /\ z.etag = s.etag
  BY DEF Shipper
<1>2. ASSUME NEW t \in Spellings
      PROVE  Compute([z EXCEPT !.spelling = t]) = Compute([s EXCEPT !.spelling = t])
  BY DEF Shipper, Compute
<1>3. Compute(Row(z)) = Compute(Row(s))
  BY <1>2, SpellingAssumption DEF Row
<1> HIDE DEF z
<1>4. QED
  <2>1. Described(z, R)
    BY <1>1, <1>2, <1>3 DEF Described, Check
  <2>2. QED
    BY <1>1, <2>1 DEF z

(* The history of spellings only grows, and knows those of every call.      *)
LEMMA KnownSpellings ==
  ASSUME ShipperInv, Observe
  PROVE  /\ respelled \subseteq respelled' /\ respelled' \subseteq Names
         /\ \A d \in Calls :
              (/\ call'[d].new # None /\ call'[d].new.name \in Names
               /\ call'[d].new.spelling # Canonical)
                => call'[d].new.name \in respelled'
  BY DEF ShipperInv, RowsAreCanonical, Observe, ObserveSpellings

(* Only the put of a create is entered in the history.                      *)
LEMMA ObserveNothing ==
  ASSUME ShipperInv, Observe,
         \A d \in Calls : (call[d].pc = "put" /\ call[d].method = "create")
                            => call'[d].pc = "put"
  PROVE  minted' = minted
  BY DEF Observe, ObserveMints

(* The first step of a handler that will write: it takes no lock but the    *)
(* one it reads under, so only its own call changes.                        *)
LEMMA BeginKeeps ==
  ASSUME ShipperInv, Observe, NEW c \in Calls, NEW k \in Call,
         call[c].pc = "idle", call' = [call EXCEPT ![c] = k],
         UNCHANGED <<store, idempotency, answers>>,
         k.pc = "put", k.new \in Shipper, Described(k.new, respelled'),
         k.method = "create" =>
           /\ k.request \in Request
           /\ k.new.content = k.request.content
           /\ k.request.id # NoId => idempotency[k.request.id] = None
  PROVE  ShipperInv'
<1>1. call \in [Calls -> Call] /\ call' \in [Calls -> Call] /\ call'[c] = k
  BY DEF ShipperInv, TypeOK
<1>2. \A d \in Calls : d # c => call'[d] = call[d]
  BY <1>1
<1>3. minted' = minted
  BY <1>1, <1>2, ObserveNothing
<1>4. TypeOK'
  BY <1>1 DEF ShipperInv, TypeOK
<1>5. \A d \in Calls : CallInv(d)'
  BY <1>1, <1>2 DEF ShipperInv, CallInv
<1>6. \A i \in RequestIds : RecordInv(i)'
  BY DEF ShipperInv, RecordInv
<1>7. EtagDescribesContent' /\ RowsAreCanonical'
  <2>1. respelled \subseteq respelled' /\ respelled' \subseteq Names
    BY KnownSpellings
  <2>2. \A n \in Names : store[n] # None =>
          store[n].name = n /\ Described(store[n], respelled')
    BY <2>1, DescribedMore DEF ShipperInv, EtagDescribesContent
  <2>3. \A d \in Calls : call'[d].new # None => Described(call'[d].new, respelled')
    BY <1>1, <1>2, <2>1, DescribedMore DEF ShipperInv, EtagDescribesContent
  <2>4. QED
    BY <2>1, <2>2, <2>3 DEF ShipperInv, EtagDescribesContent, RowsAreCanonical
<1>8. AnswersAreHonest'
  BY DEF ShipperInv, AnswersAreHonest
<1>9. MintInv'
  <2>1. minted \subseteq [call : Calls, id : RequestIds \cup {NoId}, name : Names]
    BY DEF ShipperInv
  <2>2. ASSUME NEW m \in minted, m.id # NoId
        PROVE  \/ idempotency'[m.id] # None
               \/ call'[m.call].pc = "record" /\ call'[m.call].request.id = m.id
    BY <1>1, <1>2, <2>1, <2>2 DEF ShipperInv, MintInv
  <2>3. ASSUME NEW d \in Calls, call'[d].pc = "put", call'[d].method = "create",
               NEW m \in minted, m.call = d, m.id = call'[d].request.id
        PROVE  m.id = NoId
    <3>1. CASE d # c
      BY <1>2, <2>3, <3>1 DEF ShipperInv, MintInv
    <3>2. CASE d = c
      BY <1>1, <2>1, <2>3, <3>2 DEF ShipperInv, MintInv
    <3>3. QED
      BY <3>1, <3>2
  <2>4. QED
    BY <1>3, <2>2, <2>3 DEF MintInv
<1>10. RetryNeverMintsTwice'
  BY <1>3 DEF ShipperInv, RetryNeverMintsTwice
<1>11. minted' \subseteq [call : Calls, id : RequestIds \cup {NoId}, name : Names]
  BY <1>3 DEF ShipperInv
<1>12. QED
  BY <1>4, <1>5, <1>6, <1>7, <1>8, <1>9, <1>10, <1>11 DEF ShipperInv

(* create_shipper past a lookup that found nothing.                         *)
LEMMA CreateMissKeeps ==
  ASSUME ShipperInv, Observe, NEW c \in Calls, NEW r \in Request, NEW n \in Names,
         CreateMiss(c, r, n)
  PROVE  ShipperInv'
<1> DEFINE s == BuildShipper(n, r.content)
           k == [pc |-> "put", method |-> "create", new |-> s, etag |-> NoEtag,
                 request |-> r]
<1>1. r.content \in Contents /\ r.id \in RequestIds \cup {NoId}
  BY DEF Request
<1>2. s \in Shipper /\ s.content = r.content /\ Described(s, respelled')
  BY <1>1, BuildFacts, FreshlyDescribed
<1>3. /\ call[c].pc = "idle" /\ call' = [call EXCEPT ![c] = k]
      /\ UNCHANGED <<store, idempotency, answers>>
  BY DEF CreateMiss, Begin
<1>4. r.id # NoId => idempotency[r.id] = None
  <2>1. SUFFICES ASSUME r.id # NoId, idempotency[r.id] # None PROVE FALSE
    OBVIOUS
  <2>2. idempotency[r.id] \in IdempotentRecord
    BY <1>1, <2>1 DEF ShipperInv, TypeOK
  <2>3. Recorded(r.id) # None
    BY <2>1, <2>2, NoRecordAssumption DEF Recorded, IdempotentRecord
  <2>4. QED
    BY <2>3 DEF CreateMiss, Outcome, Decide
<1> HIDE DEF s
<1>5. k \in Call /\ k.pc = "put" /\ k.new = s /\ k.request = r
  BY <1>2 DEF Call
<1> HIDE DEF k
<1>6. QED
  BY <1>2, <1>3, <1>4, <1>5, BeginKeeps

(* The first steps of update, delete and undelete.                          *)
LEMMA GetKeeps ==
  ASSUME ShipperInv, Observe, NEW c \in Calls, NEW n \in Names,
         \/ \E e \in Supplied :
              \/ \E t \in Spellings, x \in Contents \cup {None} : UpdateGet(c, n, t, x, e)
              \/ DeleteGet(c, n, e)
         \/ UndeleteGet(c, n)
  PROVE  ShipperInv'
<1>1. ASSUME NEW s \in Shipper, NEW method \in {"update", "delete", "undelete"},
             NEW e \in Etags \cup {NoEtag},
             Described(s, respelled) \/ s.etag = Compute(s),
             call[c].pc = "idle", Begin(c, method, s, e, None),
             UNCHANGED <<store, idempotency, answers>>
      PROVE  ShipperInv'
  <2> DEFINE k == [pc |-> "put", method |-> method, new |-> s, etag |-> e,
                   request |-> None]
  <2>1. k \in Call /\ k.pc = "put" /\ k.new = s /\ k.method # "create"
    BY <1>1 DEF Call
  <2>2. call' = [call EXCEPT ![c] = k]
    BY <1>1 DEF Begin
  <2> HIDE DEF k
  <2>3. call'[c] = k /\ s.name \in Names /\ s # None
    BY <2>2, NoShipperAssumption DEF ShipperInv, TypeOK, Shipper
  <2>4. respelled \subseteq respelled' /\ (s.spelling # Canonical => s.name \in respelled')
    BY <2>1, <2>3, KnownSpellings
  <2>5. Described(s, respelled')
    BY <1>1, <2>4, DescribedMore, FreshlyDescribed
  <2>6. QED
    BY <1>1, <2>1, <2>2, <2>5, BeginKeeps
<1>2. store[n] # None => store[n] \in Shipper /\ Described(store[n], respelled)
  BY DEF ShipperInv, TypeOK, EtagDescribesContent
<1>3. ASSUME NEW e \in Supplied, NEW s, Check(e, s) PROVE e \in Etags \cup {NoEtag}
  BY <1>3 DEF Check
<1>4. ASSUME NEW e \in Supplied, NEW t \in Spellings, NEW x \in Contents \cup {None},
             UpdateGet(c, n, t, x, e)
      PROVE  ShipperInv'
  BY <1>1, <1>2, <1>3, <1>4, MergeFacts DEF UpdateGet
<1>5. ASSUME NEW e \in Supplied, DeleteGet(c, n, e) PROVE ShipperInv'
  BY <1>1, <1>2, <1>3, <1>5, StampFacts DEF DeleteGet
<1>6. CASE UndeleteGet(c, n)
  BY <1>1, <1>2, <1>6, StampFacts DEF UndeleteGet
<1>7. QED
  BY <1>4, <1>5, <1>6

(* A replay only answers, with a recorded shipper.                          *)
LEMMA ReplayKeeps ==
  ASSUME ShipperInv, Observe, NEW c \in Calls, NEW r \in Request, CreateReplay(c, r)
  PROVE  ShipperInv'
<1>1. /\ UNCHANGED <<store, idempotency, call>>
      /\ answers' = answers \cup {[request |-> r,
                                   shipper |-> idempotency[r.id].response]}
      /\ Recorded(r.id) = r /\ r # None
  BY NoRecordAssumption DEF CreateReplay, Outcome, Decide
<1>2. minted' = minted
  BY <1>1, ObserveNothing
<1>3. r.id \in RequestIds /\ idempotency[r.id] # None /\ idempotency[r.id].request = r
  BY <1>1 DEF Recorded, Request
<1>4. /\ idempotency[r.id] \in IdempotentRecord
      /\ idempotency[r.id].response.content = r.content
      /\ store[idempotency[r.id].response.name] # None
  BY <1>3 DEF ShipperInv, TypeOK, RecordInv
<1>5. TypeOK'
  BY <1>1, <1>4 DEF ShipperInv, TypeOK, Answer, IdempotentRecord
<1>6. AnswersAreHonest'
  BY <1>1, <1>4 DEF ShipperInv, AnswersAreHonest
<1>7. /\ \A d \in Calls : CallInv(d)'
      /\ \A i \in RequestIds : RecordInv(i)'
      /\ MintInv' /\ RetryNeverMintsTwice'
  BY <1>1, <1>2 DEF ShipperInv, CallInv, RecordInv, MintInv, RetryNeverMintsTwice
<1>8. EtagDescribesContent' /\ RowsAreCanonical'
  BY <1>1, KnownSpellings, DescribedMore
     DEF ShipperInv, EtagDescribesContent, RowsAreCanonical
<1>9. QED
  BY <1>2, <1>5, <1>6, <1>7, <1>8 DEF ShipperInv

(* idempotent_record settles the id: from here on a lookup finds it.        *)
LEMMA RecordKeeps ==
  ASSUME ShipperInv, Observe, NEW c \in Calls, CreateRecord(c)
  PROVE  ShipperInv'
<1> DEFINE r == call[c].request
           s == call[c].new
           rec == [request |-> r, response |-> s]
<1>1. /\ call \in [Calls -> Call] /\ idempotency \in [RequestIds -> IdempotentRecord \cup {None}]
      /\ answers \subseteq Answer /\ store \in [Names -> Shipper \cup {None}]
      /\ minted \subseteq [call : Calls, id : RequestIds \cup {NoId}, name : Names]
  BY DEF ShipperInv, TypeOK
<1>2. /\ r \in Request /\ s \in Shipper /\ s.content = r.content
      /\ store[s.name] # None /\ call[c].pc = "record"
  BY DEF ShipperInv, CallInv, CreateRecord
<1>3. NoCall \in Call /\ NoCall.pc = "idle" /\ NoCall.new = None
  BY DEF NoCall, Call
<1>4. /\ UNCHANGED store
      /\ call' = [call EXCEPT ![c] = NoCall]
      /\ answers' = answers \cup {[request |-> r, shipper |-> s]}
      /\ r.id = NoId => idempotency' = idempotency
      /\ r.id # NoId => idempotency' = [idempotency EXCEPT ![r.id] = rec]
  BY DEF CreateRecord
<1>5. r.id \in RequestIds \cup {NoId}
  BY <1>2 DEF Request
<1>6. rec \in IdempotentRecord /\ rec # None /\ rec.request = r /\ rec.response = s
  BY <1>2, NoRecordAssumption DEF IdempotentRecord
<1> HIDE DEF r, s, rec
<1>7. /\ call' \in [Calls -> Call] /\ call'[c] = NoCall
      /\ \A d \in Calls : d # c => call'[d] = call[d]
  BY <1>1, <1>3, <1>4
<1>8. minted' = minted
  BY <1>2, <1>7, ObserveNothing
<1>9. /\ idempotency' \in [RequestIds -> IdempotentRecord \cup {None}]
      /\ r.id # NoId => idempotency'[r.id] = rec
      /\ \A i \in RequestIds : i # r.id => idempotency'[i] = idempotency[i]
  BY <1>1, <1>4, <1>5, <1>6, NoIdAssumption
<1>10. TypeOK'
  BY <1>1, <1>2, <1>4, <1>7, <1>9 DEF TypeOK, Answer
<1>11. \A d \in Calls : CallInv(d)'
  BY <1>3, <1>4, <1>7 DEF ShipperInv, CallInv
<1>12. \A i \in RequestIds : RecordInv(i)'
  BY <1>2, <1>4, <1>6, <1>9, NoIdAssumption DEF ShipperInv, RecordInv
<1>13. EtagDescribesContent' /\ RowsAreCanonical'
  <2>1. respelled \subseteq respelled' /\ respelled' \subseteq Names
    BY KnownSpellings
  <2>2. \A n \in Names : store[n] # None =>
          store[n].name = n /\ Described(store[n], respelled')
    BY <2>1, DescribedMore DEF ShipperInv, EtagDescribesContent
  <2>3. \A d \in Calls : call'[d].new # None => Described(call'[d].new, respelled')
    BY <1>3, <1>7, <2>1, DescribedMore DEF ShipperInv, EtagDescribesContent
  <2>4. QED
    BY <1>4, <2>1, <2>2, <2>3 DEF ShipperInv, EtagDescribesContent, RowsAreCanonical
<1>14. AnswersAreHonest'
  BY <1>2, <1>4 DEF ShipperInv, AnswersAreHonest
<1>15. MintInv'
  <2>1. ASSUME NEW m \in minted, m.id # NoId
        PROVE  \/ idempotency'[m.id] # None
               \/ call'[m.call].pc = "record" /\ call'[m.call].request.id = m.id
    <3>1. m.call \in Calls /\ m.id \in RequestIds
      BY <1>1, <2>1
    <3>2. CASE idempotency[m.id] # None
      BY <1>6, <1>9, <2>1, <3>1, <3>2
    <3>3. CASE call[m.call].pc = "record" /\ call[m.call].request.id = m.id
      BY <1>6, <1>7, <1>9, <2>1, <3>1, <3>3 DEF r
    <3>4. QED
      BY <2>1, <3>2, <3>3 DEF ShipperInv, MintInv
  <2>2. ASSUME NEW d \in Calls, call'[d].pc = "put", call'[d].method = "create",
               NEW m \in minted, m.call = d, m.id = call'[d].request.id
        PROVE  m.id = NoId
    BY <1>3, <1>7, <2>2 DEF ShipperInv, MintInv
  <2>3. QED
    BY <1>8, <2>1, <2>2 DEF MintInv
<1>16. RetryNeverMintsTwice'
  BY <1>8 DEF ShipperInv, RetryNeverMintsTwice
<1>17. QED
  BY <1>1, <1>8, <1>10, <1>11, <1>12, <1>13, <1>14, <1>15, <1>16 DEF ShipperInv

(* put_shipper: the upsert never removes a shipper, and the create that     *)
(* makes it enters the history once.                                        *)
LEMMA PutKeeps ==
  ASSUME ShipperInv, Observe, NEW c \in Calls, Put(c)
  PROVE  ShipperInv'
<1> DEFINE s == call[c].new
           k == IF call[c].method = "create" THEN [call[c] EXCEPT !.pc = "record"]
                                             ELSE NoCall
<1>1. /\ call \in [Calls -> Call] /\ call[c] \in Call
      /\ store \in [Names -> Shipper \cup {None}]
      /\ minted \subseteq [call : Calls, id : RequestIds \cup {NoId}, name : Names]
  BY DEF ShipperInv, TypeOK
<1>2. /\ s \in Shipper /\ call[c].pc = "put" /\ Described(s, respelled) /\ s # None
  BY NoShipperAssumption DEF ShipperInv, CallInv, Put, EtagDescribesContent
<1>a. /\ Row(s) \in Shipper /\ Row(s).name = s.name /\ Row(s).spelling = Canonical
      /\ Described(Row(s), respelled) /\ Row(s) # None
  BY <1>2, RowFacts, NoShipperAssumption
<1>3. NoCall \in Call /\ NoCall.pc = "idle" /\ NoCall.new = None
  BY DEF NoCall, Call
<1>4. /\ k \in Call
      /\ call[c].method = "create" => /\ k.pc = "record" /\ k.new = s
                                      /\ k.method = "create"
                                      /\ k.request = call[c].request
      /\ call[c].method # "create" => k = NoCall
  BY <1>1, <1>3 DEF Call
<1>5. /\ UNCHANGED <<idempotency, answers>>
      /\ store' = [store EXCEPT ![s.name] = Row(s)]
      /\ call' = [call EXCEPT ![c] = k]
  BY DEF Put
<1> HIDE DEF s, k
<1>6. s.name \in Names
  BY <1>2 DEF Shipper
<1>7. /\ store' \in [Names -> Shipper \cup {None}] /\ store'[s.name] = Row(s)
      /\ \A n \in Names : n # s.name => store'[n] = store[n]
      /\ \A n \in Names : store[n] # None => store'[n] # None
  BY <1>1, <1>a, <1>5, <1>6
<1>8. /\ call' \in [Calls -> Call] /\ call'[c] = k
      /\ \A d \in Calls : d # c => call'[d] = call[d]
  BY <1>1, <1>4, <1>5
<1>9. TypeOK'
  BY <1>5, <1>7, <1>8 DEF ShipperInv, TypeOK
<1>10. ASSUME NEW d \in Calls PROVE CallInv(d)'
  <2>1. CASE d = c
    BY <1>2, <1>a, <1>3, <1>4, <1>7, <1>8, <2>1 DEF ShipperInv, CallInv, s
  <2>2. CASE d # c
    <3>1. CallInv(d) /\ call'[d] = call[d]
      BY <1>8, <2>2 DEF ShipperInv
    <3>2. call[d].pc = "record" => call[d].new.name \in Names
      BY <3>1 DEF CallInv, Shipper
    <3>3. QED
      BY <1>7, <3>1, <3>2 DEF CallInv
  <2>3. QED
    BY <2>1, <2>2
<1>11. ASSUME NEW i \in RequestIds PROVE RecordInv(i)'
  <2>1. idempotency[i] # None => idempotency[i].response.name \in Names
    BY DEF ShipperInv, TypeOK, IdempotentRecord, Shipper
  <2>2. QED
    BY <1>5, <1>7, <2>1 DEF ShipperInv, RecordInv
<1>12. EtagDescribesContent' /\ RowsAreCanonical'
  <2>1. respelled \subseteq respelled' /\ respelled' \subseteq Names
    BY KnownSpellings
  <2>2. \A n \in Names : store'[n] # None =>
          /\ store'[n].name = n /\ store'[n].spelling = Canonical
          /\ Described(store'[n], respelled)
    BY <1>a, <1>7 DEF ShipperInv, EtagDescribesContent, RowsAreCanonical
  <2>3. \A d \in Calls : call'[d].new # None => Described(call'[d].new, respelled)
    BY <1>2, <1>3, <1>4, <1>8 DEF ShipperInv, EtagDescribesContent
  <2>4. QED
    BY <2>1, <2>2, <2>3, DescribedMore DEF EtagDescribesContent, RowsAreCanonical
<1>13. AnswersAreHonest'
  <2>1. \A a \in answers : a.shipper.name \in Names
    BY DEF ShipperInv, TypeOK, Answer, Shipper
  <2>2. QED
    BY <1>5, <1>7, <2>1 DEF ShipperInv, AnswersAreHonest
<1>14. CASE call[c].method # "create"
  <2>1. minted' = minted
    BY <1>8, <1>14, ObserveNothing
  <2>2. MintInv'
    <3>1. ASSUME NEW m \in minted, m.id # NoId
          PROVE  \/ idempotency'[m.id] # None
                 \/ call'[m.call].pc = "record" /\ call'[m.call].request.id = m.id
      <4>1. m.call \in Calls
        BY <1>1
      <4>2. QED
        BY <1>2, <1>5, <1>8, <3>1, <4>1 DEF ShipperInv, MintInv
    <3>2. ASSUME NEW d \in Calls, call'[d].pc = "put", call'[d].method = "create",
                 NEW m \in minted, m.call = d, m.id = call'[d].request.id
          PROVE  m.id = NoId
      BY <1>3, <1>4, <1>8, <1>14, <3>2 DEF ShipperInv, MintInv
    <3>3. QED
      BY <2>1, <3>1, <3>2 DEF MintInv
  <2>3. QED
    BY <1>1, <1>9, <1>10, <1>11, <1>12, <1>13, <2>1, <2>2
       DEF ShipperInv, RetryNeverMintsTwice
<1>15. CASE call[c].method = "create"
  <2> DEFINE new == [call |-> c, id |-> call[c].request.id, name |-> s.name]
  <2>1. minted' = minted \cup {new}
    <3>1. {d \in Calls : call[d].pc = "put" /\ call[d].method = "create"
                         /\ call'[d].pc # "put"} = {c}
      BY <1>2, <1>4, <1>8, <1>15
    <3>2. QED
      BY <3>1 DEF Observe, ObserveMints, s
  <2>2. call[c].request \in Request /\ call[c].request.id \in RequestIds \cup {NoId}
    BY <1>2, <1>15 DEF ShipperInv, CallInv, Request
  <2>3. /\ new \in [call : Calls, id : RequestIds \cup {NoId}, name : Names]
        /\ new.call = c /\ new.id = call[c].request.id /\ new.name = s.name
    BY <1>6, <2>2
  <2>4. ASSUME NEW m \in minted, m.call = c, m.id = call[c].request.id PROVE m.id = NoId
    BY <1>2, <1>15, <2>4 DEF ShipperInv, MintInv
  <2> HIDE DEF new
  <2>5. MintInv'
    <3>1. ASSUME NEW m \in minted', m.id # NoId
          PROVE  \/ idempotency'[m.id] # None
                 \/ call'[m.call].pc = "record" /\ call'[m.call].request.id = m.id
      <4>1. CASE m = new
        BY <1>4, <1>8, <1>15, <2>3, <4>1
      <4>2. CASE m \in minted
        <5>1. m.call \in Calls
          BY <1>1, <4>2
        <5>2. QED
          BY <1>2, <1>5, <1>8, <3>1, <4>2, <5>1 DEF ShipperInv, MintInv
      <4>3. QED
        BY <2>1, <4>1, <4>2
    <3>2. ASSUME NEW d \in Calls, call'[d].pc = "put", call'[d].method = "create",
                 NEW m \in minted', m.call = d, m.id = call'[d].request.id
          PROVE  m.id = NoId
      <4>1. d # c
        BY <1>4, <1>8, <1>15, <3>2
      <4>2. m \in minted
        BY <2>1, <2>3, <3>2, <4>1
      <4>3. QED
        BY <1>8, <3>2, <4>1, <4>2 DEF ShipperInv, MintInv
    <3>3. QED
      BY <3>1, <3>2 DEF MintInv
  <2>6. RetryNeverMintsTwice'
    <3>1. ASSUME NEW m1 \in minted', NEW m2 \in minted',
                 m1.id # NoId, m1.id = m2.id, m1.call = m2.call
          PROVE  m1.name = m2.name
      <4>1. CASE m1 \in minted /\ m2 \in minted
        BY <3>1, <4>1 DEF ShipperInv, RetryNeverMintsTwice
      <4>2. CASE m1 = new \/ m2 = new
        BY <2>1, <2>3, <2>4, <3>1, <4>2
      <4>3. QED
        BY <2>1, <4>1, <4>2
    <3>2. QED
      BY <3>1 DEF RetryNeverMintsTwice
  <2>7. QED
    BY <1>1, <1>9, <1>10, <1>11, <1>12, <1>13, <2>1, <2>3, <2>5, <2>6 DEF ShipperInv
<1>16. QED
  BY <1>14, <1>15

------------------------------------------------------------------------------
(* The inductive invariant of the Shipper handlers: it holds however their  *)
(* gets, puts and idempotency records interleave.                           *)
THEOREM ShipperInvariant == HSpec => []ShipperInv
<1>1. HInit => ShipperInv
  <2>1. NoCall \in Call /\ NoCall.pc = "idle" /\ NoCall.new = None
    BY DEF NoCall, Call
  <2>2. QED
    BY <2>1 DEF HInit, Init, ShipperInv, TypeOK, CallInv, RecordInv,
                EtagDescribesContent, RowsAreCanonical, AnswersAreHonest, MintInv,
                RetryNeverMintsTwice
<1>2. ASSUME ShipperInv, [HNext]_hvars PROVE ShipperInv'
  <2>1. CASE UNCHANGED hvars
    BY <1>2, <2>1 DEF hvars, vars, ShipperInv, TypeOK, CallInv, RecordInv,
                EtagDescribesContent, RowsAreCanonical, AnswersAreHonest, MintInv,
                RetryNeverMintsTwice
  <2>2. CASE Next /\ Observe
    BY <1>2, <2>2, CreateMissKeeps, ReplayKeeps, GetKeeps, PutKeeps, RecordKeeps DEF Next
  <2>3. QED
    BY <1>2, <2>1, <2>2 DEF HNext
<1>3. QED
  BY <1>1, <1>2, PTL DEF HSpec

(* The stored etag is always the digest of the content it is stored with,   *)
(* under a spelling some update carried: the one aip_etag::check will       *)
(* compute unless that spelling was another than the canonical one.         *)
THEOREM EtagsDescribe == HSpec => []EtagDescribesContent
<1>1. ShipperInv => EtagDescribesContent
  BY DEF ShipperInv
<1>2. QED
  BY <1>1, ShipperInvariant, PTL

(* Every answer of CreateShipper is honest.                                 *)
THEOREM HonestAnswers == HSpec => []AnswersAreHonest
<1>1. ShipperInv => AnswersAreHonest
  BY DEF ShipperInv
<1>2. QED
  BY <1>1, ShipperInvariant, PTL

(* A sequential retry with a request_id creates one shipper.                *)
THEOREM SequentialRetryIsSafe == HSpec => []RetryNeverMintsTwice
<1>1. ShipperInv => RetryNeverMintsTwice
  BY DEF ShipperInv
<1>2. QED
  BY <1>1, ShipperInvariant, PTL
==============================================================================
