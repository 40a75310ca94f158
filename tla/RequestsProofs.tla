--------------------------- MODULE RequestsProofs ---------------------------
(***************************************************************************)
(* Proofs about the recognition of repeated requests, for any currency     *)
(* codes, instruments and other fields.                                    *)
(***************************************************************************)
EXTENDS Requests, TLAPS

\* What the request m that made a row left in it.
MadeBy(m, version) ==
    /\ version = "current" =>
          /\ ValidateRouterRequest(Canonical(m))
          /\ row = [hash |-> Canonical(m), columns |-> Columns(Canonical(m))]
    /\ version = "legacy" =>
          /\ m \in LegacyRequests
          /\ row = [hash |-> m, columns |-> Columns(m)]

\* The inductive invariant: rows tell which request made them, by the version
\* that wrote them.
RowsRemember ==
    /\ row = None <=> maker = None
    /\ row # None => /\ row \in Rows /\ maker \in Makers
                     /\ MadeBy(maker.request, maker.version)
    /\ last # None => last \in Replies

\* Upper, Lower and Trim keep words words.
LEMMA SpellingTypes ==
  ASSUME NEW W, NEW s \in Spelled(W)
  PROVE  Upper(s) \in Spelled(W) /\ Lower(s) \in Spelled(W) /\ Trim(s) \in Spelled(W)
  BY DEF Spelled, Upper, Lower, Trim

\* The three functions set one field each.
LEMMA SpellingFields ==
  ASSUME NEW W, NEW s \in Spelled(W)
  PROVE  /\ Upper(s) = [word |-> s.word, case |-> "upper", padding |-> s.padding]
         /\ Lower(s) = [word |-> s.word, case |-> "lower", padding |-> s.padding]
         /\ Trim(s) = [word |-> s.word, case |-> s.case, padding |-> "none"]
  BY DEF Spelled, Upper, Lower, Trim

\* A request with another currency or instrument.
LEMMA WithCurrency ==
  ASSUME NEW r \in AllRequests, NEW c \in Spelled(Codes)
  PROVE  /\ [r EXCEPT !.currency = c] \in AllRequests
         /\ [r EXCEPT !.currency = c]
               = [currency |-> c, instrument |-> r.instrument, rest |-> r.rest]
  BY DEF AllRequests

LEMMA WithInstrument ==
  ASSUME NEW r \in AllRequests, NEW i \in Spelled(Names)
  PROVE  /\ [r EXCEPT !.instrument = i] \in AllRequests
         /\ [r EXCEPT !.instrument = i]
               = [currency |-> r.currency, instrument |-> i, rest |-> r.rest]
  BY DEF AllRequests

LEMMA WithBoth ==
  ASSUME NEW r \in AllRequests, NEW c \in Spelled(Codes), NEW i \in Spelled(Names)
  PROVE  [r EXCEPT !.currency = c, !.instrument = i]
            = [currency |-> c, instrument |-> i, rest |-> r.rest]
<1> DEFINE q == [r EXCEPT !.currency = c]
<1>1. /\ q \in AllRequests
      /\ q = [currency |-> c, instrument |-> r.instrument, rest |-> r.rest]
  BY WithCurrency
<1>2. [q EXCEPT !.instrument = i] = [currency |-> c, instrument |-> i, rest |-> r.rest]
  <2> HIDE DEF q
  <2> QED
    BY <1>1, WithInstrument
<1> QED
  BY <1>2

\* The canonical request in full.
LEMMA CanonicalFields ==
  ASSUME NEW r \in AllRequests
  PROVE  /\ Canonical(r) \in AllRequests
         /\ Canonical(r) =
              [currency |-> [word |-> r.currency.word, case |-> "upper",
                             padding |-> "none"],
               instrument |-> [word |-> r.instrument.word, case |-> "lower",
                               padding |-> "none"],
               rest |-> r.rest]
<1>1. r.currency \in Spelled(Codes) /\ r.instrument \in Spelled(Names)
  BY DEF AllRequests
<1>2. /\ Trim(r.currency) \in Spelled(Codes) /\ Trim(r.instrument) \in Spelled(Names)
      /\ Upper(Trim(r.currency)) \in Spelled(Codes)
      /\ Lower(Trim(r.instrument)) \in Spelled(Names)
  BY <1>1, SpellingTypes
<1>3. /\ Upper(Trim(r.currency)) = [word |-> r.currency.word, case |-> "upper",
                                    padding |-> "none"]
      /\ Lower(Trim(r.instrument)) = [word |-> r.instrument.word, case |-> "lower",
                                      padding |-> "none"]
  BY <1>1, <1>2, SpellingFields
<1>4. Canonical(r) = [currency |-> Upper(Trim(r.currency)),
                      instrument |-> Lower(Trim(r.instrument)), rest |-> r.rest]
  BY <1>2, WithBoth DEF Canonical
<1> QED
  BY <1>2, <1>3, <1>4 DEF AllRequests

\* The columns of a request: its currency in upper case, the rest as it is.
LEMMA ColumnsFields ==
  ASSUME NEW r \in AllRequests
  PROVE  /\ Columns(r) \in AllRequests
         /\ Columns(r) =
              [currency |-> [word |-> r.currency.word, case |-> "upper",
                             padding |-> r.currency.padding],
               instrument |-> r.instrument, rest |-> r.rest]
<1>1. r.currency \in Spelled(Codes)
  BY DEF AllRequests
<1>2. /\ Upper(r.currency) \in Spelled(Codes)
      /\ Upper(r.currency) = [word |-> r.currency.word, case |-> "upper",
                              padding |-> r.currency.padding]
  BY <1>1, SpellingTypes, SpellingFields
<1> QED
  BY <1>2, WithCurrency DEF Columns

\* The third of the hashes that create compares.
LEMMA LegacyFields ==
  ASSUME NEW r \in AllRequests
  PROVE  /\ LegacyCanonicalHash(r) \in AllRequests
         /\ LegacyCanonicalHash(r) =
              [currency |-> [word |-> r.currency.word, case |-> "lower",
                             padding |-> "none"],
               instrument |-> [word |-> r.instrument.word, case |-> "lower",
                               padding |-> "none"],
               rest |-> r.rest]
<1> DEFINE q == Canonical(r)
<1>1. /\ q \in AllRequests
      /\ q.currency = [word |-> r.currency.word, case |-> "upper", padding |-> "none"]
      /\ q.instrument = [word |-> r.instrument.word, case |-> "lower",
                         padding |-> "none"]
      /\ q.rest = r.rest
  BY CanonicalFields
<1> HIDE DEF q
<1>2. q.currency \in Spelled(Codes)
  BY <1>1 DEF AllRequests
<1>3. /\ Lower(q.currency) \in Spelled(Codes)
      /\ Lower(q.currency) = [word |-> r.currency.word, case |-> "lower",
                              padding |-> "none"]
  BY <1>1, <1>2, SpellingTypes, SpellingFields
<1>4. /\ [q EXCEPT !.currency = Lower(q.currency)] \in AllRequests
      /\ [q EXCEPT !.currency = Lower(q.currency)] =
           [currency |-> Lower(q.currency), instrument |-> q.instrument,
            rest |-> q.rest]
  BY <1>1, <1>3, WithCurrency
<1> QED
  BY <1>1, <1>3, <1>4 DEF LegacyCanonicalHash, RequestHash, q

\* Requests that say the same have the same canonical form.
LEMMA SameCanonical ==
  ASSUME NEW r \in AllRequests, NEW q \in AllRequests,
         r.currency.word = q.currency.word, r.instrument.word = q.instrument.word,
         r.rest = q.rest
  PROVE  Canonical(r) = Canonical(q)
  BY CanonicalFields

\* Canonical changes neither what it has made nor what the columns hold of it.
LEMMA CanonicalIsStable ==
  ASSUME NEW r \in AllRequests
  PROVE  /\ Canonical(Canonical(r)) = Canonical(r)
         /\ Canonical(Columns(r)) = Canonical(r)
         /\ Canonical(LegacyCanonicalHash(r)) = Canonical(r)
         /\ Columns(Canonical(r)) = Canonical(r)
<1>1. Canonical(Canonical(r)) = Canonical(r)
  BY CanonicalFields, SameCanonical
<1>2. Canonical(Columns(r)) = Canonical(r)
  BY ColumnsFields, SameCanonical
<1>3. Canonical(LegacyCanonicalHash(r)) = Canonical(r)
  BY LegacyFields, SameCanonical
<1>4. Columns(Canonical(r)) = Canonical(r)
  BY CanonicalFields, ColumnsFields
<1> QED
  BY <1>1, <1>2, <1>3, <1>4

\* Whichever of the three hashes agrees, the two requests mean the same.
LEMMA SameMeansSame ==
  ASSUME NEW r \in AllRequests, NEW hash \in AllRequests, Same(r, hash)
  PROVE  Canonical(hash) = Canonical(r)
  BY CanonicalIsStable DEF Same, RequestHash

\* Validation of a canonical request looks at its words only.
LEMMA CanonicalValid ==
  ASSUME NEW r \in AllRequests
  PROVE  ValidateRouterRequest(Canonical(r)) <=>
            /\ r.rest \in ValidRests
            /\ r.currency.word \in ValidCodes
            /\ r.instrument.word \in {"card", "bank_transfer", "wallet"}
<1> DEFINE q == Canonical(r)
<1>1. /\ q \in AllRequests
      /\ q.currency.word = r.currency.word
      /\ q.instrument = [word |-> r.instrument.word, case |-> "lower",
                         padding |-> "none"]
      /\ q.rest = r.rest
  BY CanonicalFields
<1> HIDE DEF q
<1>2. q.instrument \in Spelled(Names)
  BY <1>1 DEF AllRequests
<1>3. q.instrument = Lower(Trim(q.instrument))
  BY <1>1, <1>2, SpellingTypes, SpellingFields
<1>4. ValidateRouterRequest(q) <=>
            /\ r.rest \in ValidRests
            /\ r.currency.word \in ValidCodes
            /\ r.instrument.word \in {"card", "bank_transfer", "wallet"}
  BY <1>1, <1>3 DEF ValidateRouterRequest
<1> QED
  BY <1>4 DEF q

\* A request of an earlier version was canonical but for the case of its
\* currency.
LEMMA LegacyShape ==
  ASSUME NEW m \in LegacyRequests
  PROVE  /\ m \in AllRequests
         /\ Columns(m) = Canonical(m)
         /\ ValidateRouterRequest(Canonical(m))
         /\ m.currency.case = "upper" => m = Canonical(m)
         /\ m.currency.case = "lower" => m = LegacyCanonicalHash(m)
         /\ m.currency.case \in {"upper", "lower", "mixed"}
<1>1. m \in AllRequests /\ ValidateRouterRequest(m) /\ m.currency.padding = "none"
  BY DEF LegacyRequests
<1>2. m.currency \in Spelled(Codes) /\ m.instrument \in Spelled(Names)
  BY <1>1 DEF AllRequests
<1>3. m.instrument = [word |-> m.instrument.word, case |-> "lower", padding |-> "none"]
  <2>1. m.instrument = Lower(Trim(m.instrument))
    BY <1>1 DEF ValidateRouterRequest
  <2> QED
    BY <1>2, <2>1, SpellingTypes, SpellingFields
<1>4. /\ m.currency = [word |-> m.currency.word, case |-> m.currency.case,
                       padding |-> "none"]
      /\ m.currency.case \in {"upper", "lower", "mixed"}
  BY <1>1, <1>2 DEF Spelled
<1>5. m = [currency |-> m.currency, instrument |-> m.instrument, rest |-> m.rest]
  BY <1>1 DEF AllRequests
<1>6. Columns(m) = Canonical(m)
  <2> DEFINE c == [word |-> m.currency.word, case |-> "upper", padding |-> "none"]
  <2>1. Columns(m) = [currency |-> c, instrument |-> m.instrument, rest |-> m.rest]
    BY <1>1, ColumnsFields
  <2>2. Canonical(m) = [currency |-> c, instrument |-> m.instrument, rest |-> m.rest]
    BY <1>1, <1>3, CanonicalFields
  <2> QED
    BY <2>1, <2>2
<1>7. ValidateRouterRequest(Canonical(m))
  BY <1>1, CanonicalValid DEF ValidateRouterRequest
<1>8. ASSUME m.currency.case = "upper" PROVE m = Canonical(m)
  BY <1>1, <1>3, <1>4, <1>5, <1>8, CanonicalFields
<1>9. ASSUME m.currency.case = "lower" PROVE m = LegacyCanonicalHash(m)
  BY <1>1, <1>3, <1>4, <1>5, <1>9, LegacyFields
<1> QED
  BY <1>1, <1>4, <1>6, <1>7, <1>8, <1>9

------------------------------------------------------------------------------
\* What a row tells about the request that made it, whichever version wrote it.
LEMMA RowMeans ==
  ASSUME RowsRemember, row # None
  PROVE  /\ maker.request \in AllRequests
         /\ row.hash \in AllRequests
         /\ Canonical(row.hash) = Canonical(maker.request)
         /\ row.columns = Canonical(maker.request)
         /\ ValidateRouterRequest(Canonical(maker.request))
<1> DEFINE m == maker.request
<1>1. /\ m \in AllRequests /\ row.hash \in AllRequests
      /\ maker.version \in {"legacy", "current"}
  BY DEF RowsRemember, Rows, Makers
<1>2. CASE maker.version = "current"
  BY <1>1, <1>2, CanonicalIsStable DEF RowsRemember, MadeBy
<1>3. CASE maker.version = "legacy"
  BY <1>1, <1>3, LegacyShape DEF RowsRemember, MadeBy
<1> QED
  BY <1>1, <1>2, <1>3

LEMMA InitRemembers == Init => RowsRemember
<1> SUFFICES ASSUME Init PROVE RowsRemember
  OBVIOUS
<1>1. CASE row = None /\ maker = None
  BY <1>1 DEF Init, RowsRemember
<1>2. ASSUME NEW r \in LegacyRequests,
             row = [hash |-> RequestHash(r), columns |-> Columns(r)],
             maker = [request |-> r, version |-> "legacy"]
      PROVE  RowsRemember
  <2>1. r \in AllRequests /\ Columns(r) \in AllRequests
    BY <1>2, LegacyShape, ColumnsFields
  <2>2. row \in Rows /\ maker \in Makers
    BY <1>2, <2>1 DEF Rows, Makers, RequestHash
  <2>3. row # None /\ maker # None
    BY <2>2, RequestsAssumption DEF RequestsAssumption
  <2>4. MadeBy(maker.request, maker.version)
    BY <1>2 DEF MadeBy, RequestHash
  <2> QED
    BY <2>2, <2>3, <2>4 DEF Init, RowsRemember
<1> QED
  BY <1>1, <1>2 DEF Init

\* The three outcomes of create.
Invalid(r, sender) ==
    /\ ~ValidateRouterRequest(Canonical(r))
    /\ Answer(r, sender, "invalid") /\ UNCHANGED <<row, maker>>

Inserted(r, sender) ==
    /\ ValidateRouterRequest(Canonical(r))
    /\ row = None
    /\ row' = [hash |-> RequestHash(Canonical(r)), columns |-> Columns(Canonical(r))]
    /\ maker' = [request |-> r, version |-> "current"]
    /\ Answer(r, sender, "accepted")

Compared(r, sender) ==
    /\ ValidateRouterRequest(Canonical(r))
    /\ row # None
    /\ Answer(r, sender, IF Same(r, row.hash) THEN "accepted" ELSE "conflict")
    /\ UNCHANGED <<row, maker>>

LEMMA CreateCases ==
  ASSUME NEW r, NEW sender, Create(r, sender)
  PROVE  Invalid(r, sender) \/ Inserted(r, sender) \/ Compared(r, sender)
  BY DEF Create, Invalid, Inserted, Compared

LEMMA AnswerType ==
  ASSUME NEW r \in AllRequests, NEW sender \in {"client", "operator"},
         NEW verdict \in {"invalid", "accepted", "conflict"},
         Answer(r, sender, verdict)
  PROVE  /\ last' \in Replies /\ last' # None
         /\ last'.request = r /\ last'.sender = sender /\ last'.verdict = verdict
  BY RequestsAssumption DEF RequestsAssumption, Answer, Replies

\* create keeps the memory of rows.
LEMMA CreateRemembers ==
  ASSUME RowsRemember, NEW r \in AllRequests, NEW sender \in {"client", "operator"},
         Create(r, sender)
  PROVE  RowsRemember'
<1>1. ASSUME UNCHANGED <<row, maker>>, NEW v \in {"invalid", "accepted", "conflict"},
             Answer(r, sender, v)
      PROVE  RowsRemember'
  BY <1>1, AnswerType DEF RowsRemember, MadeBy
<1>2. CASE Inserted(r, sender)
  <2>1. Canonical(r) \in AllRequests /\ Columns(Canonical(r)) \in AllRequests
    BY CanonicalFields, ColumnsFields
  <2>2. row' \in Rows /\ maker' \in Makers
    BY <1>2, <2>1 DEF Inserted, Rows, Makers, RequestHash
  <2>3. row' # None /\ maker' # None
    BY <2>2, RequestsAssumption DEF RequestsAssumption
  <2>4. MadeBy(maker.request, maker.version)'
    BY <1>2 DEF Inserted, MadeBy, RequestHash
  <2>5. last' \in Replies
    BY <1>2, AnswerType DEF Inserted
  <2> QED
    BY <2>2, <2>3, <2>4, <2>5 DEF RowsRemember
<1> QED
  BY <1>1, <1>2, CreateCases DEF Invalid, Compared

\* A step is a create by a client or the operator's replay of the columns.
LEMMA StepCases ==
  ASSUME RowsRemember, Next
  PROVE  \E r \in AllRequests :
            \/ Create(r, "client")
            \/ row # None /\ r = row.columns /\ Create(r, "operator")
<1>1. ASSUME Replay PROVE row.columns \in AllRequests
  BY <1>1 DEF Replay, RowsRemember, Rows
<1> QED
  BY <1>1 DEF Next, Replay

\* What the answer to a create says of the request and of the row.
Truth(r, sender) ==
    /\ last'.verdict = "accepted" =>
          row' # None /\ Canonical(r) = Canonical(maker'.request)
    /\ last'.verdict = "conflict" =>
          /\ row' # None
          /\ r # maker'.request
          /\ maker'.version = "current" => Canonical(r) # Canonical(maker'.request)

LEMMA CreateIsTruthful ==
  ASSUME RowsRemember, NEW r \in AllRequests, NEW sender \in {"client", "operator"},
         Create(r, sender)
  PROVE  Truth(r, sender) /\ last' # None /\ last'.request = r /\ last'.sender = sender
<1>1. CASE Invalid(r, sender)
  BY <1>1, AnswerType DEF Invalid, Truth
<1>2. CASE Inserted(r, sender)
  <2>1. row' # None
    BY <1>2, CreateRemembers DEF Inserted, RowsRemember
  <2> QED
    BY <1>2, <2>1, AnswerType DEF Inserted, Truth
<1>3. CASE Compared(r, sender)
  <2>1. CASE Same(r, row.hash)
    BY <1>3, <2>1, AnswerType, RowMeans, SameMeansSame DEF Compared, Truth
  <2>2. CASE ~Same(r, row.hash)
    <3>1. /\ row' = row /\ maker' = maker /\ row # None
          /\ last'.verdict = "conflict" /\ last' # None
          /\ last'.request = r /\ last'.sender = sender
      BY <1>3, <2>2, AnswerType DEF Compared
    <3>2. row.hash # r /\ row.hash # Canonical(r)
      BY <2>2 DEF Same, RequestHash
    <3>3. maker.version \in {"legacy", "current"}
      BY <3>1 DEF RowsRemember, Makers
    <3>4. CASE maker.version = "legacy"
      BY <3>1, <3>2, <3>4 DEF RowsRemember, MadeBy, Truth
    <3>5. CASE maker.version = "current"
      BY <3>1, <3>2, <3>5 DEF RowsRemember, MadeBy, Truth
    <3> QED
      BY <3>3, <3>4, <3>5
  <2> QED
    BY <2>1, <2>2
<1> QED
  BY <1>1, <1>2, <1>3, CreateCases

\* The operator's replay of the columns is accepted, but for rows of an earlier
\* version whose currency was spelled in mixed case.
LEMMA ReplayAccepted ==
  ASSUME RowsRemember, row # None, Create(row.columns, "operator")
  PROVE  \/ last'.verdict = "accepted"
         \/ maker'.version = "legacy" /\ maker'.request.currency.case = "mixed"
<1> DEFINE m == maker.request
           r == row.columns
<1>1. /\ m \in AllRequests /\ r = Canonical(m) /\ r \in AllRequests
      /\ ValidateRouterRequest(Canonical(m))
  BY RowMeans DEF RowsRemember, Rows
<1>2. Canonical(r) = Canonical(m) /\ LegacyCanonicalHash(r) = LegacyCanonicalHash(m)
  <2>1. Canonical(r) = Canonical(m)
    BY <1>1, CanonicalIsStable
  <2> QED
    BY <2>1 DEF LegacyCanonicalHash
<1>3. Compared(r, "operator")
  BY <1>1, <1>2, CreateCases DEF Invalid, Inserted
<1>4. ASSUME Same(r, row.hash) PROVE last'.verdict = "accepted"
  BY <1>1, <1>3, <1>4, AnswerType DEF Compared
<1>5. CASE maker.version = "current"
  BY <1>1, <1>2, <1>4, <1>5 DEF RowsRemember, MadeBy, Same, RequestHash
<1>6. CASE maker.version = "legacy"
  <2>1. m \in LegacyRequests /\ row.hash = m
    BY <1>6 DEF RowsRemember, MadeBy
  <2>2. CASE m.currency.case = "mixed"
    BY <1>3, <1>6, <2>2 DEF Compared
  <2>3. CASE m.currency.case # "mixed"
    <3>1. m = Canonical(m) \/ m = LegacyCanonicalHash(m)
      BY <2>1, <2>3, LegacyShape
    <3> QED
      BY <1>2, <1>4, <2>1, <3>1 DEF Same, RequestHash
  <2> QED
    BY <2>2, <2>3
<1> QED
  BY <1>5, <1>6 DEF RowsRemember, Makers

IInv == RowsRemember /\ AcceptedMeansSame /\ RepetitionRecognised /\ FrozenReplayAccepted

LEMMA SpecIInv == Spec => []IInv
<1>1. Init => IInv
  BY InitRemembers DEF Init, IInv, AcceptedMeansSame, RepetitionRecognised,
     FrozenReplayAccepted
<1>2. IInv /\ Next => IInv'
  <2> SUFFICES ASSUME IInv, Next PROVE IInv'
    OBVIOUS
  <2>1. PICK r \in AllRequests :
            \/ Create(r, "client")
            \/ row # None /\ r = row.columns /\ Create(r, "operator")
    BY StepCases DEF IInv
  <2>2. PICK sender \in {"client", "operator"} :
            /\ Create(r, sender)
            /\ sender = "operator" => row # None /\ r = row.columns
    BY <2>1
  <2>3. RowsRemember'
    BY <2>2, CreateRemembers DEF IInv
  <2>4. AcceptedMeansSame' /\ RepetitionRecognised'
    BY <2>2, CreateIsTruthful DEF IInv, Truth, AcceptedMeansSame, RepetitionRecognised
  <2>5. FrozenReplayAccepted'
    BY <2>2, CreateIsTruthful, ReplayAccepted DEF IInv, FrozenReplayAccepted
  <2> QED
    BY <2>3, <2>4, <2>5 DEF IInv
<1>3. IInv /\ UNCHANGED vars => IInv'
  BY DEF IInv, vars, RowsRemember, MadeBy, AcceptedMeansSame, RepetitionRecognised,
     FrozenReplayAccepted
<1> QED
  BY <1>1, <1>2, <1>3, PTL DEF Spec

(***************************************************************************)
(* Rows, hashes and verdicts keep their types, and what the columns hold   *)
(* is canonical, also in rows of an earlier version.                       *)
(***************************************************************************)
THEOREM RequestTypes == Spec => []TypeOK
<1>1. RowsRemember => TypeOK
  <2> SUFFICES ASSUME RowsRemember PROVE TypeOK
    OBVIOUS
  <2>1. ASSUME row # None
        PROVE  /\ row.columns.currency = Upper(Trim(row.columns.currency))
               /\ row.columns.instrument = Lower(Trim(row.columns.instrument))
    <3> DEFINE c == Canonical(maker.request)
    <3>1. c \in AllRequests
      BY <2>1, RowMeans, CanonicalFields
    <3>2. row.columns = c /\ Canonical(c) = c
      BY <2>1, RowMeans, CanonicalIsStable
    <3> HIDE DEF c
    <3>3. /\ Upper(Trim(c.currency)) \in Spelled(Codes)
          /\ Lower(Trim(c.instrument)) \in Spelled(Names)
      BY <3>1, SpellingTypes DEF AllRequests
    <3>4. Canonical(c) = [currency |-> Upper(Trim(c.currency)),
                          instrument |-> Lower(Trim(c.instrument)), rest |-> c.rest]
      BY <3>1, <3>3, WithBoth DEF Canonical
    <3> QED
      BY <3>2, <3>4
  <2> QED
    BY <2>1 DEF RowsRemember, TypeOK
<1> QED
  BY <1>1, SpecIInv, PTL DEF IInv

(***************************************************************************)
(* Whichever of the three hashes of create agrees with the row, the        *)
(* request that is accepted means what the request that made the row       *)
(* meant, for rows of either version.                                      *)
(***************************************************************************)
THEOREM AcceptedIsSame == Spec => []AcceptedMeansSame
  BY SpecIInv, PTL DEF IInv

(***************************************************************************)
(* A request repeated word for word is never answered 409, nor, for rows   *)
(* of the current version, is one that is only spelled otherwise.          *)
(***************************************************************************)
THEOREM RepetitionIsRecognised == Spec => []RepetitionRecognised
  BY SpecIInv, PTL DEF IInv

(***************************************************************************)
(* The operator's replay of the frozen request is accepted, but for rows   *)
(* of an earlier version whose currency was spelled in mixed case.         *)
(***************************************************************************)
THEOREM FrozenReplayIsAccepted == Spec => []FrozenReplayAccepted
  BY SpecIInv, PTL DEF IInv
=============================================================================
