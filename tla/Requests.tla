------------------------------ MODULE Requests ------------------------------
(***************************************************************************)
(* When the router takes a request for a repetition of an earlier one      *)
(* (cmd/payment-router/main.go, RequestHash and validation in types.go).   *)
(*                                                                         *)
(* The row of a key holds the hash of the request that made it: of its     *)
(* canonical form or, in rows of an earlier version, of the request as it  *)
(* was spelled.  A repetition comes from a client, in any spelling, or     *)
(* from the operator, which replays the request as get reads it from the   *)
(* columns of the row (the frozen request).                                *)
(*                                                                         *)
(* A request is its currency and instrument with their spelling, and all   *)
(* other fields as `rest'.  A hash stands for the request it is made of:   *)
(* the JSON of a request determines it and SHA-256 is taken as injective.  *)
(***************************************************************************)
CONSTANTS
    Codes, ValidCodes,  \* currency codes, and those of three letters
    Names,              \* instruments, supported ones and others
    Rests, ValidRests,  \* other fields; amount positive and nothing empty
    None                \* no row, no request

VARIABLES
    row,        \* the row of the key: its hash and its columns
    maker,      \* the request that made it, and the version that wrote it
    last        \* the last request for the key, its sender and its verdict

vars == <<row, maker, last>>

\* A word as it is spelled, with or without spaces around it.
Spelled(W) == [word : W, case : {"upper", "lower", "mixed"},
               padding : {"none", "spaces"}]
AllRequests == [currency : Spelled(Codes), instrument : Spelled(Names), rest : Rests]

Rows == [hash : AllRequests, columns : AllRequests]
Makers == [request : AllRequests, version : {"legacy", "current"}]
Replies == [request : AllRequests, sender : {"client", "operator"},
            verdict : {"invalid", "accepted", "conflict"}]

ASSUME RequestsAssumption ==
    /\ ValidCodes \subseteq Codes /\ ValidRests \subseteq Rests
    /\ None \notin Rows /\ None \notin Makers /\ None \notin Replies

Upper(s) == [s EXCEPT !.case = "upper"]
Lower(s) == [s EXCEPT !.case = "lower"]
Trim(s) == [s EXCEPT !.padding = "none"]

\* A variant, no part of the specification: the currency is not trimmed.
CanonicalUntrimmed(r) == [r EXCEPT !.currency = Upper(r.currency),
                                   !.instrument = Lower(Trim(r.instrument))]

\* The request that create hashes, stores and sends on.
Canonical(r) == [r EXCEPT !.currency = Upper(Trim(r.currency)),
                          !.instrument = Lower(Trim(r.instrument))]

\* validCurrency, after trimming and in either case, and ValidInstrument, which
\* takes the canonical spelling only.
ValidateRouterRequest(r) ==
    /\ r.rest \in ValidRests
    /\ r.currency.word \in ValidCodes
    /\ r.instrument = Lower(Trim(r.instrument))
    /\ r.instrument.word \in {"card", "bank_transfer", "wallet"}

RequestHash(r) == r

\* The hash of the canonical request with its currency in lower case.
LegacyCanonicalHash(r) ==
    RequestHash([Canonical(r) EXCEPT !.currency = Lower(Canonical(r).currency)])

\* What an earlier version accepted: a currency of any case that fits its column.
LegacyRequests ==
    {r \in AllRequests : ValidateRouterRequest(r) /\ r.currency.padding = "none"}

(***************************************************************************)
(* Variants with a plausible mistake; no part of the specification.        *)
(***************************************************************************)
\* The lower-case form of earlier versions is not considered.
SameWithoutLower(r, hash) == hash \in {RequestHash(Canonical(r)), RequestHash(r)}

\* The form as it was spelled is not considered.
SameWithoutSpelled(r, hash) ==
    hash \in {RequestHash(Canonical(r)), LegacyCanonicalHash(r)}

\* The instrument is left out of the comparison.
SameButInstrument(r, hash) ==
    [hash EXCEPT !.instrument = r.instrument]
        \in {RequestHash(Canonical(r)), RequestHash(r)}

\* The columns: currency is CHAR(3) and stored in upper case.
Columns(r) == [r EXCEPT !.currency = Upper(r.currency)]

\* The comparison in create with the hash of the row.
Same(r, hash) ==
    hash \in {RequestHash(Canonical(r)), RequestHash(r), LegacyCanonicalHash(r)}

------------------------------------------------------------------------------
\* The key has no row, or one that an earlier version wrote with all its columns.
Init ==
    /\ \/ row = None /\ maker = None
       \/ \E r \in LegacyRequests :
             /\ row = [hash |-> RequestHash(r), columns |-> Columns(r)]
             /\ maker = [request |-> r, version |-> "legacy"]
    /\ last = None

Answer(r, sender, verdict) ==
    last' = [request |-> r, sender |-> sender, verdict |-> verdict]

\* create up to its decision: 400, a new row, the row's payment, or 409.
Create(r, sender) ==
    IF ~ValidateRouterRequest(Canonical(r)) THEN
       Answer(r, sender, "invalid") /\ UNCHANGED <<row, maker>>
    ELSE IF row = None THEN
       /\ row' = [hash |-> RequestHash(Canonical(r)), columns |-> Columns(Canonical(r))]
       /\ maker' = [request |-> r, version |-> "current"]
       /\ Answer(r, sender, "accepted")
    ELSE
       /\ Answer(r, sender, IF Same(r, row.hash) THEN "accepted" ELSE "conflict")
       /\ UNCHANGED <<row, maker>>

\* retryPending posts the request that get returned.
Replay == row # None /\ Create(row.columns, "operator")

Next == Replay \/ \E r \in AllRequests : Create(r, "client")

Spec == Init /\ [][Next]_vars

------------------------------------------------------------------------------
\* What the columns hold is canonical, whichever version wrote them.
TypeOK ==
    /\ row = None <=> maker = None
    /\ row # None => /\ row \in Rows
                     /\ row.columns.currency = Upper(Trim(row.columns.currency))
                     /\ row.columns.instrument = Lower(Trim(row.columns.instrument))
                     /\ maker \in Makers
    /\ last # None => last \in Replies

(***************************************************************************)
(* The three hashes that create compares never let another payment pass: a *)
(* request that is accepted under a key means what the request that made   *)
(* the row meant, in currency, instrument and everything else.             *)
(***************************************************************************)
AcceptedMeansSame ==
    last # None /\ last.verdict = "accepted"
        => Canonical(last.request) = Canonical(maker.request)

(***************************************************************************)
(* A client that repeats its request word for word is never told that the  *)
(* key was used for another payment, also when the first attempt was       *)
(* served by an earlier version; and for rows of the current version no    *)
(* client is that only spells the request otherwise.                       *)
(***************************************************************************)
RepetitionRecognised ==
    last # None /\ last.verdict = "conflict"
        => /\ last.request # maker.request
           /\ maker.version = "current" =>
                 Canonical(last.request) # Canonical(maker.request)

(***************************************************************************)
(* The operator's replay of a frozen request is accepted: the request      *)
(* survives the round trip through the columns.  For rows of an earlier    *)
(* version this holds if the currency was spelled in one case.  Rows older *)
(* than the columns for debtor, creditor and reference, which the ALTERs   *)
(* of EnsurePayments leave empty, are no rows of this model: validation    *)
(* answers their replay with 400.                                          *)
(***************************************************************************)
FrozenReplayAccepted ==
    last # None /\ last.sender = "operator"
        => \/ last.verdict = "accepted"
           \/ maker.version = "legacy" /\ maker.request.currency.case = "mixed"
=============================================================================
