-------------------------- MODULE PayoutDestination --------------------------
(***************************************************************************)
(* Where the money of a payout goes: the destination a subject gives and    *)
(* its validation, the row it becomes, and the three ways it is handed to   *)
(* whoever transfers: to the gateway by the first attempt, to the gateway   *)
(* by the recovery of an attempt left without an answer, and to the         *)
(* administrator who pays by hand.                                          *)
(*                                                                         *)
(* A text is told apart by its form, its length, its digits, and whether it *)
(* is raw: with spaces around it or, an email, with capitals.               *)
(***************************************************************************)
EXTENDS Naturals

CONSTANTS
    Null,
    Banks, OtherBank        \* the catalog, and an id that is not in it

VARIABLES
    account,    \* the PayoutAccount row, or Null
    snapshot,   \* destinationSnapshot of an attempt without an answer, or Null
    told        \* the last destination handed over, and by which way, or Null

vars == <<account, snapshot, told>>

Methods == {"MERCADO_PAGO", "BANK"}
IdentifierTypes == {"MP_CVU", "MP_ALIAS", "MP_EMAIL", "MP_PHONE", "BANK_TRANSFER_KEY"}

Text(form, length, digits, raw) ==
    [form |-> form, length |-> length, digits |-> digits, raw |-> raw]

\* The texts of the requests, on both sides of each length asked for.
Texts ==
    {Text("blank", 0, 0, TRUE), Text("email", 9, 0, FALSE), Text("email", 9, 0, TRUE)}
    \cup {Text("word", length, 0, raw) : length \in {5, 6, 20, 21}, raw \in BOOLEAN}
    \cup {Text("number", digits, digits, FALSE) : digits \in {16, 21, 22}}
    \cup {Text("grouped", 26, 22, TRUE)}
    \cup {Text("phone", digits + 1, digits, raw) : digits \in {10, 11, 12, 13}, raw \in BOOLEAN}

Requests ==
    [method : Methods, identifierType : IdentifierTypes, transferIdentifier : Texts \cup {Null},
     mpAlias : Texts \cup {Null}, accountHolderName : {Null, 2, 3}, bank : Banks \cup {OtherBank, Null}]

Init == account = Null /\ snapshot = Null /\ told = Null

-----------------------------------------------------------------------------
(* payout-accounts.validation.ts.  Null stands for the error thrown too.   *)

Trim(text) == IF text = Null THEN Null ELSE [text EXCEPT !.raw = FALSE]

NormalizeDigits(text) ==
    IF text = Null \/ text.digits = 0 THEN Null
    ELSE Text("number", text.digits, text.digits, FALSE)

Identified(transferIdentifier, mpAlias) ==
    [transferIdentifier |-> transferIdentifier, mpAlias |-> mpAlias]

IsKey(text) == text # Null /\ text.digits = 22
IsAlias(text) == text # Null /\ text.form \in {"word", "number"} /\ text.length \in 6..20
IsEmail(text) == text # Null /\ text.form = "email"
IsPhone(text) == text # Null /\ text.form = "phone" /\ text.digits \in 11..12

ValidateMercadoPago(dto) ==
    LET digits == NormalizeDigits(dto.transferIdentifier)
        text == Trim(dto.transferIdentifier)
        alias == Trim(dto.mpAlias) IN
    CASE dto.identifierType = "MP_CVU" /\ IsKey(digits) -> Identified(digits, Null)
      [] dto.identifierType = "MP_ALIAS" /\ IsAlias(alias) -> Identified(Null, alias)
      [] dto.identifierType = "MP_EMAIL" /\ IsEmail(text) -> Identified(text, Null)
      [] dto.identifierType = "MP_PHONE" /\ IsPhone(text) -> Identified(text, Null)
      [] OTHER -> Null

ValidateBank(dto) ==
    LET digits == NormalizeDigits(dto.transferIdentifier) IN
    IF /\ dto.identifierType = "BANK_TRANSFER_KEY" /\ dto.bank # Null
       /\ dto.accountHolderName # Null /\ dto.accountHolderName >= 3
       /\ IsKey(digits)
    THEN Identified(digits, Null) ELSE Null

\* Mutant: what the client sent beside the identifier is kept.
ValidateAndKeep(dto) ==
    LET valid == IF dto.method = "BANK" THEN ValidateBank(dto) ELSE ValidateMercadoPago(dto) IN
    IF valid = Null THEN Null
    ELSE Identified(IF valid.transferIdentifier = Null THEN dto.transferIdentifier
                    ELSE valid.transferIdentifier, valid.mpAlias)

ValidatePayoutFields(dto) ==
    IF dto.method = "BANK" THEN ValidateBank(dto) ELSE ValidateMercadoPago(dto)

\* maskTransferIdentifier: the ends of an alias, the domain of an email, four
\* digits of the rest.
Mask(identifierType, transferIdentifier, mpAlias) ==
    LET stars(text) == [text EXCEPT !.form = "masked"] IN
    IF identifierType = "MP_ALIAS" /\ mpAlias # Null THEN stars(mpAlias)
    ELSE IF transferIdentifier # Null THEN stars(transferIdentifier)
    ELSE Null

BuildDestinationSnapshot(row) ==
    [method |-> row.method, identifierType |-> row.identifierType,
     maskedIdentifier |-> Mask(row.identifierType, row.transferIdentifier, row.mpAlias),
     accountHolderName |-> row.accountHolderName, bank |-> row.bank]

-----------------------------------------------------------------------------
(* payout-accounts.service.ts                                              *)

\* createForCurrentProfessional, createForCompany; the gateway may refuse what
\* they send it, and then nothing is stored.
Create(dto) ==
    LET valid == ValidatePayoutFields(dto) IN
    /\ account = Null /\ valid # Null
    /\ dto.method = "BANK" => dto.bank \in Banks
    /\ account' = [method |-> dto.method, identifierType |-> dto.identifierType,
                   transferIdentifier |-> valid.transferIdentifier, mpAlias |-> valid.mpAlias,
                   accountHolderName |-> IF dto.method = "BANK" THEN dto.accountHolderName ELSE Null,
                   bank |-> IF dto.method = "BANK" THEN dto.bank ELSE Null]
    /\ UNCHANGED <<snapshot, told>>

GatewayDestinationFromAccount(row) ==
    [method |-> row.method, identifierType |-> row.identifierType,
     transferIdentifier |-> row.transferIdentifier, mpAlias |-> row.mpAlias, bank |-> row.bank]

-----------------------------------------------------------------------------
(* escrow-payout.service.ts                                                *)

\* executePayoutForJob: the attempt keeps the snapshot, the gateway gets the
\* destination.
ExecutePayoutForJob ==
    /\ account # Null /\ snapshot = Null
    /\ snapshot' = BuildDestinationSnapshot(account)
    /\ told' = [by |-> "attempt", destination |-> GatewayDestinationFromAccount(account)]
    /\ UNCHANGED account

\* An answer ends the attempt.
CompletePayoutAttempt == snapshot # Null /\ snapshot' = Null /\ UNCHANGED <<account, told>>

\* recoverStuckPayoutAttempts, when the gateway knows of no such payout: the
\* snapshot is handed over as the destination, and the attempt ends.
RecoverStuckPayoutAttempt ==
    /\ snapshot # Null
    /\ told' = [by |-> "recovery", destination |-> snapshot]
    /\ snapshot' = Null
    /\ UNCHANGED account

\* mapPendingPayoutRow: what the administrator sees.
ListPendingPayout ==
    /\ account # Null
    /\ told' = [by |-> "administrator", destination |-> BuildDestinationSnapshot(account)]
    /\ UNCHANGED <<account, snapshot>>

Next ==
    \/ \E dto \in Requests : Create(dto)
    \/ ExecutePayoutForJob \/ CompletePayoutAttempt \/ RecoverStuckPayoutAttempt
    \/ ListPendingPayout

Spec == Init /\ [][Next]_vars

-----------------------------------------------------------------------------
TypeOK ==
    /\ account # Null =>
          /\ account.method \in Methods /\ account.identifierType \in IdentifierTypes
          /\ account.bank \in Banks \cup {Null}
    /\ told # Null => told.by \in {"attempt", "recovery", "administrator"}

\* The account named by a destination, as its reader sees it: a field that is
\* not there is undefined.
NamesAccount(destination) ==
    /\ {"transferIdentifier", "mpAlias"} \subseteq DOMAIN destination
    /\ destination.transferIdentifier = account.transferIdentifier
    /\ destination.mpAlias = account.mpAlias

\* What is stored is one destination and no more: an identifier or an alias of
\* the kind it says, with a bank exactly when the bank is to be told; read
\* again it would be accepted and stored as it is; the list of accounts has
\* something to show for it; and the first attempt hands it over entire.
DestinationIsWhole ==
    /\ account # Null =>
          /\ (account.transferIdentifier = Null) # (account.mpAlias = Null)
          /\ account.method = "BANK" <=> account.identifierType = "BANK_TRANSFER_KEY"
          /\ account.method = "BANK" <=> account.bank # Null
          /\ ValidatePayoutFields(account) =
                Identified(account.transferIdentifier, account.mpAlias)
          /\ BuildDestinationSnapshot(account).maskedIdentifier # Null
    /\ told # Null /\ told.by = "attempt" => NamesAccount(told.destination)

\* The administrator who pays by hand finds the account to pay in the listing
\* (docs/how-to/admin-payout-manual-mercadopago.md).
ListingNamesAccount == told # Null /\ told.by = "administrator" => NamesAccount(told.destination)

\* A payout that recovery issues goes to the destination IssuePayoutInput asks
\* for, as the first attempt does.
RecoveryNamesAccount == told # Null /\ told.by = "recovery" => NamesAccount(told.destination)
=============================================================================
