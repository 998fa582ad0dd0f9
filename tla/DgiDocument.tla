----------------------------- MODULE DgiDocument -----------------------------
(***************************************************************************)
(* The RUT a company registers with and what a certificate of the DGI       *)
(* decides about it: the check of the number, the QR code and the page it   *)
(* leads to, and the text of the certificate as the second way.             *)
(*                                                                         *)
(* A number is its twelve digits.  A page is told apart by the number next  *)
(* to its RUT label, the twelve-digit numbers of its text in their order,   *)
(* and the words it uses of the company's state; it says nothing of         *)
(* DgiVerification's rows and workers.                                      *)
(***************************************************************************)
EXTENDS Naturals, Sequences

CONSTANTS
    Digits,         \* digits tried in the middle of a number
    None            \* no value, or one that is not a number of twelve digits

VARIABLES
    registered,     \* the number it is registered with, or None
    certificate,    \* the certificate and the page its QR code leads to, or None
    outcome         \* what the verification decides, or None

vars == <<registered, certificate, outcome>>

-----------------------------------------------------------------------------
(* rut.validator.ts                                                        *)

\* validateRutStructure12
Structure(rut) ==
    /\ Len(rut) = 12
    /\ 10 * rut[1] + rut[2] \in 1..21
    /\ \E i \in 3..8 : rut[i] # 0
    /\ rut[9] = 0 /\ rut[10] = 0

\* RUT_WEIGHTS, written out
WeightedSum(rut) ==
    4 * rut[1] + 3 * rut[2] + 2 * rut[3] + 9 * rut[4] + 8 * rut[5] + 7 * rut[6]
    + 6 * rut[7] + 5 * rut[8] + 4 * rut[9] + 3 * rut[10] + 2 * rut[11]

Remainder(rut) == WeightedSum(rut) % 11

\* Mutant: a check digit of ten is written as zero.
TenIsZero(rut) == rut[12] = ((11 - Remainder(rut)) % 11) % 10

\* validateRutCheckDigit12: no number has a remainder of one.
CheckDigit(rut) ==
    LET rem == Remainder(rut) IN
    /\ rem # 1
    /\ rut[12] = IF rem = 0 THEN 0 ELSE 11 - rem

Valid(rut) == Structure(rut) /\ CheckDigit(rut)

Numbers ==
    {<<p[1], p[2], a, b, a, c, c, b, 0, 0, d, e>> :
        p \in {<<0, 0>>, <<0, 1>>, <<1, 5>>, <<2, 1>>, <<2, 2>>},
        a, b, c \in Digits, d, e \in 0..9}

Init ==
    /\ registered = None /\ certificate = None /\ outcome = None

\* RutRegistrationService.resolveRut: a number that is not valid is refused.
Register(rut) ==
    /\ Valid(rut)
    /\ registered' = rut
    /\ UNCHANGED <<certificate, outcome>>

-----------------------------------------------------------------------------
(* The certificate.  Own is the registered number, Other another one.      *)

Kinds == {"own", "other"}
Texts == {<<>>} \cup {<<k>> : k \in Kinds} \cup {<<k, l>> : k, l \in Kinds}

\* What the page says: about is the company it shows; the cell after a label, if
\* it holds a number, holds that company's.
Pages ==
    {page \in [about : Kinds, cell : Kinds \cup {None}, numbers : Texts,
               marks : SUBSET {"inactive", "active"}] :
        page.cell \in Kinds => page.cell = page.about}
NoPage == [about |-> "other", cell |-> None, numbers |-> <<>>, marks |-> {}]

Certificates ==
    [host : {"dgi"}, reply : {"page"}, page : Pages, label : Kinds \cup {None}, numbers : Texts]
    \cup [host : {None, "dgi", "foreign"}, reply : {"invalid url", "http error"},
          page : {NoPage}, label : Kinds \cup {None}, numbers : Texts]

\* extractQrUrlFromPdf and assertDgiQrUrlAllowed
Consulted(c) == c.host = "dgi" /\ c.reply = "page"

\* extractRut: the cell after the label, else the first number of the text
PageRut(page) ==
    IF page.cell \in Kinds THEN page.cell
    ELSE IF page.numbers # <<>> THEN page.numbers[1] ELSE None

\* Mutant: words of activity are looked for first, and "inhabilitada" holds one.
ActiveFirst(page) == page.marks # {} \/ "inactive" \notin page.marks

\* inferActivo: a page that says nothing is of an active company.
InferActivo(page) == "inactive" \notin page.marks

\* DgiWebScraperProvider.lookup; None for its exceptions.
Lookup(c) ==
    IF ~Consulted(c) \/ PageRut(c.page) = None THEN None
    ELSE [rut |-> PageRut(c.page), activo |-> InferActivo(c.page)]

\* parseConstanciaFromPlainText: the labelled number, else the only number
TextRut(c) ==
    IF c.label \in Kinds THEN c.label
    ELSE IF Len(c.numbers) = 1 THEN c.numbers[1] ELSE None

\* tryQrStrategy: whatever goes wrong leaves the certificate to its text.
ByQr(c) ==
    IF Lookup(c) = None THEN None
    ELSE IF Lookup(c).rut = "own" /\ Lookup(c).activo THEN "VERIFIED_AUTO" ELSE "REJECTED"

\* tryTextStrategy
ByText(c) == IF TextRut(c) = "own" THEN "PENDING_MANUAL_REVIEW" ELSE "REJECTED"

\* runVerification
Verify(c) ==
    /\ registered # None /\ certificate = None
    /\ certificate' = c
    /\ outcome' = IF ByQr(c) # None THEN ByQr(c) ELSE ByText(c)
    /\ UNCHANGED registered

\* To a certificate all numbers are the same: it is tried with one.
Sample == CHOOSE rut \in Numbers : Valid(rut)

Next ==
    \/ registered = None /\ \E rut \in Numbers : Register(rut)
    \/ registered = Sample /\ certificate = None /\ \E c \in Certificates : Verify(c)

Spec == Init /\ [][Next]_vars

-----------------------------------------------------------------------------
TypeOK ==
    /\ registered # None => Len(registered) = 12
    /\ outcome \in {None, "VERIFIED_AUTO", "PENDING_MANUAL_REVIEW", "REJECTED"}

\* A number registered by mistake is found out: no digit of it can be mistyped
\* and no two neighbours swapped to give another number that is valid.
RutIsProtected ==
    registered # None /\ certificate = None =>
        /\ \A i \in 1..12 : \A d \in 0..9 \ {registered[i]} :
              ~CheckDigit([registered EXCEPT ![i] = d])
        /\ \A i \in 1..10 :
              registered[i] # registered[i + 1] =>
                 ~CheckDigit([registered EXCEPT ![i] = registered[i + 1],
                                                ![i + 1] = registered[i]])

\* A company is verified without a person only by a page of the DGI that shows
\* it, and never as active when the page says it is not: a foreign link, a page
\* of another company or no answer at all never verifies, unless a page whose
\* label cannot be read mentions other numbers than its company's.  What the text
\* alone decides goes to a person or is refused, so that no page that could not
\* be read decides anything.
VerdictFollowsDgi ==
    /\ outcome = "VERIFIED_AUTO" =>
          /\ Consulted(certificate) /\ "inactive" \notin certificate.page.marks
          /\ LET page == certificate.page IN
             page.cell = page.about \/ page.numbers = <<page.about>> => page.about = "own"
    /\ outcome # None /\ Lookup(certificate) = None =>
          /\ outcome # "VERIFIED_AUTO"
          /\ certificate.label = "own" => outcome = "PENDING_MANUAL_REVIEW"
          /\ certificate.label = "other" => outcome = "REJECTED"

DocumentDecides == RutIsProtected /\ VerdictFollowsDgi
=============================================================================
