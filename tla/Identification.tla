--------------------------- MODULE Identification ---------------------------
(***************************************************************************)
(* The identification documents of clients and participants               *)
(* (identification.helper.ts), on the two things the checks look at: what  *)
(* the characters are and how many.                                        *)
(***************************************************************************)
EXTENDS Naturals

CONSTANTS
  Lengths,  \* the lengths of the documents that are considered
  NULL

ASSUME LengthsAreNaturals == Lengths \subseteq Nat

(***************************************************************************)
(* "digits": digits only; "na": NA and then digits; "alnum": another       *)
(* string of letters and digits; "other": with any other character.        *)
(***************************************************************************)
Documents ==
  { v \in [ form: {"digits", "na", "alnum", "other"}, length: Lengths ] :
      v.length = 0 => v.form = "digits" }

Empty(v) == v = NULL \/ v.length = 0

Valid == [ valid |-> TRUE, campo |-> "none" ]

Invalid(campo) == [ valid |-> FALSE, campo |-> campo ]

Digits(v, n) == v.form = "digits" /\ v.length = n

validateCedulaFormat(v) == IF Digits(v, 10) THEN Valid ELSE Invalid("cedula")

validateRucFormat(v) == IF Digits(v, 13) THEN Valid ELSE Invalid("ruc")

validatePasaporteFormat(v) ==
  IF v.form # "other" /\ v.length \in 5..20 THEN Valid ELSE Invalid("pasaporte")

isNaCedulaORuc(v) == v.form = "na" /\ v.length = 10

\* Mutant: the length alone decides.
validateByLength(cedulaORuc, esPasaporte, pasaporte) ==
  IF esPasaporte
  THEN IF Empty(pasaporte) THEN Invalid("pasaporte") ELSE validatePasaporteFormat(pasaporte)
  ELSE IF Empty(cedulaORuc) THEN Valid
  ELSE IF cedulaORuc.length \in {10, 13} THEN Valid ELSE Invalid("cedula")

validateIdentificacion(cedulaORuc, esPasaporte, pasaporte) ==
  IF esPasaporte
  THEN IF Empty(pasaporte) THEN Invalid("pasaporte") ELSE validatePasaporteFormat(pasaporte)
  ELSE IF Empty(cedulaORuc) THEN Valid
  ELSE IF isNaCedulaORuc(cedulaORuc) THEN Valid
  ELSE IF cedulaORuc.length = 10 THEN validateCedulaFormat(cedulaORuc)
  ELSE IF cedulaORuc.length = 13 THEN validateRucFormat(cedulaORuc)
  ELSE Invalid(IF cedulaORuc.form = "digits" /\ cedulaORuc.length > 13 THEN "ruc" ELSE "cedula")
=============================================================================
