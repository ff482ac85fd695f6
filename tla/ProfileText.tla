----------------------------- MODULE ProfileText -----------------------------
(***************************************************************************)
(* The rules of the identity service for handles, display names and bios,  *)
(* as functions of a text.  A text is a sequence of characters, and of     *)
(* characters there is one of each kind the rules tell apart.              *)
(***************************************************************************)
EXTENDS Integers, Sequences, FiniteSets

CONSTANTS
  HandleMin, HandleMax,   \* 3 and 20
  NameMax,                \* DISPLAY_NAME_MAX, 50
  BioMax                  \* BIO_MAX, 160

ASSUME LimitsAssumption ==
  /\ HandleMin \in Nat \ {0} /\ HandleMax \in Nat /\ NameMax \in Nat /\ BioMax \in Nat
  /\ HandleMax <= NameMax

-----------------------------------------------------------------------------
WordCharacters == {"a", "A", "b", "1", "_"}

(* What String.prototype.trim takes off: a no-break space and a byte order *)
(* mark too.                                                               *)
Whitespace == {"SP", "NBSP", "TAB", "LF", "CR", "BOM"}

(* Below FIRST_PRINTABLE, and DELETE.                                      *)
Controls == {"NUL", "TAB", "LF", "CR", "DEL"}

(* INVISIBLE_CHARACTERS: zero-width space, right-to-left override.         *)
Invisible == {"ZWSP", "RLO", "BOM"}

(* A letter of another script, and one that takes two UTF-16 units.        *)
OtherLetters == {"alef", "bird"}

Characters == WordCharacters \cup Whitespace \cup Controls \cup Invisible \cup OtherLetters

Text == Seq(Characters)

(* Stands for the DomainValidationError; no text of characters.            *)
Refused == <<"refused">>

Has(text, kinds) == \E i \in DOMAIN text : text[i] \in kinds

(* Code points, which is what the elements of a text are.                  *)
CountCharacters(text) == Len(text)

HasControlCharacters(text, allowNewline) ==
  Has(text, Controls \ (IF allowNewline THEN {"LF"} ELSE {}))

Trim(text) ==
  LET solid == {i \in DOMAIN text : text[i] \notin Whitespace}
      first == CHOOSE i \in solid : \A j \in solid : i <= j
      last == CHOOSE i \in solid : \A j \in solid : j <= i
  IN IF solid = {} THEN <<>> ELSE SubSeq(text, first, last)

(* Every CR that stands before an LF goes.                                 *)
FoldLineEndings(text) ==
  LET kept == {i \in DOMAIN text :
                 ~(text[i] = "CR" /\ i < Len(text) /\ text[i + 1] = "LF")}
      Kept(k) == CHOOSE i \in kept : Cardinality({j \in kept : j <= i}) = k
  IN [k \in 1 .. Cardinality(kept) |-> text[Kept(k)]]

-----------------------------------------------------------------------------
(* Fault: the rule has no upper end.                                       *)
IsHandleOfAnyLength(text) == Len(text) >= HandleMin /\ ~Has(text, Characters \ WordCharacters)

(* assertValidHandle.                                                      *)
IsHandle(text) ==
  /\ Len(text) \in HandleMin .. HandleMax
  /\ ~Has(text, Characters \ WordCharacters)

(* Fault: what is checked is the trimmed text, and what is returned is not.*)
NormalizeDisplayNameInPlace(displayName) ==
  IF /\ Trim(displayName) # <<>>
     /\ ~HasControlCharacters(Trim(displayName), FALSE)
     /\ ~Has(Trim(displayName), Invisible)
     /\ CountCharacters(Trim(displayName)) <= NameMax
  THEN displayName ELSE Refused

NormalizeDisplayName(displayName) ==
  LET trimmed == Trim(displayName)
  IN IF /\ trimmed # <<>>
        /\ ~HasControlCharacters(trimmed, FALSE)
        /\ ~Has(trimmed, Invisible)
        /\ CountCharacters(trimmed) <= NameMax
     THEN trimmed ELSE Refused

NormalizeBio(bio) ==
  LET trimmed == Trim(FoldLineEndings(bio))
  IN IF ~HasControlCharacters(trimmed, TRUE) /\ CountCharacters(trimmed) <= BioMax
     THEN trimmed ELSE Refused
=============================================================================
