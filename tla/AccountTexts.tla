---------------------------- MODULE AccountTexts ----------------------------
(***************************************************************************)
(* Accounts with texts for its handles, display names and bios: the calls  *)
(* carry what people typed, and what gets past ProfileText is stored.      *)
(***************************************************************************)
EXTENDS Accounts, ProfileText

CONSTANTS TypedHandles, TypedNames, TypedBios   \* texts people type into a field

(* What register and updateProfile hand on to the repositories.            *)
AcceptedHandles == {text \in TypedHandles : IsHandle(text)}
AcceptedNames == {NormalizeDisplayName(text) : text \in TypedNames} \ {Refused}
AcceptedBios == {NormalizeBio(text) : text \in TypedBios} \ {Refused}

ASSUME TextAssumption ==
  /\ \A text \in TypedHandles \cup TypedNames \cup TypedBios : text \in Text
  /\ Spellings = AcceptedHandles
  /\ Names = AcceptedNames
  /\ Bios = AcceptedBios
  /\ EmptyBio = <<>>

-----------------------------------------------------------------------------
(* What a text has to be to be shown, whichever way it came to be stored.  *)
Presentable(text, allowed, max) ==
  /\ Len(text) <= max
  /\ text # <<>> => text[1] \notin Whitespace /\ text[Len(text)] \notin Whitespace
  /\ ~Has(text, Controls \ allowed)

(* What is stored can be shown as it is: a display name on one line with   *)
(* nothing hidden in it, also while it is still the handle, which no rule  *)
(* for display names has seen; and a bio whose line breaks are line feeds. *)
StoredTextsArePresentable ==
  \A i \in Accounts :
    /\ displayName[i] # <<>>
    /\ Presentable(displayName[i], {}, NameMax)
    /\ ~Has(displayName[i], Invisible)
    /\ Presentable(bio[i], {"LF"}, BioMax)

(* A client that sends back the profile it read is never refused and       *)
(* changes nothing, so that editing one field cannot trip over the other.  *)
ReadBackChangesNothing ==
  \A i \in Accounts :
    /\ NormalizeDisplayName(displayName[i]) = displayName[i]
    /\ NormalizeBio(bio[i]) = bio[i]
=============================================================================
