------------------------------ MODULE Directory ------------------------------
(***************************************************************************)
(* What registration and the profile promise: a directory in which no two  *)
(* accounts answer to one handle, an account comes into being with its     *)
(* credentials, and a change alters the fields it names and no other.      *)
(***************************************************************************)
CONSTANTS Ids, Handles, Owners, DisplayNames, Bios, EmptyBio, Nobody, Absent

VARIABLES
  handle,        \* the handle an account answers to, Nobody while it is not one
  owner,         \* whose password opens it
  displayName,
  bio

vars == <<handle, owner, displayName, bio>>

Init ==
  /\ handle = [i \in Ids |-> Nobody]
  /\ owner = [i \in Ids |-> Nobody]
  /\ displayName = [i \in Ids |-> Nobody]
  /\ bio = [i \in Ids |-> Nobody]

Register(i, h, o, n) ==
  /\ handle[i] = Nobody
  /\ \A j \in Ids : handle[j] # h
  /\ handle' = [handle EXCEPT ![i] = h]
  /\ owner' = [owner EXCEPT ![i] = o]
  /\ displayName' = [displayName EXCEPT ![i] = n]
  /\ bio' = [bio EXCEPT ![i] = EmptyBio]

Change(i, n, b) ==
  /\ handle[i] # Nobody
  /\ displayName' = [displayName EXCEPT ![i] = IF n = Absent THEN @ ELSE n]
  /\ bio' = [bio EXCEPT ![i] = IF b = Absent THEN @ ELSE b]
  /\ UNCHANGED <<handle, owner>>

Next ==
  \E i \in Ids :
    \/ \E h \in Handles, o \in Owners, n \in DisplayNames : Register(i, h, o, n)
    \/ \E n \in DisplayNames \cup {Absent}, b \in Bios \cup {Absent} : Change(i, n, b)

Spec == Init /\ [][Next]_vars
=============================================================================
