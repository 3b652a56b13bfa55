------------------------------ MODULE Transfer ------------------------------
(***************************************************************************)
(* What the transfer of a disk between two providers promises, whichever   *)
(* they are and however many attempts it takes: an image is exported, and  *)
(* a verified import installs that image and no other.  An import that is  *)
(* not verified promises nothing about what it installs.                   *)
(***************************************************************************)
CONSTANT Images

VARIABLES exported,  \* the image the last successful export has reported, or {}
          installed  \* what the import has installed and whether it was verified, or {}

tvars == <<exported, installed>>

Result == [image : Images, verified : BOOLEAN]
Nothing == {}

Init ==
    /\ exported = Nothing
    /\ installed = Nothing

(* An export that succeeds; a later one replaces it until the import has   *)
(* succeeded.                                                              *)
Export ==
    /\ installed = Nothing
    /\ \E i \in Images : exported' = {i}
    /\ UNCHANGED installed

Install ==
    /\ installed = Nothing /\ exported # Nothing
    /\ \E r \in Result :
          /\ r.verified => r.image \in exported
          /\ installed' = {r}
    /\ UNCHANGED exported

Next == Export \/ Install

Spec == Init /\ [][Next]_tvars
=============================================================================
