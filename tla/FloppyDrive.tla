----------------------------- MODULE FloppyDrive -----------------------------
(***************************************************************************)
(* What the drive promises its host, whatever threads and locks implement  *)
(* it: the medium may be swapped at any moment, but a command is served    *)
(* from the medium in the drive only to a host that takes it for that      *)
(* medium, or knows of none.  FloppyLun implements this specification.     *)
(***************************************************************************)
CONSTANTS Media, NoFile

VARIABLES
    medium,     \* what is in the drive
    hostView,   \* the medium the host has cached data of
    served      \* the medium the command in progress was served from

vars == <<medium, hostView, served>>

Init == medium = NoFile /\ hostView = NoFile /\ served = NoFile

\* Userspace or the host changes what is in the drive.
Swap ==
    /\ medium' \in Media \union {NoFile}
    /\ UNCHANGED <<hostView, served>>

\* A command reads or writes the medium.
Serve ==
    /\ medium # NoFile
    /\ hostView \in {NoFile, medium}
    /\ served' = medium
    /\ UNCHANGED <<medium, hostView>>

\* Its status reaches the host, who now has data of that medium.
Believe ==
    /\ served # NoFile
    /\ hostView' = served
    /\ served' = NoFile
    /\ UNCHANGED medium

\* The host is told that the medium may have changed.
Forget ==
    /\ hostView' = NoFile
    /\ UNCHANGED <<medium, served>>

\* A command ends without a status the host could believe.
NoStatus ==
    /\ served' = NoFile
    /\ UNCHANGED <<medium, hostView>>

Next == Swap \/ Serve \/ Believe \/ Forget \/ NoStatus

Spec == Init /\ [][Next]_vars
=============================================================================
