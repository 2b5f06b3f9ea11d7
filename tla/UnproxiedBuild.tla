--------------------------- MODULE UnproxiedBuild ---------------------------
(***************************************************************************)
(* What the proxied builder promises a Dockerfile author: the image is the *)
(* one the same Dockerfile produces without the proxy.  A step works on a  *)
(* private copy of the image; the copy becomes the image when the step     *)
(* succeeds and is thrown away when it fails.  Nothing else touches the    *)
(* image: no certificate, no database slot, no re-encoded keystore.        *)
(*                                                                         *)
(* CaInjection implements this specification (its property Implements).    *)
(***************************************************************************)
CONSTANTS
  Path,       \* the files of the image a step can reach
  Body        \* what a file can hold, the absence of the file included

VARIABLES
  image,      \* [Path -> Body], the committed layers
  work,       \* [Path -> Body], what the running step has made of it
  running     \* is a step running?

vars == <<image, work, running>>

TypeOK ==
  /\ image \in [Path -> Body]
  /\ work \in [Path -> Body]
  /\ running \in BOOLEAN

Init ==
  /\ image \in [Path -> Body]
  /\ work = image
  /\ running = FALSE

\* The next RUN instruction starts from the committed image.
Begin ==
  /\ ~running
  /\ running' = TRUE
  /\ work' = image
  /\ UNCHANGED image

\* The step does as it likes with its own copy.
Edit ==
  /\ running
  /\ work' \in [Path -> Body]
  /\ UNCHANGED <<image, running>>

\* The step ends well: exactly what it made is committed.
Succeed ==
  /\ running
  /\ running' = FALSE
  /\ image' = work
  /\ UNCHANGED work

\* The step fails, for a reason of its own or of the builder's.
Fail ==
  /\ running
  /\ running' = FALSE
  /\ UNCHANGED <<image, work>>

Next == Begin \/ Edit \/ Succeed \/ Fail

Spec == Init /\ [][Next]_vars
=============================================================================
