--------------------------- MODULE ImportsClaims ---------------------------
(***************************************************************************)
(* What the documentation says of imports, and the code does not do.       *)
(* Checked to be violated.                                                 *)
(***************************************************************************)
EXTENDS Imports

\* ARCHITECTURE.md:346, "Uploaded files deleted after processing": the file
\* of a job that waits to be processed once more, and that no handler is at,
\* is still there.
UploadKeptForRetry ==
  \A j \in Jobs :
    /\ phase[j] = "queued"
    /\ \A w \in Workers : run[w] = None
    /\ fileOf[j] \in Uploads
    => fileOf[j] \in files
=============================================================================
