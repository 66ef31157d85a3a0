--------------------------- MODULE MCApiLifecycle ---------------------------
(***************************************************************************)
(* A replica starts beside another run of Migrate, of an older release     *)
(* with one migration less.                                                *)
(***************************************************************************)
EXTENDS ApiLifecycle

MCRuns == {"old", "pod"}
MCFiles == [r \in MCRuns |-> IF r = "old" THEN 1 ELSE 2]
=============================================================================
