---------------------------- MODULE MCMigrations ----------------------------
(***************************************************************************)
(* A small instance of Migrations for TLC: three managers, two of them of  *)
(* the same date; the last room the seeds have and the first they have no  *)
(* more.                                                                   *)
(***************************************************************************)
EXTENDS Migrations, TLC

CONSTANTS m1, m2, m3, r1, r2

Dates == (m1 :> 1) @@ (m2 :> 1) @@ (m3 :> 2)

LastAndNext == (r1 :> 5) @@ (r2 :> 6)

\* A type somebody has typed in.
OldTypes == {"Cabin"}

\* One of each kind the migrations tell apart.
OneOfEach == {"Family Room", "Economy Twin", "Penthouse Suite", "Presidential Suite", "Cabin"}
=============================================================================
