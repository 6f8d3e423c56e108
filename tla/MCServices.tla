------------------------------ MODULE MCServices ------------------------------
(***************************************************************************)
(* The services around the database for TLC: object storage, system log,   *)
(* registration and the demo seed.  They share no variable, and as in      *)
(* MCAdministration subject says which of them moves; the uploads of the   *)
(* one, the requests of the other and the clients of the third bear the    *)
(* same names.                                                             *)
(***************************************************************************)
EXTENDS FileStorage, AuditLog, Registration, DemoSeed, TLC

CONSTANTS one, two, tick, tock, picture, remover

VARIABLE subject

MCLower(email) == IF email = "Ann" THEN "ann" ELSE email

ServicesSymmetry == Permutations({one, two}) \cup Permutations({tick, tock})

(* What the component that moves may begin with, and no more. *)
ServicesInit ==
    /\ StorageInit /\ AuditInit /\ RegistrationInit /\ DemoInit
    /\ subject \in {"storage", "audit", "registration", "demo"}
    /\ subject = "storage" \/ bucket
    /\ subject = "registration" \/ roleUser

ServicesNext ==
    /\ UNCHANGED subject
    /\ \/ subject = "storage" /\ StorageNext /\ UNCHANGED <<auditVars, registrationVars, demoVars>>
       \/ subject = "audit" /\ AuditNext /\ UNCHANGED <<storageVars, registrationVars, demoVars>>
       \/ subject = "registration" /\ RegistrationNext /\ UNCHANGED <<storageVars, auditVars, demoVars>>
       \/ subject = "demo" /\ DemoNext /\ UNCHANGED <<storageVars, auditVars, registrationVars>>

ServicesSpec ==
    ServicesInit /\ [][ServicesNext]_<<storageVars, auditVars, registrationVars, demoVars, subject>>
=============================================================================
