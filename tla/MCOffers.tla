------------------------------ MODULE MCOffers ------------------------------
(***************************************************************************)
(* Board and Access on small instances: the notice board under concurrent  *)
(* calls, or one document screen with one user and one document; the       *)
(* subject says which.                                                     *)
(***************************************************************************)
EXTENDS MCBoard

CONSTANTS k1, k2, Plants, NoPlant

\* A company has a plant.
ASSUME PlantNames == Plants # {} /\ NoPlant \notin Plants

VARIABLES subject, kind, me, doc, screen

Offer == INSTANCE Access
accessVars == <<kind, me, doc, screen>>

OffersInit ==
  \/ /\ subject = "board" /\ Init
     /\ kind = {} /\ me = {} /\ doc = {} /\ screen = {}
  \/ /\ subject = "access" /\ Init /\ pool = CHOOSE n \in PoolSizes : TRUE
     /\ Offer!AccessInit

OffersNext ==
  \/ subject = "board" /\ Next /\ UNCHANGED <<subject, accessVars>>
  \/ subject = "access" /\ Offer!AccessNext /\ UNCHANGED <<subject, vars>>

OffersSpec == OffersInit /\ [][OffersNext]_<<subject, vars, accessVars>>

\* The type invariants of Board and Access.
OffersTypeOK == TypeOK /\ (subject = "access" => Offer!AccessTypeOK)
\* The property of Access, stated there.
OfferedIsGranted == subject = "access" => Offer!OfferedIsGranted
=============================================================================
