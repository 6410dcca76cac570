-------------------------------- MODULE MCHitl --------------------------------
(* Small instances of HitlManager.  Every request is addressed to the same     *)
(* user, ann; the session "other" belongs to somebody else.                    *)
EXTENDS HitlManager

CONSTANTS ann, bob, other

OwnerAnn == [a \in Actions |-> ann]
WebUser  == [c \in Sessions |-> IF c = other THEN bob ELSE ann]
===============================================================================
