----------------------------- MODULE MCUrdpFlow -----------------------------
(* Instances of UrdpFlow for TLC. *)
EXTENDS UrdpFlow

CONSTANTS IssA, IssP, MsgsA, MsgsP, PingsA, PingsP

MCIss == [e \in Ends |-> IF e = A THEN IssA ELSE IssP]
MCMaxMsgs == [e \in Ends |-> IF e = A THEN MsgsA ELSE MsgsP]
MCMaxPings == [e \in Ends |-> IF e = A THEN PingsA ELSE PingsP]
=============================================================================
