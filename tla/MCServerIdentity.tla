-------------------------- MODULE MCServerIdentity --------------------------
(* Instances of ServerIdentity for TLC.                                    *)
EXTENDS ServerIdentity, TLC
=============================================================================
