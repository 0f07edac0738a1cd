----------------------------- MODULE Management -----------------------------
(***************************************************************************)
(* How a board is managed: signed requests, firmware uploads, its log, its *)
(* command line, its configuration as JSON and its signing key.  They      *)
(* share nothing that changes while one of them is at work, the lock level *)
(* of an upload is the one it began with, so an instance looks at one of   *)
(* them at a time.                                                         *)
(***************************************************************************)
EXTENDS SignedActions, Upload, LogRing, Console, ConfigJson, AuthSigner

CONSTANT Desks   (* those an instance looks at *)

VARIABLE desk   (* the one that is looked at *)

managementVars == <<signedVars, uploadVars, logVars, consoleVars, jsonVars, signerVars, desk>>

ManagementInit ==
  /\ desk \in Desks
  /\ SignedInit /\ (desk # "signed" => lock_level = 0)
  /\ UploadInit /\ (desk # "upload" => upload = CHOOSE u \in Uploads : TRUE)
  /\ LogInit /\ ConsoleInit /\ JsonInit /\ SignerInit

Receives ==
  /\ desk = "upload" /\ Receive
  /\ UNCHANGED <<signedVars, logVars, consoleVars, jsonVars, signerVars, desk>>

ManagementNext ==
  \/ /\ desk = "signed" /\ SignedNext
     /\ UNCHANGED <<uploadVars, logVars, consoleVars, jsonVars, signerVars, desk>>
  \/ Receives
  \/ /\ desk = "log" /\ LogNext
     /\ UNCHANGED <<signedVars, uploadVars, consoleVars, jsonVars, signerVars, desk>>
  \/ /\ desk = "console" /\ ConsoleNext
     /\ UNCHANGED <<signedVars, uploadVars, logVars, jsonVars, signerVars, desk>>
  \/ /\ desk = "json" /\ JsonNext
     /\ UNCHANGED <<signedVars, uploadVars, logVars, consoleVars, signerVars, desk>>
  \/ /\ desk = "signer" /\ SignerNext
     /\ UNCHANGED <<signedVars, uploadVars, logVars, consoleVars, jsonVars, desk>>

(* The socket answers: with bytes, with a timeout of its own or with an    *)
(* error.                                                                  *)
ManagementSpec ==
  ManagementInit /\ [][ManagementNext]_managementVars /\ WF_managementVars(Receives)

(* ota.rs:121-150: every upload comes to an end: each wait of the socket   *)
(* ends with a chunk, a timeout or an error, a chunk makes the rest        *)
(* smaller and only MaxStalls timeouts in a row are waited for.            *)
UploadEnds == (desk = "upload" /\ outcome = "receiving") ~> (outcome # "receiving")
=============================================================================
