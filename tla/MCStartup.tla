----------------------------- MODULE MCStartup -----------------------------
(***************************************************************************)
(* Small deployments of Startup for TLC.                                   *)
(***************************************************************************)
EXTENDS Startup

CONSTANTS s1, s2, s3

TwoSchedulers == <<s1, s2>>
ThreeSchedulers == <<s1, s2, s3>>
=============================================================================
