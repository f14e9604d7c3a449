---------------------------- MODULE MCMissionRun ----------------------------
(* Two stories, two requests, one remediation, two invocations that die   *)
(* and one commit of somebody else.                                        *)
EXTENDS MissionRun
=============================================================================
