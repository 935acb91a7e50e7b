---------------------------- MODULE MCChatCapture ----------------------------
(***************************************************************************)
(* Instances of ChatCapture for TLC.                                       *)
(***************************************************************************)
EXTENDS ChatCaptureProperties, TLC

CONSTANTS t1, t2, q1

Tabs == Permutations(Pages)
==============================================================================
