---------------------------- MODULE MCChatHistory ----------------------------
(***************************************************************************)
(* Instances of ChatHistory for TLC: every client may send any event it    *)
(* can form, as often as it likes and in any order.                        *)
(***************************************************************************)
EXTENDS ChatHistory, TLC

CONSTANTS new, stable, other, prompt, answer, q1

Twins == Permutations({stable, other})
==============================================================================
