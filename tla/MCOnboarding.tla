---------------------------- MODULE MCOnboarding ----------------------------
(* A small instance of Onboarding for TLC.                                 *)
EXTENDS Onboarding

MCContents == {[kind |-> "G", size |-> 2], [kind |-> "J", size |-> 3]}
=============================================================================
