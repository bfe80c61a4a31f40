------------------------------- MODULE MCRunLoop -------------------------------
(***************************************************************************)
(* Instances of RunLoop for TLC.                                           *)
(***************************************************************************)
EXTENDS RunLoop

TwoPolls == {10, 20}
OnePoll  == {10}

=============================================================================
