------------------------------ MODULE MCConsole ------------------------------
(* The crashes of each run: a place and a kind.  An exception without an   *)
(* error code clears is_in_isr and is left out (README, section 5).        *)
EXTENDS Console

MCLengths == {1, 2}

NoCrashes == {}
AnyCrashes ==
  {<<"idle", "assert">>, <<"keyboard", "assert">>, <<"keyboard", "fault">>,
   <<"trace", "fault">>}

SlowOrLagging == {"slow", "lagging"}
Quick == {"quick"}
=============================================================================
