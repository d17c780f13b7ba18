-------------------------------- MODULE MCRetry --------------------------------
(* RetryQueue on small instances.                                          *)
EXTENDS RetryQueue

CONSTANTS s1, s2, all

Sessions == {s1}
TwoSessions == {s1, s2}

Catchup == {<<"catchup", all>>}
DeepAll == {<<"deep", all>>}
NoKey == {}

WatchOnly == {TRUE}

\* The second capture is large enough for the deep profile.
SecondIsHeavy == {2}
=============================================================================
