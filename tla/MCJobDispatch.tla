---------------------------- MODULE MCJobDispatch ----------------------------
(***************************************************************************)
(* Instances of JobDispatch for TLC.                                       *)
(***************************************************************************)
EXTENDS JobDispatch

\* Two jobs of one client; the first one may be exclusive.
OneJob  == {1}
TwoJobs == {1, 2}
NoJob   == {}
First   == {1}

NeverFails  == {}
EitherFails == {"unauthorized", "unprepared"}
=============================================================================
