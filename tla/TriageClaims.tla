---------------------------- MODULE TriageClaims ----------------------------
(***************************************************************************)
(* What comments and change records say of the triage of an offense and    *)
(* app.py does not do.  Each formula is the statement of the text; the run *)
(* that checks it exhibits a behaviour of the code that contradicts it.    *)
(***************************************************************************)
EXTENDS Triage

\* app.py:910-911: an empty result is not an error; a failed query ends in
\* AQL_ERROR.  An offense is set aside as NO_EVENTS only if no query failed.
FailureIsNotEmptiness ==
    \A r \in Run : fate[r] = "NO_EVENTS" => Failures(found[r]) = {}
=============================================================================
