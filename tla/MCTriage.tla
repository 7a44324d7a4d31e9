------------------------------ MODULE MCTriage ------------------------------
(***************************************************************************)
(* Small instances of Triage for TLC.                                      *)
(***************************************************************************)
EXTENDS TriageClaims

AnyRequest == [manual: BOOLEAN, force: BOOLEAN]

L(aql, close, byRule) == [aql |-> aql, close |-> close, byRule |-> byRule]

Offense(lenses, damaged, candidate, assignee) ==
    [lenses |-> lenses, damaged |-> damaged, candidate |-> candidate, assignee |-> assignee]

\* No use case; one with the flag; two that share a query; two flagged ones, the
\* second found by the name of a rule; three, which MaxLenses = 2 truncates.
LensCases ==
    {Offense(lenses, FALSE, FALSE, TRUE) : lenses \in
        {<<>>,
         <<L("a", TRUE, FALSE)>>,
         <<L("a", TRUE, FALSE), L("a", FALSE, TRUE)>>,
         <<L("a", TRUE, FALSE), L("b", TRUE, TRUE)>>,
         <<L("a", TRUE, FALSE), L("b", TRUE, FALSE), L("c", TRUE, TRUE)>>}}
    \cup {Offense(<<>>, TRUE, FALSE, FALSE)}

\* An offense whose address is on the block-list, and one whose is not.
VerdictCases ==
    {Offense(<<L("a", FALSE, FALSE)>>, FALSE, candidate, TRUE) : candidate \in BOOLEAN}

AllCases == LensCases \cup VerdictCases
=============================================================================
