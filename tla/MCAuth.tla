------------------------------- MODULE MCAuth -------------------------------
(* Instances of SignIn, Sessions and AppConnections for TLC.  A behaviour  *)
(* follows one of them: signing in ends where minting begins, suspension   *)
(* deletes connections after it has ended the sessions, and they share no  *)
(* row.                                                                    *)
EXTENDS SignIn, Sessions, AppConnections, TLC

CONSTANTS h1, h2
VARIABLE focus

CodesAndFactor == [code |-> 2, secret |-> 1, recovery |-> 1, link |-> 0]
FactorAlone == [code |-> 0, secret |-> 2, recovery |-> 2, link |-> 0]
LinksAlone == [code |-> 0, secret |-> 0, recovery |-> 0, link |-> 2]
MCBudgets == {CodesAndFactor, FactorAlone, LinksAlone}

vars == <<focus, signInVars, sessionVars, connectionVars>>

MCInit ==
    /\ focus \in {"sign-in", "sessions", "connections"}
    /\ SignInInit /\ SessionInit /\ AppConnectionInit
    /\ focus # "sign-in" => budget = LinksAlone
    /\ focus # "connections" => ~rotates

MCNext ==
    \/ focus = "sign-in" /\ SignInNext /\ UNCHANGED <<focus, sessionVars, connectionVars>>
    \/ focus = "sessions" /\ SessionNext /\ UNCHANGED <<focus, signInVars, connectionVars>>
    \/ /\ focus = "connections" /\ AppConnectionNext
       /\ UNCHANGED <<focus, signInVars, sessionVars>>

Spec == MCInit /\ [][MCNext]_vars

Symmetry == Permutations(Handler)

(* No step trades a token that a revocation covers, or takes a code that   *)
(* has been replaced.                                                      *)
AuthSteps == RevokedIsNotTraded /\ ReplacedIsDead
=============================================================================
