------------------------------ MODULE MCContent ------------------------------
(* Instances of Files, Lists, SlackImport and Connections for TLC: what is   *)
(* attached to the messages of a channel, what its lists hold, what an       *)
(* import brings into it, and the gateway's registry of sockets.  They share *)
(* no state, and a behaviour follows one.                                    *)
EXTENDS MCConnections, Files, Lists, SlackImport, SequencesExt

CONSTANTS w1, w2

VARIABLE focus

contentVars == <<focus, vars, fileVars, listVars, importVars>>

ContentInit ==
    /\ focus \in {"sockets", "files", "lists", "import"}
    /\ Init /\ FileInit /\ ListInit /\ ImportInit
    /\ focus # "files" => fileBudget.holds = 1
    /\ focus # "import" => importBudget.dry # {}
    /\ importBudget.dry # {} => kind = "public"
    /\ importBudget.uploads = {1, 2} => kind = "private"
    /\ importBudget.faults = 0 => homes = <<>>

ContentNext ==
    \/ focus = "sockets" /\ Next /\ UNCHANGED <<focus, fileVars, listVars, importVars>>
    \/ focus = "files" /\ FileNext /\ UNCHANGED <<focus, vars, listVars, importVars>>
    \/ focus = "lists" /\ ListNext /\ UNCHANGED <<focus, vars, fileVars, importVars>>
    \/ focus = "import" /\ ImportNext /\ UNCHANGED <<focus, vars, fileVars, listVars>>

ContentSpec ==
    ContentInit /\ [][ContentNext]_contentVars /\ Fairness /\ FileFairness

(* Two requests at once while a draft is scheduled and a file comes of age, *)
(* or something fails; and a failure under the retention job.               *)
MCFileBudgets ==
    {[requests |-> Handler, holds |-> 1, ages |-> 1, faults |-> 0],
     [requests |-> Handler, holds |-> 0, ages |-> 0, faults |-> 1],
     [requests |-> {CHOOSE h \in Handler : TRUE}, holds |-> 0, ages |-> 2, faults |-> 1]}

(* Three runs of one job with failures anywhere; a worker presumed dead;   *)
(* an export that is uploaded twice; a dry run.                            *)
OneImport == [workers |-> {w1, w2}, uploads |-> {1}, dry |-> {},
              retries |-> 0, faults |-> 0, lapses |-> 0]
MCImportBudgets ==
    {[OneImport EXCEPT !.workers = {w1}, !.retries = 2, !.faults = 2],
     [OneImport EXCEPT !.retries = 1, !.lapses = 1],
     [OneImport EXCEPT !.uploads = {1, 2}],
     [OneImport EXCEPT !.dry = {1}]}

(* midpoint as it is written, by calls of itself.                           *)
RECURSIVE midpoint(_, _)
midpoint(low, high) ==
    LET shared == Cardinality({n \in DOMAIN high : \A k \in 1..n : DigitAt(low, k) = high[k]})
        l == DigitAt(low, 1)
        h == IF high = <<>> THEN Base ELSE high[1]
        Rest(s, k) == SubSeq(s, k + 1, Len(s))
    IN  IF shared > 0 THEN SubSeq(high, 1, shared) \o midpoint(Rest(low, shared), Rest(high, shared))
        ELSE IF RoomBetween(l, h) THEN <<Halfway(l, h)>>
        ELSE IF Len(high) > 1 THEN <<high[1]>>
        ELSE <<l>> \o midpoint(Rest(low, 1), <<>>)

(* Lists' Midpoint is that, for all ranks of up to three digits in order.   *)
ASSUME MidpointAssumption ==
    \A low, high \in BoundedSeq(Digit, 3) :
        high = <<>> \/ Less(low, high) => Midpoint(low, high) = midpoint(low, high)

(* A client that is gone leaves the registry; an expired draft is swept    *)
(* and an aged file retired; an item lands where it was dropped.           *)
ContentProgress ==
    GoneIsRemoved /\ ExpiredIsSwept /\ AgedIsRetired /\ PlacedWhereAsked
=============================================================================
