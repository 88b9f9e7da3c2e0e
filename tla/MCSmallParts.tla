------------------------------ MODULE MCSmallParts ------------------------------
(***************************************************************************)
(* The small parts of the library that share no state, for TLC: branches   *)
(* saved up to three times, reports fetched from a server with four        *)
(* versions of robots.txt, and a customer with two movies.  One of them    *)
(* at a time has anything to do.                                           *)
(***************************************************************************)
EXTENDS LineFiles, FileReport, Customer

VARIABLE part

partsVars == <<filesVars, reportVars, customerVars, part>>

B(id, name) ==
    [id |-> <<Line(id)>>, name |-> [i \in DOMAIN name |-> Line(name[i])],
     address |-> <<Line("Main")>>]

MCShelves == {<<>>,
              <<B("1", <<"east">>), B("2", <<"">>)>>,
              <<B("", <<"none">>), B("3", <<"west">>), B("4", <<"north">>)>>,
              <<B("5", <<"far", "away">>), B("6", <<"south">>)>>}

MCVersions == <<<<Line("a1"), Blank, Line("a3")>>,
                <<>>,
                <<Line("c1"), Line("c2")>>,
                <<Line("d1"), Line("c2"), Line("d3"), Line("d4")>>>>

MCPriceCodes == {"regular", "new release", "childrens", "7"}

MCDaysRented == {-1, 2, 3}

PartsInit ==
    /\ FilesInit /\ saves = Saves
    /\ ReportInit /\ served = 1
    /\ CustomerInit /\ price = [m \in Movies |-> "regular"]
    /\ part \in {"files", "report", "customer"}

PartsNext ==
    /\ \/ part = "files" /\ FilesNext /\ UNCHANGED <<reportVars, customerVars>>
       \/ part = "report" /\ ReportNext /\ UNCHANGED <<filesVars, customerVars>>
       \/ part = "customer" /\ CustomerNext /\ UNCHANGED <<filesVars, reportVars>>
    /\ UNCHANGED part

PartsSpec == PartsInit /\ [][PartsNext]_partsVars /\ LoaderRuns

==============================================================================
