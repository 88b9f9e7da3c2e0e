---------------------------- MODULE InventoryReport ----------------------------
(***************************************************************************)
(* InventoryReport::generate over the shared catalogue.  It lists entries  *)
(* in the order they were added and gives up at the first it cannot list:  *)
(* retrieveDetails throws for a title nobody listed, and a record of a     *)
(* book asks LibraryOfCongressAPI, which is a stub that always throws, for *)
(* the ISBN.  Entries of other types are skipped.  What the report says of *)
(* those it could list is layout, left out.                                *)
(***************************************************************************)
EXTENDS HoldingService

\* Slip: all titles are looked up before the first record is made.
ReportInTwoPasses ==
    LET Lists(type) == \E i \in DOMAIN catalog : TypeOf[catalog[i].copy.cls] = type
    IN  IF Lists("unlisted") THEN "ClassificationNotFound"
        ELSE IF Lists("book") THEN "connection unavailable" ELSE "printed"

\* How generate() ends.
Report ==
    LET stops == {i \in DOMAIN catalog :
                    TypeOf[catalog[i].copy.cls] \in {"unlisted", "book"}}
    IN  IF stops = {} THEN "printed"
        ELSE IF \E i \in stops : /\ \A j \in stops : i <= j
                                 /\ TypeOf[catalog[i].copy.cls] = "book"
               THEN "connection unavailable"
               ELSE "ClassificationNotFound"

\* One entry that cannot be listed ends every later report in the same way: no
\* call cures it, by shelving, lending or adding any copy again, until the
\* catalogue is emptied.
ReportStaysBroken ==
    [][catalog' \notin {catalog, <<>>} /\ Report # "printed"
          => Report' = Report]_vars

==============================================================================
