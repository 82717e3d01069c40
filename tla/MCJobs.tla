-------------------------------- MODULE MCJobs --------------------------------
EXTENDS Jobs

MCListings == {1, 2}
MCCatalogs == {1, 2}
MCCompleteness == <<3, 5>>

\* Catalog 1 has two pages; the second run scans it alone, one page deep, as another lane would.
MCDepth == <<2, 1>>
MCOptions == <<[catalogs |-> {1, 2}, pages |-> 2], [catalogs |-> {1}, pages |-> 1]>>
MCPages == {<<>>, <<1, 2>>}
MCAnswers == {"unknown"}

\* The store of a run that goes on, a page of two listings and one of another catalog; a run with a
\* lesser identifier may begin beside it.
OnePage == Taken(Taken(StartRun(EmptyStore, 2), 2, 1, 1, 2, 1), 2, 1, 1, 2, 2)
MCSources == {RecordProbe(Taken(OnePage, 2, 2, 1, 2, 1), 1, 2, "active")}

\* The hosts differ in the text of version 2, and the second has a version 3 it does not expect.
CONSTANTS h1, h2
MCReleases == [h \in Hosts |-> IF h = h1 THEN [expects |-> 2, sums |-> <<1, 1>>]
                               ELSE [expects |-> 2, sums |-> <<1, 2, 1>>]]
\* The second listing has no brand; both catalogs have one root.
MCCards == <<[brand |-> 1, condition |-> 1, price |-> 1500],
             [brand |-> 0, condition |-> 1, price |-> 2500]>>
MCRoots == <<1, 1>>
MCShelves == {{}, {1}, {1, 2}}
MCRequests == {[where |-> [state |-> "active"], sort |-> "price_desc", page |-> 1],
               [where |-> [catalog |-> 1, brand |-> 0], sort |-> "first_seen_desc", page |-> 2]}
MCContexts == <<[fields |-> {"catalog", "brand", "condition"}, support |-> 2],
                [fields |-> {"catalog", "condition"}, support |-> 2],
                [fields |-> {"root"}, support |-> 1]>>

\* A new database, one whose first cycle runs, and one that was paused before it had any.
MCCrews == {{"deep"}, {"frontier", "deep"}}
MCPhases == <<"starting", "discovery">>
MCPasts == {[cycles |-> <<>>, controller |-> NewRow],
            [cycles |-> <<[lane |-> "frontier", status |-> "running", phase |-> "discovery"]>>,
             controller |-> NewRow],
            [cycles |-> <<>>, controller |-> [NewRow EXCEPT !.status = "paused", !.phase = "paused"]]}

\* The first run scans catalog 2, the second both; listing 2 may be in both catalogs.  SQLite
\* is empty, or has a run and a cycle from before there was a PostgreSQL.
MCRoutes == <<{2}, {1, 2}>>
MCShows == <<{{1, 2}}, {{}, {2}}>>
OldRun == CompleteRun(RecordScan(Taken(StartRun(EmptyStore, 1), 1, 2, 1, 3, 2), 1, 2, 1, 3, TRUE), 1,
                      "completed", [scanned |-> 1, ok |-> 1, failed |-> 0, unique |-> 1])
MCLedgers == {NoLedger,
  [store |-> OldRun, begun |-> <<1, 0>>, synced |-> <<2, 2>>, cycles |-> {9}]}
=============================================================================
