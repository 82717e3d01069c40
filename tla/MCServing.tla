------------------------------ MODULE MCServing ------------------------------
EXTENDS Serving

MCListings == {1, 2}
MCCatalogs == {1, 2}
MCCompleteness == <<3, 5>>

\* The second listing has no brand; both catalogs have one root.
MCCards == <<[brand |-> 1, condition |-> 1, price |-> 1500],
             [brand |-> 0, condition |-> 1, price |-> 2500]>>
MCRoots == <<1, 1>>
MCShelves == {{}, {1}, {1, 2}}
MCRequests == {[where |-> [state |-> "active"], sort |-> "price_desc", page |-> 1],
               [where |-> [catalog |-> 1, brand |-> 0], sort |-> "first_seen_desc", page |-> 2]}
MCContexts == <<[fields |-> {"catalog", "brand", "condition"}, support |-> 2],
                [fields |-> {"catalog", "condition"}, support |-> 2],
                [fields |-> {"root"}, support |-> 1]>>
=============================================================================
