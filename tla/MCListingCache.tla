--------------------------- MODULE MCListingCache ---------------------------
(* Instances of ListingCache for TLC.  Readers are interchangeable, and so *)
(* are writers.                                                            *)
EXTENDS ListingCache, TLC

Symmetry == Permutations(Readers) \cup Permutations(Writers)

Word(w) == <<<<"word", w>>>>
NoText == Word("")

AllListings == [category |-> NoText, minPrice |-> NoPrice, maxPrice |-> NoPrice,
                limit |-> 20, offset |-> 0, query |-> NoText]

(* The feed and the search "0:bike"; prices from 9.99 and from 9.994.      *)
Search == [AllListings EXCEPT !.query = <<<<"number", 0>>, <<"word", "bike">>>>]
FromPrice == [AllListings EXCEPT !.minPrice = 9990]
FromOddPrice == [AllListings EXCEPT !.minPrice = 9994]

FeedAndSearch == {AllListings, Search}
PriceFilters == {FromPrice, FromOddPrice}
=============================================================================
