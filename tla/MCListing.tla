----------------------------- MODULE MCListing -----------------------------
(* An instance of Listing for model checking: four posts, three of them    *)
(* published in the same second, under one hashtag.                        *)
EXTENDS Listing

MCPosts == 1 .. 4
MCPublished == [p \in MCPosts |-> IF p = 3 THEN 2 ELSE 1]
MCTagOf == [p \in MCPosts |-> "matcha"]
MCTypeOf == [p \in MCPosts |-> IF p = 4 THEN "VIDEO" ELSE "IMAGE"]

AnyQuery == [tag |-> None, type |-> None, after |-> None, before |-> None,
             includeStale |-> TRUE]
MCQueries == {AnyQuery,
              [AnyQuery EXCEPT !.tag = "matcha", !.includeStale = FALSE],
              [AnyQuery EXCEPT !.type = "IMAGE", !.after = 1, !.before = 1]}
=============================================================================
