\* One client walks four posts, three of the same second, while they come and go.
SPECIFICATION FairSpec
CONSTANTS
    Posts <- MCPosts
    Published <- MCPublished
    TagOf <- MCTagOf
    TypeOf <- MCTypeOf
    Queries <- MCQueries
    MaxLimit = 2
    None = None
INVARIANTS WalkIsComplete TotalIsExact
PROPERTIES DescendingWithoutRepeats WalkEnds
