SPECIFICATION FairCheckoutSpec
CONSTANTS
    url1 = url1
    url2 = url2
    commit1 = commit1
    commit2 = commit2
    release = release
    Urls <- TwoUrls
    Commits <- TwoCommits
    Tags = {release}
    Tagged <- FirstReleased
    Recipes = {npm, uv}
    None = None
    Torn = Torn
CHECK_DEADLOCK FALSE
INVARIANTS
    NothingUnbuilt
PROPERTIES
    UndisturbedArrives
