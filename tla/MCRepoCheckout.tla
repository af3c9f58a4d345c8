--------------------------- MODULE MCRepoCheckout ---------------------------
(***************************************************************************)
(* Small instances of RepoCheckout for TLC.                                *)
(***************************************************************************)
EXTENDS RepoCheckout

CONSTANTS url1, url2, commit1, commit2, release

OneUrl == {url1}
TwoUrls == {url1, url2}
TwoCommits == {commit1, commit2}
FirstReleased == [tag \in {release} |-> commit1]
=============================================================================
