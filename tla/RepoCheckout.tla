---------------------------- MODULE RepoCheckout ----------------------------
(***************************************************************************)
(* The checkout of a repository server (backend/app/runners/repo.py), run  *)
(* at the start of every activation (ServerUnit._run_checkout).  It is one *)
(* shell script: its commands are the steps below, it may end between or   *)
(* inside any two of them, and the next run works on what it left.  A      *)
(* remote's ref names a commit or an annotated tag of one.  What a killed  *)
(* command leaves half done is Torn; a git that is killed may also leave   *)
(* the lock file that makes the next one refuse to start.                  *)
(***************************************************************************)
EXTENDS FiniteSets

CONSTANTS
    Urls,               \* the addresses the server's row may name
    Commits, Tags,      \* what a ref may name: a commit, or a tag object
    Tagged,             \* the commit of each tag
    Recipes,            \* a post-clone script with the cache location it sees
    None, Torn

Objects == Commits \cup Tags
CommitOf(object) == IF object \in Tags THEN Tagged[object] ELSE object

Rows == [url : Urls, recipe : Recipes]
Builds == [commit : Commits, recipe : Recipes]
Stamps == [object : Objects, recipe : Recipes]

ASSUME CheckoutAssumptions ==
    /\ Tagged \in [Tags -> Commits] /\ Commits \cap Tags = {}
    /\ {None, Torn} \cap (Urls \cup Objects \cup Builds \cup Stamps) = {} /\ None # Torn

VARIABLES
    row,                    \* the server's row
    remote,                 \* what the row's ref names at each address
    origin, head, tree,     \* the checkout: its remote, HEAD and working files
    output,                 \* what post-clone scripts left in the cache and in
                            \* files that are never in git's way
    patched,                \* what they changed of the files git tracks
    stamp,                  \* the file beside the checkout
    locks,                  \* the commands whose lock files lie in .git
    half_erased,            \* history: an rm -rf was cut, no other has ended
    at,                     \* the script's next command
    job, sha                \* the row it was made for, the object it works on

world == <<row, remote>>
checkout == <<origin, head, tree>>
built == <<output, patched>>
leftovers == <<locks, half_erased>>
shell == <<at, job, sha>>
checkoutVars == <<world, checkout, built, stamp, leftovers, shell>>

Running == {"clone", "clone_stamp", "init", "fetch", "checkout", "compare", "build", "stamp"}

CheckoutTypeOK ==
    /\ row \in Rows /\ remote \in [Urls -> Objects]
    /\ origin \in Urls \cup {None} /\ head \in Commits \cup {None}
    /\ tree \in Commits \cup {None, Torn}
    /\ output \in Builds \cup {None, Torn} /\ patched \in Builds \cup {None, Torn}
    /\ locks \subseteq {"fetch", "checkout"} /\ half_erased \in BOOLEAN
    /\ stamp \in Stamps \cup {None}
    /\ at \in Running \cup {"down", "wipe", "ready"} /\ job \in Rows
    /\ sha \in Objects \cup {None}

CheckoutInit ==
    /\ row \in Rows /\ remote \in [Urls -> Objects]
    /\ origin = None /\ head = None /\ tree = None /\ output = None /\ patched = None
    /\ stamp = None /\ locks = {} /\ half_erased = FALSE
    /\ at = "down" /\ job = row /\ sha = None

Want == [object |-> sha, recipe |-> job.recipe]
Product(s) == [commit |-> CommitOf(s.object), recipe |-> s.recipe]

-----------------------------------------------------------------------------
(* The script.                                                             *)

\* Mutant: a checkout of another address will do.
HasAnyCheckout(url) == origin # None

HasCheckout(url) == origin = url

\* The shell is gone, and what it had in its variables.
Down == at' = "down" /\ sha' = None

Starts ==
    /\ at = "down" /\ job' = row /\ sha' = None
    /\ at' = IF HasCheckout(row.url) THEN "fetch" ELSE "clone"
    /\ UNCHANGED <<world, checkout, built, stamp, leftovers>>

\* rm -rf: the directory in any order, the stamp after it.
Erases ==
    /\ at = "clone"
    /\ \/ /\ origin' \in {origin, None} /\ tree' = Torn /\ output' = Torn /\ patched' = Torn
          /\ half_erased' = TRUE /\ UNCHANGED <<head, locks, at>>
       \/ /\ origin' = None /\ head' = None /\ tree' = None /\ output' = None /\ patched' = None
          /\ locks' = {} /\ half_erased' = FALSE /\ at' = "clone_stamp"
    /\ UNCHANGED <<world, stamp, job, sha>>

ErasesStamp ==
    /\ at = "clone_stamp" /\ stamp' = None /\ at' = "init"
    /\ UNCHANGED <<world, checkout, built, leftovers, job, sha>>

Initialises ==
    /\ at = "init" /\ origin' = job.url /\ at' = "fetch"
    /\ UNCHANGED <<world, head, tree, built, stamp, leftovers, job, sha>>

Fetches ==
    /\ at = "fetch" /\ "fetch" \notin locks
    /\ sha' = remote[origin] /\ at' = "checkout"
    /\ UNCHANGED <<world, checkout, built, stamp, leftovers, job>>

\* What is checked out is started, if anything is.
FallsBack == sha' = head /\ at' = IF head = None THEN "down" ELSE "checkout"

\* An outage.
FetchFails ==
    /\ at = "fetch" /\ FallsBack
    /\ UNCHANGED <<world, checkout, built, stamp, leftovers, job>>

\* git checkout --force writes the files git tracks, then moves HEAD; to the
\* script HEAD is never at a tag.
ChecksOut ==
    /\ at = "checkout"
    /\ \/ head = sha /\ at' = "compare" /\ UNCHANGED <<head, tree, patched>>
       \/ /\ head # sha /\ "checkout" \notin locks
          /\ \/ /\ head' = CommitOf(sha) /\ tree' = CommitOf(sha) /\ patched' = None
                /\ at' = "compare"
             \/ tree' = Torn /\ patched' = Torn /\ UNCHANGED <<head, at>>
    /\ UNCHANGED <<world, origin, output, stamp, leftovers, job, sha>>

\* A git that finds its lock file, or half a directory, ends with an error:
\* that of a fetch looks like an outage, that of a checkout ends the script.
GitRefuses ==
    /\ at \in locks \/ half_erased
    /\ \/ at = "fetch" /\ FallsBack
       \/ at = "checkout" /\ head # sha /\ Down
    /\ UNCHANGED <<world, checkout, built, stamp, leftovers, job>>

AlreadyBuilt ==
    /\ at = "compare" /\ stamp = Want /\ at' = "ready"
    /\ UNCHANGED <<world, checkout, built, stamp, leftovers, job, sha>>

\* Mutant: the stamp stays until the new one is written over it.
RebuildsUnderStamp ==
    /\ at = "compare" /\ stamp # Want /\ at' = "build"
    /\ UNCHANGED <<world, checkout, built, stamp, leftovers, job, sha>>

Rebuilds ==
    /\ at = "compare" /\ stamp # Want /\ stamp' = None /\ at' = "build"
    /\ UNCHANGED <<world, checkout, built, leftovers, job, sha>>

RunsPostClone ==
    /\ at = "build"
    /\ \/ output' = Torn /\ patched' = Torn /\ UNCHANGED at
       \/ output' = Product(Want) /\ patched' = Product(Want) /\ at' = "stamp"
    /\ UNCHANGED <<world, checkout, stamp, leftovers, job, sha>>

WritesStamp ==
    /\ at = "stamp" /\ stamp' = Want /\ at' = "ready"
    /\ UNCHANGED <<world, checkout, built, leftovers, job, sha>>

\* A command fails, the deadline passes, or the unit is stopped: sh -e and the
\* whole process group end, a git perhaps before it could remove its lock file.
\* A server that was ready goes down.
Ends ==
    /\ at \in Running \cup {"ready"} /\ Down
    /\ locks' \in {locks, locks \cup ({at} \cap {"fetch", "checkout"})}
    /\ UNCHANGED <<world, checkout, built, stamp, half_erased, job>>

-----------------------------------------------------------------------------
(* Around the script.                                                      *)

\* The unit runs what its row was; the reconciler replaces it.
Replaced ==
    /\ at = "ready" /\ job # row /\ Down
    /\ UNCHANGED <<world, checkout, built, stamp, leftovers, job>>

Edited ==
    /\ row' \in Rows
    /\ UNCHANGED <<remote, checkout, built, stamp, leftovers, shell>>

\* A branch moves, or the operator names another ref.
RefMoves ==
    /\ \E url \in Urls, object \in Objects : remote' = [remote EXCEPT ![url] = object]
    /\ UNCHANGED <<row, checkout, built, stamp, leftovers, shell>>

\* Mutant: only the cache is thought of.
KeepsStamp ==
    /\ at = "down" /\ at' = "wipe"
    /\ UNCHANGED <<world, checkout, built, stamp, leftovers, job, sha>>

\* clear_server_cache works on a server that is down, and keeps it down.
DropsStamp ==
    /\ at = "down" /\ at' = "wipe" /\ stamp' = None
    /\ UNCHANGED <<world, checkout, built, leftovers, job, sha>>

\* The cache goes, wholly or, if removing it raised, in part; or the process
\* dies first.
WipesCache ==
    /\ at = "wipe" /\ at' = "down"
    /\ output' \in {output, IF output = None THEN None ELSE Torn}
    /\ UNCHANGED <<world, checkout, patched, stamp, leftovers, job, sha>>

Working ==
    \/ Erases \/ ErasesStamp \/ Initialises \/ Fetches \/ ChecksOut \/ GitRefuses
    \/ AlreadyBuilt \/ Rebuilds \/ RunsPostClone \/ WritesStamp \/ Replaced \/ WipesCache

Disturbed == Ends \/ FetchFails \/ Edited \/ RefMoves \/ DropsStamp

CheckoutNext == Starts \/ Working \/ Disturbed

CheckoutSpec == CheckoutInit /\ [][CheckoutNext]_checkoutVars

\* The shell and the reconciler go on; whether a server that is down is
\* activated again is up to its retry budget and its operator.
FairCheckoutSpec == CheckoutSpec /\ WF_checkoutVars(Working)

-----------------------------------------------------------------------------
\* The stamp tells the truth of what git has no hand in: the scripts it names ran
\* to their end for its commit and nothing has touched what they left, whichever
\* command every run since was killed in (checkout_script, _wipe).  It does not
\* vouch for what they changed of the files git tracks: the next checkout --force
\* reverts that, at an annotated tag every start's, under a stamp that still
\* matches; but no other build's changes are left there either.  Nor does it for
\* a directory whose rm -rf was cut: the stamp goes last, and an edit back to the
\* old address finds both.
StampIsTrue ==
    origin # None /\ stamp # None =>
        /\ output = Product(stamp) \/ half_erased
        /\ patched \in {Product(stamp), None, Torn}

\* Nothing is launched that was not built for its commit, script and cache by a
\* run that ended, nor from another address, nor at another commit than the run
\* settled on.  The files may be torn, by a checkout that was killed and an
\* outage after it; of a half erased directory only address and commit are known.
ReadyIsBuilt ==
    at = "ready" =>
        /\ output = Product(Want) \/ half_erased
        /\ patched \in {Product(Want), None, Torn}
        /\ origin = job.url /\ head = CommitOf(sha) /\ tree \in {head, Torn}

\* What the stamp vouches for is there, and nothing else is launched.
NothingUnbuilt == CheckoutTypeOK /\ StampIsTrue /\ ReadyIsBuilt

\* No script ever removes a lock file or mends a half erased directory of the
\* address it wants: with one of them such a run may be refused every time.
Stuck ==
    /\ origin = row.url
    /\ \/ half_erased
       \/ "fetch" \in locks /\ head = None
       \/ "fetch" \notin locks /\ "checkout" \in locks /\ head # remote[origin]

\* Whatever earlier runs left behind but a lock file in the way or half a
\* directory, a run that nothing disturbs ends with the row's repository ready;
\* those two are for ever, until the address changes or the server is deleted.
UndisturbedArrives ==
    <>[][~Disturbed]_checkoutVars =>
        \/ <>[](at = "down") \/ <>[]Stuck
        \/ <>[](at = "ready" /\ job = row /\ origin = row.url)
=============================================================================
