-------------------------- MODULE GitHubCollection --------------------------
(***************************************************************************)
(* src/generator/github: "gh collect" fetches one bundle per login through *)
(* a client with a disk cache, retries and rate limits, and keeps a bundle *)
(* only when every part of it was answered.  The run may stop at a limit,  *)
(* fail for one login, or die; it is then started again.  Another command  *)
(* (gh sample) revalidates the cached user records meanwhile.              *)
(***************************************************************************)
EXTENDS Integers, SequencesExt

CONSTANTS Logins,     \* people to collect
          Worlds,     \* what GitHub may hold: login -> answers for its parts, its repository
          MaxTries,   \* client.get: requests for one URL (6 in the code)
          MaxStarts,  \* bound: times "gh collect" is started
          Offline     \* the --offline flag

\* The URLs of a bundle in the order they are asked for (one mined repository).
\* "unfiltered" is the commit list without the author filter.
Parts == <<"user", "repos", "languages", "tree", "commits", "contributors", "unfiltered",
           "releases", "contents", "events">>
NoEntry == "none"
Half == "half written"

VARIABLES account,    \* login -> its account on GitHub
          cache,      \* login -> part -> cached answer, NoEntry or Half
          bundle,     \* login -> saved bundle, or <<>>
          collecting, \* idle, fetching
          todo,       \* logins of this run still to fetch; the head is the current one
          got,        \* parts of the current bundle, in memory
          tries,      \* requests made for the current URL
          starts,     \* times the command was started
          touching    \* login whose user record another command rewrites, or NoEntry

collectionVars == <<account, cache, bundle, collecting, todo, got, tries, starts, touching>>

\* The account of a person: an answer to every URL, and the repository
Accounts == [answers : [Range(Parts) -> {"value", "empty", "missing", "refused"}],
             repository : [few : BOOLEAN, others : BOOLEAN, unlinked : Nat, imported : BOOLEAN]]
ASSUME CollectionAssumption == IsFiniteSet(Logins) /\ Worlds \subseteq [Logins -> Accounts]

CollectionInit ==
    /\ account \in Worlds
    /\ cache \in [Logins -> {[p \in Range(Parts) |-> NoEntry],
                             [p \in Range(Parts) |-> IF p = "user" THEN "value" ELSE NoEntry]}]
    /\ bundle = [l \in Logins |-> <<>>]
    /\ collecting = "idle" /\ todo = <<>> /\ got = <<>> /\ tries = 0 /\ starts = 0
    /\ touching = NoEntry

\* cmd_collect: who has no bundle yet
Start == /\ collecting = "idle" /\ starts < MaxStarts
         /\ starts' = starts + 1
         /\ todo' \in SetToSeqs({l \in Logins : bundle[l] = <<>>})
         /\ todo' # <<>>
         /\ collecting' = "fetching" /\ got' = <<>> /\ tries' = 0
         /\ UNCHANGED <<account, cache, bundle, touching>>

Current == Head(todo)
repository == account[Current].repository

\* Fault: other linked accounts are not looked at.
MaySearchUnlinked_Teams ==
    /\ repository.few \/ got["commits"] # "value"
    /\ got["contributors"] = "value" => repository.unlinked <= 1

\* Unlinked commits are only looked at when nobody else can have made them: few
\* of the author's own, no other linked account, at most one unlinked identity.
\* Commits or contributors that were not served count as none.
MaySearchUnlinked ==
    /\ repository.few \/ got["commits"] # "value"
    /\ got["contributors"] = "value" => ~ repository.others /\ repository.unlinked <= 1

\* The part to fetch next: the first that is neither fetched nor skipped
NextPart ==
    LET left == {i \in DOMAIN Parts : Parts[i] \notin DOMAIN got}
    IN  IF left = {} THEN "done" ELSE Parts[CHOOSE i \in left : \A j \in left : i <= j]

\* Without a repository its parts are not asked for.
Skipped == \/ NextPart \notin {"user", "repos", "events", "done"} /\ got["repos"] # "value"
           \/ NextPart = "unfiltered" /\ ~ MaySearchUnlinked

\* The part is fetched, or passed over.
With(value) == [p \in DOMAIN got \cup {NextPart} |-> IF p = NextPart THEN value ELSE got[p]]

Skip == /\ collecting = "fetching" /\ Skipped
        /\ got' = With("skipped")
        /\ UNCHANGED <<account, cache, bundle, collecting, todo, tries, starts, touching>>

Fetching == collecting = "fetching" /\ NextPart # "done" /\ ~ Skipped
Cached == cache[Current][NextPart]

\* The next login of the run, if there is one (cmd_collect's loop)
NextLogin == /\ todo' = Tail(todo) /\ got' = <<>> /\ tries' = 0
             /\ collecting' = IF todo' = <<>> THEN "idle" ELSE collecting

\* What the collector makes of an answer: a missing user fails the login, any
\* other missing or refused part is kept as an empty one.
Received(answer) ==
    IF NextPart = "user" /\ answer \in {"missing", "refused"} THEN NextLogin
    ELSE /\ got' = With(IF answer = "value" THEN "value" ELSE "absent")
         /\ tries' = 0
         /\ UNCHANGED <<collecting, todo>>

\* client.get: a readable cache entry answers, also one that says 404; offline,
\* a URL that is not cached does not exist.
Cache == /\ Fetching
         /\ \/ Cached \notin {NoEntry, Half} /\ Received(Cached)
            \/ Cached \in {NoEntry, Half} /\ Offline /\ Received("missing")
         /\ UNCHANGED <<account, cache, bundle, starts, touching>>

Asking == Fetching /\ ~ Offline /\ Cached \in {NoEntry, Half} /\ tries < MaxTries

\* 200, 204 and 409, and 404 are cached before they are returned or raised;
\* 451, 422 and a refusing 403 are raised.
Answered == /\ Asking
            /\ LET answer == account[Current].answers[NextPart]
               IN /\ cache' = IF answer = "refused" THEN cache
                              ELSE [cache EXCEPT ![Current][NextPart] = answer]
                  /\ Received(answer)
            /\ UNCHANGED <<account, bundle, starts, touching>>

\* 5xx, or a limit that is waited for: the next attempt
Again == /\ Asking
         /\ tries' = tries + 1
         /\ UNCHANGED <<account, cache, bundle, collecting, todo, got, starts, touching>>

\* Fault: any error counts as an absent part.
NoResponse_Absent == /\ Asking /\ Received("missing")
                     /\ UNCHANGED <<account, cache, bundle, starts, touching>>

\* No response at all, or an unexpected status: the login fails, the run goes on.
NoResponse == /\ Asking /\ NextLogin
              /\ UNCHANGED <<account, cache, bundle, starts, touching>>

\* RateLimited (the limit resets too late, or every attempt was used) ends the
\* run, and so does the death of the process: what is in memory is lost.
Stop == /\ collecting = "fetching"
        /\ collecting' = "idle" /\ todo' = <<>> /\ got' = <<>> /\ tries' = 0
        /\ UNCHANGED <<account, cache, bundle, starts, touching>>

\* _history_imported looks at the commits that would be credited.
Attribution ==
    IF got["unfiltered"] # "value" \/ repository.unlinked = 0 THEN "author"
    ELSE IF repository.imported THEN "refused_imported_history" ELSE "sole_author"

\* collect_user: the bundle is complete and written atomically.
SaveBundle ==
    /\ collecting = "fetching" /\ NextPart = "done"
    /\ bundle' = [bundle EXCEPT ![Current] = [parts |-> got, attribution |-> Attribution]]
    /\ NextLogin
    /\ UNCHANGED <<account, cache, starts, touching>>

\* gh sample: a 304 for a user record rewrites the entry in place (touch); it may
\* die half way, and a new entry may have replaced the file by then.
Touch(l) == \/ /\ touching = NoEntry /\ cache[l]["user"] = "value"
               /\ touching' = l
               /\ cache' = [cache EXCEPT ![l]["user"] = Half]
               /\ UNCHANGED <<account, bundle, collecting, todo, got, tries, starts>>
            \/ /\ touching = l
               /\ touching' = NoEntry
               /\ cache' \in {cache, [cache EXCEPT ![l]["user"] = IF @ = Half THEN "value" ELSE @]}
               /\ UNCHANGED <<account, bundle, collecting, todo, got, tries, starts>>

CollectionNext == \/ Start \/ Skip \/ Cache \/ Answered \/ Again \/ NoResponse \/ Stop \/ SaveBundle
                  \/ \E l \in Logins : Touch(l)

CollectionSpec == CollectionInit /\ [][CollectionNext]_collectionVars

-----------------------------------------------------------------------------
\* "Anything transient ... propagates, so the user is marked failed and retried,
\* rather than saved as if their repo were empty" (collect_repo): whatever a
\* saved bundle holds as empty GitHub does not have, or refuses to serve.
BundleIsComplete ==
    \A l \in Logins : bundle[l] # <<>> =>
        \A p \in Range(Parts) : bundle[l].parts[p] = "absent" => account[l].answers[p] # "value"

\* Unlinked commits are credited to the owner of a repository only if nobody
\* else can have made them, whatever was cached, failed or retried - as long as
\* GitHub serves the list of contributors (collect_repo).
CreditIsSafe ==
    \A l \in Logins :
        (bundle[l] # <<>> /\ bundle[l].attribution = "sole_author"
                          /\ account[l].answers["contributors"] = "value") =>
            /\ ~ account[l].repository.others /\ account[l].repository.unlinked <= 1
            /\ ~ account[l].repository.imported

\* "Credit unlinked commits only when it is safe: ... no other linked account
\* contributed" (collector.py:152-155): a refused list counts as no contributors.
CreditOnlyWhenSafe ==
    \A l \in Logins : (bundle[l] # <<>> /\ bundle[l].attribution = "sole_author")
                      => ~ account[l].repository.others
=============================================================================
