------------------------------ MODULE Listings ------------------------------
(***************************************************************************)
(* The two lists a user pages through with "Load more": the tags of a      *)
(* repository, which handleRepository and handleTagRows page by the        *)
(* registry's own cursor (handlers.go; client.Tags), and the catalog,      *)
(* which buildCatalog pages by an offset into the list of the catalog      *)
(* index (handlers.go, catalog.go).                                        *)
(*                                                                         *)
(* Names are numbers in the order in which the registry lists them; the    *)
(* display order of tags is the constant Shown.  0 is the empty cursor, or *)
(* no button.  The response cache and the catalog index are here what      *)
(* their own modules show them to be: they answer what was once fetched or *)
(* fetch it now, and forget at any time.  A tag page that fails to load    *)
(* leaves the list as it is: htmx does not swap an error in.               *)
(***************************************************************************)
EXTENDS Integers, FiniteSets, FiniteSetsExt, SequencesExt

CONSTANTS
    LastRepo, LastTag,   \* how many names there are
    Shown,               \* sortTags: the place of a tag in the display order
    Queries,             \* the repositories that a filter's terms match
    CatalogPageSize, TagPageSize, TagCountLimit,
    DefaultPageSize, MaxCatalogPageSize,
    Starts,              \* cursors that a user opens a repository with
    None

Repos == 1 .. LastRepo
Tags == 1 .. LastTag
Cursors == 0 .. LastTag

ASSUME SizesAssumption ==
    /\ {LastRepo, LastTag, TagPageSize, TagCountLimit} \subseteq Nat
    /\ {CatalogPageSize, DefaultPageSize, MaxCatalogPageSize} \subseteq Nat \ {0}
ASSUME NamesAssumption == /\ Shown \in [Tags -> Int]
                          /\ IsInjective(Shown)
                          /\ Queries \subseteq SUBSET Repos
                          /\ Starts \subseteq Cursors

VARIABLES
    repos, tags,   \* what the registry holds, of one repository
    style,         \* how it pages: with links, by n alone, or not at all
    index,         \* the cached list of repositories
    pages,         \* the cached tag pages, by size and cursor
    view,          \* what the browser shows
    changes        \* how often the registry has changed

vars == <<repos, tags, style, index, pages, view, changes>>

Styles == {"linking", "counting", "whole"}

\* clampPageSize.
Clamp(n) == IF n <= 0 THEN DefaultPageSize ELSE Min({n, MaxCatalogPageSize})

PageKeys == {Clamp(TagPageSize), Clamp(TagCountLimit)} \X Cursors

\* A page, its cursor, and of the repository since it was fetched: which tags
\* have been there all the time, and how many there were.
Page == [tags : SUBSET Tags, next : Cursors, steady : SUBSET Tags, total : 0 .. LastTag]

ASSUME NoneAssumption == None \notin Page /\ \A S \in SUBSET Repos : None # S

Blank == [list |-> "none", rows |-> <<>>, more |-> 0, start |-> 0, steady |-> {},
          query |-> {}, matched |-> {}, moved |-> FALSE]

TypeOK == /\ repos \subseteq Repos
          /\ tags \subseteq Tags
          /\ style \in Styles
          /\ index \in (SUBSET Repos) \cup {None}
          /\ pages \in [PageKeys -> Page \cup {None}]
          /\ view \in [list : {"none", "tags", "catalog"}, rows : Seq(Nat), more : Nat,
                       start : Cursors, steady : SUBSET Tags, query : SUBSET Repos,
                       matched : SUBSET Repos, moved : BOOLEAN]
          /\ view.rows \in Seq(IF view.list = "tags" THEN Tags ELSE Repos)
          /\ view.more \in (IF view.list = "tags" THEN Cursors ELSE 0 .. LastRepo)
          /\ changes \in Nat

Init == /\ repos \in SUBSET Repos
        /\ tags \in SUBSET Tags
        /\ style \in Styles
        /\ index = None
        /\ pages = [k \in PageKeys |-> None]
        /\ view = Blank
        /\ changes = 0

-----------------------------------------------------------------------------
(* The registry.                                                           *)

\* A set of names as a list, in the order of their keys.
Sorted(S, key) == CHOOSE s \in [1 .. Cardinality(S) -> S] :
                      \A i, j \in 1 .. Cardinality(S) : i < j => key[s[i]] < key[s[j]]

\* The registry's own order.
ByName == [r \in Repos |-> r]

First(S, n) == {t \in S : Cardinality({u \in S : u <= t}) <= n}

\* What it may answer when asked for n tags after cursor c: the tags, and the
\* cursor in the Link header.  A registry that sends links sizes its pages itself.
Responses(n, c) ==
    LET rest == {t \in tags : t > c}
        linked(S) == [tags |-> S, link |-> IF S = rest THEN 0 ELSE Max(S)]
    IN  CASE style = "linking"  -> {linked(First(rest, m)) : m \in 1 .. n}
          [] style = "counting" -> {[tags |-> First(rest, n), link |-> 0]}
          [] style = "whole"    -> {[tags |-> tags, link |-> 0]}

Without(p, t) == IF p = None THEN None ELSE [p EXCEPT !.steady = @ \ {t}]

\* A tag is pushed or deleted by somebody else.
TagChanges(t) == /\ tags' = SymDiff(tags, {t})
                 /\ pages' = [k \in PageKeys |-> Without(pages[k], t)]
                 /\ view' = [view EXCEPT !.steady = @ \ {t}]
                 /\ changes' = changes + 1
                 /\ UNCHANGED <<repos, style, index>>

RepoChanges(r) == /\ repos' = SymDiff(repos, {r})
                  /\ changes' = changes + 1
                  /\ UNCHANGED <<tags, style, index, pages, view>>

-----------------------------------------------------------------------------
(* The client: one page of tags.                                           *)

\* Mutant: the cursor is taken after the page was put into display order.
LastDisplayed(S) == CHOOSE t \in S : \A u \in S : Shown[u] <= Shown[t]

\* lastOf, before the page is put into display order.
LastOf(S) == Max(S)

\* Mutant: the Link header is not looked at.
CountedCursor(r, n) == IF Cardinality(r.tags) = n THEN Max(r.tags) ELSE 0

\* Mutant: without a Link header there is no next page.
LinkedCursor(r, n) == r.link

\* nextCursor: the Link header's, or the last tag of a page that is full.
NextCursor(r, n) == IF r.link # 0 THEN r.link
                    ELSE IF Cardinality(r.tags) = n /\ r.tags # {} THEN LastOf(r.tags)
                    ELSE 0

\* A page of n tags as it may be fetched now.
Fetched(n, c) == {[tags |-> r.tags, next |-> NextCursor(r, n), steady |-> tags,
                   total |-> Cardinality(tags)] : r \in Responses(n, c)}

\* What client.Tags may answer: the cached page, or one it fetches ...
Answers(n, c) == LET k == <<Clamp(n), c>>
                 IN  IF pages[k] # None THEN {pages[k]} ELSE Fetched(Clamp(n), c)

\* ... and stores.
Stored(n, c, p) == pages' = [pages EXCEPT ![<<Clamp(n), c>>] = p]

\* The page expires, is evicted, or a deletion invalidates it.
Forget(k) == /\ pages[k] # None
             /\ pages' = [pages EXCEPT ![k] = None]
             /\ UNCHANGED <<repos, tags, style, index, view, changes>>

-----------------------------------------------------------------------------
(* The handlers of the tag list.                                           *)

\* sortTags.
InDisplayOrder(S) == Sorted(S, Shown)

OpenRepository(c) ==
    /\ \E p \in Answers(TagPageSize, c) :
          /\ Stored(TagPageSize, c, p)
          /\ view' = [Blank EXCEPT !.list = "tags", !.rows = InDisplayOrder(p.tags),
                                   !.more = p.next, !.start = c, !.steady = p.steady]
    /\ UNCHANGED <<repos, tags, style, index, changes>>

LoadMoreTags ==
    /\ view.list = "tags" /\ view.more # 0
    /\ \E p \in Answers(TagPageSize, view.more) :
          /\ Stored(TagPageSize, view.more, p)
          /\ view' = [view EXCEPT !.rows = @ \o InDisplayOrder(p.tags),
                                  !.more = p.next, !.steady = @ \cap p.steady]
    /\ UNCHANGED <<repos, tags, style, index, changes>>

\* The counter beside a row of the catalog fetches a page of its own.
CountTags == /\ \E p \in Answers(TagCountLimit, 0) : Stored(TagCountLimit, 0, p)
             /\ UNCHANGED <<repos, tags, style, index, view, changes>>

\* What the counter then says: so many, or so many and more.
Counter(p) == [count |-> Cardinality(p.tags), plus |-> p.next # 0]

-----------------------------------------------------------------------------
(* The handlers of the catalog.                                            *)

\* What catalog.List may answer: the cached list, or one walked now.
Lists == {repos} \cup ({index} \ {None})

\* Where a page that begins at offset o of list l ends.
End(l, o) == Min({o + CatalogPageSize, Cardinality(l)})

\* Mutant: the last repository is taken for none left.
MoreButOne(l, o) == IF End(l, o) + 1 < Cardinality(l) THEN End(l, o) ELSE 0

\* The offset in the button's URL, if there is a button.
More(l, o) == IF End(l, o) < Cardinality(l) THEN End(l, o) ELSE 0

\* buildCatalog: the rows of list l from offset o, cut to the list.
Rows(l, o) == SubSeq(Sorted(l, ByName), Min({o, Cardinality(l)}) + 1, End(l, o))

\* filterRepos: what every term of the query matches.
FilterRepos(l, q) == l \cap q

OpenCatalog(q) ==
    /\ \E l \in Lists :
          LET matched == FilterRepos(l, q)
          IN  /\ index' = l
              /\ view' = [Blank EXCEPT !.list = "catalog", !.rows = Rows(matched, 0),
                                       !.more = More(matched, 0), !.query = q,
                                       !.matched = matched]
    /\ UNCHANGED <<repos, tags, style, pages, changes>>

LoadMoreRepos ==
    /\ view.list = "catalog" /\ view.more # 0
    /\ \E l \in Lists :
          LET matched == FilterRepos(l, view.query)
          IN  /\ index' = l
              /\ view' = [view EXCEPT !.rows = @ \o Rows(matched, view.more),
                                      !.more = More(matched, view.more),
                                      !.moved = @ \/ matched # view.matched]
    /\ UNCHANGED <<repos, tags, style, pages, changes>>

\* A failed List answers no rows and no button, with status 200, so that they
\* take the button's place.
LoadMoreReposFails ==
    /\ view.list = "catalog" /\ view.more # 0
    /\ index = None
    /\ view' = [view EXCEPT !.more = 0, !.moved = TRUE]
    /\ UNCHANGED <<repos, tags, style, index, pages, changes>>

\* No list to page through: the page of an error.
OpenFails == /\ view' = Blank
             /\ UNCHANGED <<repos, tags, style, index, pages, changes>>

\* The catalog index is invalidated by a deletion.
ForgetIndex == /\ index' = None
               /\ UNCHANGED <<repos, tags, style, pages, view, changes>>

Next == \/ \E t \in Tags : TagChanges(t)
        \/ \E r \in Repos : RepoChanges(r)
        \/ \E k \in PageKeys : Forget(k)
        \/ ForgetIndex
        \/ \E c \in Starts : OpenRepository(c)
        \/ LoadMoreTags
        \/ CountTags
        \/ \E q \in Queries : OpenCatalog(q)
        \/ LoadMoreRepos
        \/ LoadMoreReposFails
        \/ OpenFails

Spec == Init /\ [][Next]_vars

-----------------------------------------------------------------------------
\* When the button has gone, every tag after the start that was in the registry
\* all the while is in the list: whether a page came from the cache or not, how
\* old it is, and how the registry pages (client.go:530-534, 958-998).
TagsComplete ==
    view.list = "tags" /\ view.more = 0 =>
        {t \in view.steady : t > view.start} \subseteq ToSet(view.rows)

\* No tag is listed twice, whatever is pushed or deleted between two pages, for
\* a cursor is the last tag in the registry's order (client.go:531-535).  Only a
\* registry that ignores n and last repeats its list, when it fills a page.
NoTagTwice == view.list = "tags" /\ style # "whole" => IsInjective(view.rows)

\* A counter without a plus has counted all tags there were (handlers.go:154-163).
CountExact == LET p == pages[<<Clamp(TagCountLimit), 0>>]
              IN  p # None /\ ~Counter(p).plus => Counter(p).count = p.total

\* Offsets neither skip nor repeat a repository as long as the filtered list
\* stays what it was (handlers.go:106-133).
CatalogComplete ==
    view.list = "catalog" /\ ~view.moved =>
        view.rows = LET all == Sorted(view.matched, ByName)
                    IN  SubSeq(all, 1, IF view.more = 0 THEN Len(all) ELSE view.more)
=============================================================================
