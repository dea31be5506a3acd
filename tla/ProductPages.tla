---------------------------- MODULE ProductPages ----------------------------
(***************************************************************************)
(* What a customer reads of a product: the page the catalog caches         *)
(* (apps/catalog/cache.py) and the rating printed on it (apps/support).    *)
(*                                                                         *)
(* A page is stored under the catalog version; saving a product or a       *)
(* variant sends a signal that bumps the version, so that every older page *)
(* is orphaned.  The signal is sent by save(), which inside a transaction  *)
(* is before the commit.  Redis may lose the counter; whoever misses it    *)
(* sets it to 1, in a second command.  The rating totals of the product    *)
(* are recomputed from all its ratings after each one.                     *)
(***************************************************************************)
EXTENDS Integers, Sequences, FiniteSets, Sums

CONSTANTS
    Browsers,    \* web workers
    Raters,      \* customers who rate the product, without naming an order
    Stars,       \* ratings in use
    FullStock,   \* stock after an ops edit, and at first
    MaxWrites    \* bound on ratings, sales and edits together

ASSUME PagesAssumption ==
    /\ IsFiniteSet(Browsers) /\ IsFiniteSet(Raters)
    /\ Stars \subseteq Int /\ FullStock \in Nat /\ MaxWrites \in Nat

VARIABLES
    ratings,     \* product_ratings: the rows of each customer, a row its stars
    shelf,       \* the product and its variant: rating_sum, rating_count, stock
    version,     \* catalog:version in Redis, 0 when the key is absent
    pages,       \* the page stored under each version
    visit,       \* what each worker has read and where it stands
    writes,      \* ratings, sales and edits so far
    tainted,     \* versions whose page may predate the write they stand for
    lagged,      \* the totals are not those of the ratings, by one of the ways below
    doubled,     \* customers given a rating beside the first, in one of these ways
    owed         \* a write is visible whose bump was lost with its worker

shelfVars == <<ratings, shelf, version, pages>>
pageVars == <<shelfVars, visit, writes, tainted, lagged, doubled, owed>>

NoPage == [sum |-> -1, count |-> -1, stock |-> -1]
NoVisit == [pc |-> "idle", who |-> "", stars |-> 0, copy |-> NoPage, at |-> 0, late |-> FALSE]

PagesInit ==
    /\ ratings = [u \in Raters |-> <<>>]
    /\ shelf = [sum |-> 0, count |-> 0, stock |-> FullStock]
    /\ version = 0
    /\ pages = [v \in 1..MaxWrites + 1 |-> NoPage]
    /\ visit = [b \in Browsers |-> NoVisit]
    /\ writes = 0
    /\ tainted = {} /\ lagged = FALSE /\ doubled = {} /\ owed = FALSE

Goes(b, pc) == visit' = [visit EXCEPT ![b] = IF pc = "idle" THEN NoVisit ELSE [@ EXCEPT !.pc = pc]]
Standing(pcs) == {b \in Browsers : visit[b].pc \in pcs}

\* What is in hand at one of these steps has been overtaken.
Overtaken(pcs) == [b \in Browsers |-> [visit[b] EXCEPT !.late = @ \/ visit[b].pc \in pcs]]

\* A page in hand, and a block that has saved the variant and holds its row.
InHand == {"fill", "again", "store"}
Selling == {"sell", "rebase", "commit"}

Stored == {v \in DOMAIN pages : pages[v] # NoPage}

\* A faulty build whose signal never moves the counter.
SameVersion == version

\* bump_version's incr.
Bumped == version + 1

\* The SUM and the COUNT of the product's ratings.
RatingSum == SumOf([u \in Raters |-> SumOf(ratings[u])])
RatingCount == SumOf([u \in Raters |-> Len(ratings[u])])

-----------------------------------------------------------------------------
(* The counter: get_version and bump_version.                              *)

\* The signal of a write. In autocommit ("bump") the row is visible by then;
\* in a block ("sell") it is not. Without a counter incr raises.
Bump(b) ==
    /\ visit[b].pc \in {"bump", "sell"}
    /\ IF version = 0
         THEN Goes(b, IF visit[b].pc = "bump" THEN "reset" ELSE "rebase") /\ UNCHANGED <<version, owed>>
         ELSE /\ version' = Bumped /\ owed' = FALSE
              /\ Goes(b, IF visit[b].pc = "bump" THEN "idle" ELSE "commit")
    /\ UNCHANGED <<ratings, shelf, pages, writes, tainted, lagged, doubled>>

\* Whoever missed the counter sets it to 1: a reader ("first", "again") or a
\* signal ("reset", "rebase"). By now there may be one again: then this moves
\* it back to pages stored before, and a signal moves it no further.
SetToOne(b) ==
    /\ visit[b].pc \in {"first", "again", "reset", "rebase"}
    /\ version' = 1
    /\ tainted' = IF version = 0 THEN tainted ELSE tainted \cup Stored
    /\ owed' = (owed /\ visit[b].pc \in {"first", "again"})
    /\ LET seen == IF version = 0 THEN visit ELSE Overtaken(InHand) IN
       visit' = [seen EXCEPT ![b] =
          CASE visit[b].pc = "first"  -> IF pages[1] = NoPage THEN [@ EXCEPT !.pc = "query"] ELSE NoVisit
            [] visit[b].pc = "again"  -> [@ EXCEPT !.pc = "store", !.at = 1]
            [] visit[b].pc = "reset"  -> NoVisit
            [] visit[b].pc = "rebase" -> [@ EXCEPT !.pc = "commit"]]
    /\ UNCHANGED <<ratings, shelf, pages, writes, lagged, doubled>>

\* Redis loses the counter: versions start again while old pages live on.
DropVersion ==
    /\ version # 0
    /\ version' = 0
    /\ tainted' = tainted \cup Stored
    /\ visit' = Overtaken(InHand)
    /\ UNCHANGED <<ratings, shelf, pages, writes, lagged, doubled, owed>>

-----------------------------------------------------------------------------
(* Rating a product: product_rating, record_product_rating.                *)

\* update_or_create: one row is updated; none is created by the next step;
\* more than one raises, and the rating is refused from then on.
Rate(b, u, s) ==
    /\ visit[b] = NoVisit /\ writes < MaxWrites /\ Len(ratings[u]) < 2
    /\ writes' = writes + 1
    /\ LET mine == [NoVisit EXCEPT !.who = u, !.stars = s] IN
       IF ratings[u] = <<>>
         THEN visit' = [visit EXCEPT ![b] = [mine EXCEPT !.pc = "insert"]] /\ UNCHANGED ratings
         ELSE /\ visit' = [Overtaken({"save"}) EXCEPT ![b] = [mine EXCEPT !.pc = "aggregate"]]
              /\ ratings' = [ratings EXCEPT ![u] = <<s>>]
    /\ UNCHANGED <<shelf, version, pages, tainted, lagged, doubled, owed>>

\* The unique key (user, product, order) does not bind rows whose order is NULL.
InsertRating(b) ==
    LET u == visit[b].who IN
    /\ visit[b].pc = "insert"
    /\ ratings' = [ratings EXCEPT ![u] = Append(@, visit[b].stars)]
    /\ doubled' = IF \E x \in Standing({"insert"}) \ {b} : visit[x].who = u
                    THEN doubled \cup {u} ELSE doubled
    /\ visit' = [Overtaken({"save"}) EXCEPT ![b] = [@ EXCEPT !.pc = "aggregate"]]
    /\ UNCHANGED <<shelf, version, pages, writes, tainted, lagged, owed>>

\* recalculate_product_rating: the SUM and COUNT query ...
Aggregate(b) ==
    /\ visit[b].pc = "aggregate"
    /\ visit' = [visit EXCEPT ![b] = [@ EXCEPT !.pc = "save", !.late = FALSE,
                    !.copy = [NoPage EXCEPT !.sum = RatingSum, !.count = RatingCount]]]
    /\ UNCHANGED <<shelfVars, writes, tainted, lagged, doubled, owed>>

\* ... and the save of the two columns, whose signal comes next.
SaveRating(b) ==
    /\ visit[b].pc = "save"
    /\ shelf' = [shelf EXCEPT !.sum = visit[b].copy.sum, !.count = visit[b].copy.count]
    /\ lagged' = visit[b].late
    /\ visit' = [Overtaken({"edit"}) EXCEPT ![b] = [@ EXCEPT !.pc = "bump"]]
    /\ UNCHANGED <<ratings, version, pages, writes, tainted, doubled, owed>>

\* The admin site deletes a customer's ratings, changes one, or adds one beside
\* what the customer has or is about to insert; nothing is recomputed.
AdminRates(u, rows) ==
    /\ writes < MaxWrites /\ rows # ratings[u]
    /\ writes' = writes + 1
    /\ ratings' = [ratings EXCEPT ![u] = rows]
    /\ doubled' = IF Len(rows) > 1 \/ \E b \in Standing({"insert"}) : visit[b].who = u
                    THEN doubled \cup {u} ELSE doubled
    /\ lagged' = TRUE
    /\ visit' = Overtaken({"save"})
    /\ UNCHANGED <<shelf, version, pages, tainted, owed>>

-----------------------------------------------------------------------------
(* Editing, restocking and selling.                                        *)

\* AdminProductDetail loads the product ...
LoadProduct(b) ==
    /\ visit[b] = NoVisit /\ writes < MaxWrites
    /\ writes' = writes + 1
    /\ visit' = [visit EXCEPT ![b] = [@ EXCEPT !.pc = "edit",
                    !.copy = [NoPage EXCEPT !.sum = shelf.sum, !.count = shelf.count]]]
    /\ UNCHANGED <<shelfVars, tainted, lagged, doubled, owed>>

\* ... and saves its whole row, the totals it loaded with it.
SaveProduct(b) ==
    /\ visit[b].pc = "edit"
    /\ shelf' = [shelf EXCEPT !.sum = visit[b].copy.sum, !.count = visit[b].copy.count]
    /\ lagged' = (lagged \/ visit[b].late)
    /\ Goes(b, "bump")
    /\ UNCHANGED <<ratings, version, pages, writes, tainted, doubled, owed>>

\* The admin site's form saves the totals that stand in it.
TypeTotals(b, n) ==
    /\ visit[b] = NoVisit /\ writes < MaxWrites
    /\ writes' = writes + 1
    /\ shelf' = [shelf EXCEPT !.sum = n, !.count = n]
    /\ lagged' = TRUE
    /\ Goes(b, "bump")
    /\ UNCHANGED <<ratings, version, pages, tainted, doubled, owed>>

\* An ops edit of the variant (catalog/admin_views), in autocommit.
Restock(b) ==
    /\ visit[b] = NoVisit /\ writes < MaxWrites /\ Standing(Selling) = {}
    /\ writes' = writes + 1
    /\ shelf' = [shelf EXCEPT !.stock = FullStock]
    /\ Goes(b, "bump")
    /\ UNCHANGED <<ratings, version, pages, tainted, lagged, doubled, owed>>

\* checkout: the variant is saved, and the version bumped, in a block.
SellInBlock(b) ==
    /\ visit[b] = NoVisit /\ writes < MaxWrites /\ Standing(Selling) = {} /\ shelf.stock > 0
    /\ writes' = writes + 1
    /\ Goes(b, "sell")
    /\ UNCHANGED <<shelfVars, tainted, lagged, doubled, owed>>

CommitSale(b) ==
    /\ visit[b].pc = "commit"
    /\ shelf' = [shelf EXCEPT !.stock = @ - 1]
    /\ Goes(b, "idle")
    /\ UNCHANGED <<ratings, version, pages, writes, tainted, lagged, doubled, owed>>

-----------------------------------------------------------------------------
(* Browsing: CategoryListView, ProductListView, ProductDetailView.         *)

\* A stored page is served as it is; without one the database is asked.
Browse(b) ==
    /\ visit[b] = NoVisit
    /\ \/ version = 0 /\ Goes(b, "first")
       \/ version # 0 /\ pages[version] = NoPage /\ Goes(b, "query")
    /\ UNCHANGED <<shelfVars, writes, tainted, lagged, doubled, owed>>

Query(b) ==
    /\ visit[b].pc = "query"
    /\ visit' = [visit EXCEPT ![b] = [@ EXCEPT !.pc = "fill", !.copy = shelf, !.at = version,
                    !.late = Standing({"commit"}) # {}]]
    /\ UNCHANGED <<shelfVars, writes, tainted, lagged, doubled, owed>>

\* set_cached reads the version again: the key may be newer than the page.
LookUp(b) ==
    /\ visit[b].pc = "fill"
    /\ visit' = [visit EXCEPT ![b] = [@ EXCEPT !.pc = IF version = 0 THEN "again" ELSE "store",
                    !.at = version, !.late = visit[b].late \/ visit[b].at # version]]
    /\ UNCHANGED <<shelfVars, writes, tainted, lagged, doubled, owed>>

StorePage(b) ==
    LET v == visit[b].at IN
    /\ visit[b].pc = "store"
    /\ pages' = [pages EXCEPT ![v] = visit[b].copy]
    /\ tainted' = IF visit[b].late THEN tainted \cup {v} ELSE tainted \ {v}
    /\ Goes(b, "idle")
    /\ UNCHANGED <<ratings, shelf, version, writes, lagged, doubled, owed>>

\* The TTL of a page runs out.
Expire(v) ==
    /\ pages[v] # NoPage
    /\ pages' = [pages EXCEPT ![v] = NoPage]
    /\ tainted' = tainted \ {v}
    /\ UNCHANGED <<ratings, shelf, version, visit, writes, lagged, doubled, owed>>

\* A worker dies, or its block rolls back: what it had not written is lost.
WorkerDies(b) ==
    /\ visit[b] # NoVisit
    /\ Goes(b, "idle")
    /\ lagged' = (lagged \/ visit[b].pc \in {"aggregate", "save"})
    /\ owed' = (owed \/ visit[b].pc \in {"bump", "reset"})
    /\ UNCHANGED <<shelfVars, writes, tainted, doubled>>

PagesNext ==
    \/ \E b \in Browsers, u \in Raters, s \in Stars : Rate(b, u, s)
    \/ \E u \in Raters, s \in Stars : \E rows \in {<<>>, <<s>>, Append(ratings[u], s)} : AdminRates(u, rows)
    \/ \E b \in Browsers, n \in 0..1 : TypeTotals(b, n)
    \/ \E b \in Browsers :
          \/ InsertRating(b) \/ Aggregate(b) \/ SaveRating(b)
          \/ LoadProduct(b) \/ SaveProduct(b)
          \/ Restock(b) \/ SellInBlock(b) \/ CommitSale(b) \/ Bump(b) \/ SetToOne(b)
          \/ Browse(b) \/ Query(b) \/ LookUp(b) \/ StorePage(b) \/ WorkerDies(b)
    \/ \E v \in DOMAIN pages : Expire(v)
    \/ DropVersion

PagesSpec == PagesInit /\ [][PagesNext]_pageVars

-----------------------------------------------------------------------------
(* A page the cache can serve is the product as it is, except that:        *)
(*  - it may have been computed before the write that its version stands   *)
(*    for, by a slow request, or between a block's bump and its commit;    *)
(*  - it may date from before the counter was lost, or was set to 1 by     *)
(*    someone who had missed it when there was one again;                  *)
(*  - a write may be at its bump, or its bump was lost with its worker.    *)
(* A customer has one row, unless two requests inserted the first at once, *)
(* or the admin site added one. When no rating is under way the totals are *)
(* those of the rows, unless they were last saved from a sum, or with a    *)
(* product row, that another rating had overtaken, or the admin site has   *)
(* changed ratings or totals since.                                        *)
PagesTellTheTruth ==
    /\ version > 0 /\ version \notin tainted /\ Standing({"bump", "reset"}) = {} /\ ~owed =>
          pages[version] \in {NoPage, shelf}
    /\ \A u \in Raters \ doubled : Len(ratings[u]) <= 1
    /\ Standing({"aggregate", "save"}) = {} /\ ~lagged =>
          shelf.sum = RatingSum /\ shelf.count = RatingCount

=============================================================================
