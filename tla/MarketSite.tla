----------------------------- MODULE MarketSite -----------------------------
(***************************************************************************)
(* The marketing site's vendor pages (lib/vendors, components/vendors,     *)
(* app/vendors): the home page's featured cards and the directory are read *)
(* from two caches of the catalogue that age apart, and each vendor's page *)
(* is rendered from the directory's and kept by the framework. A cache     *)
(* past its lifetime is still served while it is rebuilt.                  *)
(***************************************************************************)
EXTENDS Integers, FiniteSets, Sequences, SequencesExt

CONSTANTS
  Makers,        \* the vendors' ids
  Signs,         \* display names in alphabetical order, each its words
  Wares,         \* product names, each its words
  FirstCatalog,  \* the vendors when the site was built
  Asked,         \* what visitors search for, as words
  Parts,         \* pairs of words, the first a part of the second
  FeaturedCount, \* FEATURED_COUNT
  Lifetimes,     \* revalidate of the directory's and of the featured cache
  MaxChanges     \* bound on the changes of the catalogue

VARIABLES
  catalog,    \* the vendors' rows and items
  cache,      \* what is kept under each key, how old, what changed since
  screen,     \* what a visitor looks at
  changed     \* how many changes

siteVars == <<catalog, cache, screen, changed>>

Words(s) == {s[i] : i \in DOMAIN s}

(***************************************************************************)
(* Building the listing.                                                   *)
(***************************************************************************)

\* The slug of a name is its words; two names may share them.
Slug(name) == Signs[name]

\* The keys of the two caches, and of a slug's page.
Directory  == <<"vendors">>
Featured   == <<"featured-vendors">>
SitePage(slug) == <<"page">> \o slug
Pages      == {SitePage(Signs[n]) : n \in DOMAIN Signs}
Keys       == {Directory, Featured} \cup Pages
Lifetime(k) == IF k = Featured THEN Lifetimes.featured ELSE Lifetimes.directory

Listed == {v \in Makers : catalog[v].active /\ catalog[v].items # {}}

Row(v) == [of |-> v, name |-> catalog[v].name, items |-> catalog[v].items]

Arrangements(rows, n) ==
  {s \in [1 .. n -> rows] : \A i, j \in 1 .. n : i # j => s[i] # s[j]}

\* The rows in order of name.
LoadVendorData ==
  LET rows == {Row(v) : v \in Listed}
  IN  {s \in Arrangements(rows, Cardinality(rows)) :
         \A i, j \in DOMAIN s : i < j => s[i].name <= s[j].name}

Drawn(rows) ==
  LET size == Cardinality(rows)
  IN  Arrangements(rows, IF size < FeaturedCount THEN size ELSE FeaturedCount)

\* Slip: drawn from the active vendors, those with nothing to show among them.
SelectFeaturedActive == Drawn({Row(v) : v \in {x \in Makers : catalog[x].active}})

\* Any row may be drawn, none twice.
SelectFeaturedVendors == Drawn({Row(v) : v \in Listed})

\* The first of that slug, or nothing.
GetVendorBySlug(rows, slug) ==
  LET found == {i \in DOMAIN rows : Slug(rows[i].name) = slug}
  IN  IF found = {} THEN <<>>
      ELSE <<rows[CHOOSE i \in found : \A j \in found : i <= j]>>

(***************************************************************************)
(* Searching it.                                                           *)
(***************************************************************************)

Inside(part, word) == part = word \/ <<part, word>> \in Parts
SearchKey(row) == Words(Signs[row.name]) \cup UNION {Words(Wares[p]) : p \in row.items}

\* A query of several words is met by a run of them, one of one word by a part.
Includes(text, query) ==
  IF Len(query) = 1 THEN \E w \in Words(text) : Inside(query[1], w)
  ELSE \E i \in 1 .. Len(text) : SubSeq(text, i, i + Len(query) - 1) = query

\* A word of a query is the beginning of a name's first word only if it is that word.
StartsWith(text, query) ==
  /\ Len(query) <= Len(text)
  /\ SubSeq(text, 1, Len(query)) = query

ScoreVendor(row, query) ==
  LET terms == Words(query)
      name  == Signs[row.name]
  IN  IF \E t \in terms : \A w \in SearchKey(row) : ~Inside(t, w) THEN 0
      ELSE IF name = query THEN 5
      ELSE IF StartsWith(name, query) THEN 4
      ELSE IF terms \subseteq Words(name) THEN 3
      ELSE IF \E p \in row.items : Includes(Wares[p], query) THEN 2
      ELSE 1

\* Of the rows those at some places, in their order.
Chosen(rows, places) ==
  FlattenSeq([i \in DOMAIN rows |-> IF i \in places THEN <<rows[i]>> ELSE <<>>])

\* Best tier first, by name within one.
SearchVendors(rows, query) ==
  LET Tier(n) == Chosen(rows, {i \in DOMAIN rows : ScoreVendor(rows[i], query) = n})
  IN  IF query = <<>> THEN rows ELSE FlattenSeq([k \in 1 .. 5 |-> Tier(6 - k)])

ByName(rows) ==
  FlattenSeq([n \in DOMAIN Signs |-> Chosen(rows, {i \in DOMAIN rows : rows[i].name = n})])

(***************************************************************************)
(* The caches.                                                             *)
(***************************************************************************)

NewEntry(content) == [content |-> content, age |-> 0, altered |-> {}]

Kept(k, entry) ==
  [x \in DOMAIN cache \cup {k} |-> IF x = k THEN entry ELSE cache[x]]

\* A vendor's page is only as new as the directory it was rendered from.
Rendered(page) ==
  [content |-> GetVendorBySlug(cache[Directory].content, Tail(page)), age |-> 0,
   altered |-> cache[Directory].altered]

EntriesOf(k) ==
  IF k = Directory THEN {NewEntry(s) : s \in LoadVendorData}
  ELSE IF k = Featured THEN {NewEntry(s) : s \in SelectFeaturedVendors}
  ELSE {Rendered(k)}

NoScreen == [at |-> "none", query |-> <<>>, cards |-> <<>>, altered |-> {}]
Shows(at, query, cards, altered) ==
  [at |-> at, query |-> query, cards |-> cards, altered |-> altered]

\* The site is built and its vendors' pages with it; without the database
\* there is no build, though the featured cards alone may be missing.
Init ==
  /\ catalog = FirstCatalog
  /\ \E rows \in LoadVendorData, picked \in SelectFeaturedVendors, built \in BOOLEAN :
       LET pages == {SitePage(Slug(rows[i].name)) : i \in DOMAIN rows}
       IN  cache = [k \in {Directory} \cup pages \cup (IF built THEN {Featured} ELSE {}) |->
                      NewEntry(CASE k = Directory -> rows
                              [] k = Featured -> picked
                              [] OTHER -> GetVendorBySlug(rows, Tail(k)))]
  /\ screen = NoScreen
  /\ changed = 0

(***************************************************************************)
(* Visits.                                                                 *)
(***************************************************************************)

Home(cards, altered) == screen' = Shows("home", <<>>, cards, altered)

\* The cached cards, or cards picked for this visit.
OpenHome ==
  /\ IF Featured \in DOMAIN cache
     THEN /\ Home(cache[Featured].content, cache[Featured].altered)
          /\ UNCHANGED cache
     ELSE \E entry \in EntriesOf(Featured) :
            /\ Home(entry.content, {})
            /\ cache' = Kept(Featured, entry)
  /\ UNCHANGED <<catalog, changed>>

\* No featured vendors rather than no home page.
OpenHomeWithout ==
  /\ Featured \notin DOMAIN cache
  /\ Home(<<>>, {})
  /\ UNCHANGED <<catalog, cache, changed>>

\* /vendors, with a query or without; the order by name is offered for a query.
OpenDirectory(query, az) ==
  /\ az => query # <<>>
  /\ LET found == SearchVendors(cache[Directory].content, query)
     IN  screen' = Shows(IF az THEN "az" ELSE "directory", query,
                         IF az THEN ByName(found) ELSE found,
                         cache[Directory].altered)
  /\ UNCHANGED <<catalog, cache, changed>>

\* A card's link: the page kept under its slug, or one rendered for it. The
\* screen keeps the card that was followed.
Follow(i) ==
  LET card == screen.cards[i]
      key  == SitePage(Slug(card.name))
      page == IF key \in DOMAIN cache THEN cache[key] ELSE Rendered(key)
  IN  /\ screen.at \in {"home", "directory", "az"}
      /\ cache' = Kept(key, page)
      /\ screen' = Shows("page", <<>>, <<card>> \o page.content,
                         screen.altered \cup page.altered)
      /\ UNCHANGED <<catalog, changed>>

(***************************************************************************)
(* What happens behind them.                                               *)
(***************************************************************************)

\* Some visit finds an entry past its lifetime: it is answered from the old
\* entry, and this is the rebuild behind the answer. One that fails leaves
\* the old entry.
Refresh(k) ==
  /\ k \in DOMAIN cache
  /\ cache[k].age = Lifetime(k)
  /\ \E entry \in EntriesOf(k) : cache' = Kept(k, entry)
  /\ UNCHANGED <<catalog, screen, changed>>

Older(entry, k) ==
  IF entry.age < Lifetime(k) THEN [entry EXCEPT !.age = @ + 1] ELSE entry

HourPasses ==
  /\ cache' = [k \in DOMAIN cache |-> Older(cache[k], k)]
  /\ cache' # cache
  /\ UNCHANGED <<catalog, screen, changed>>

\* The back office renames, closes or reopens a vendor; its items come and go.
Changes(row) ==
  {[row EXCEPT !.name = n] : n \in DOMAIN Signs}
    \cup {[row EXCEPT !.active = ~@], [row EXCEPT !.items = {}],
          [row EXCEPT !.items = DOMAIN Wares]}

CatalogChanges(v) ==
  /\ changed < MaxChanges
  /\ changed' = changed + 1
  /\ \E row \in Changes(catalog[v]) \ {catalog[v]} :
       catalog' = [catalog EXCEPT ![v] = row]
  /\ cache' = [k \in DOMAIN cache |-> [cache[k] EXCEPT !.altered = @ \cup {v}]]
  /\ screen' = [screen EXCEPT !.altered = @ \cup {v}]

Next ==
  \/ OpenHome \/ OpenHomeWithout
  \/ \E query \in Asked, az \in BOOLEAN : OpenDirectory(query, az)
  \/ \E i \in DOMAIN screen.cards : Follow(i)
  \/ \E k \in Keys : Refresh(k)
  \/ HourPasses
  \/ \E v \in Makers : CatalogChanges(v)

Spec == Init /\ [][Next]_siteVars

(***************************************************************************)
(* Properties.                                                             *)
(***************************************************************************)

SiteTypeOK ==
  /\ Directory \in DOMAIN cache /\ DOMAIN cache \subseteq Keys
  /\ changed \in 0 .. MaxChanges

\* A card that is followed arrives: whatever the ages of the caches its card
\* and its page came from, a vendor that did not change since either was
\* built has a page, its own with the items the card counts, unless another
\* vendor of the same slug comes first in the directory
\* (FeaturedVendors.tsx: "each card's link resolves to that vendor's page").
CardsResolve ==
  screen.at = "page" =>
    LET card == Head(screen.cards)
    IN  card.of \in screen.altered
        \/ /\ Len(screen.cards) = 2
           /\ \/ screen.cards[2] = card
              \/ /\ screen.cards[2].of # card.of
                 /\ Slug(screen.cards[2].name) = Slug(card.name)
                 /\ screen.cards[2].name <= card.name

\* Who is searched for by name is found, ahead of every vendor with another
\* name, whatever products others carry; and by name when asked to sort so.
FoundByName ==
  screen.at \in {"directory", "az"} =>
    /\ \A i, j \in DOMAIN screen.cards :
         i < j => IF screen.at = "az" THEN screen.cards[i].name <= screen.cards[j].name
                  ELSE Signs[screen.cards[j].name] = screen.query
                         => Signs[screen.cards[i].name] = screen.query
    /\ \A i \in DOMAIN cache[Directory].content :
         LET row == cache[Directory].content[i]
         IN  Signs[row.name] = screen.query /\ row.of \notin screen.altered =>
               \E j \in DOMAIN screen.cards : screen.cards[j] = row

=============================================================================
