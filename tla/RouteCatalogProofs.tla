------------------------- MODULE RouteCatalogProofs -------------------------
(* Theorems about the catalogue of routes, for every number of creations and *)
(* listings, every page size and every assignment of dates.                  *)
EXTENDS RouteCatalog, FiniteSetTheorems, SequenceTheorems, TLAPS

\* What Redis holds is a tuple of four variables in every proof.
USE DEF redisVars, savedVars

(***************************************************************************)
(* Pages of an order of the routes.                                        *)
(***************************************************************************)
LEMMA PageBounds ==
    ASSUME NEW p \in Pages
    PROVE  /\ PageSize \in Nat \ {0} /\ p \in Nat \ {0}
           /\ (p - 1) * PageSize \in Nat
           /\ p * PageSize = (p - 1) * PageSize + PageSize
<1>1. PageSize \in Nat \ {0} /\ p \in Nat \ {0}
  BY CatalogAssumption DEF Pages
<1>2. \A i, j \in Nat : i * j \in Nat
  OBVIOUS
<1>3. QED
  BY <1>1, <1>2

\* A page has no more rows than PageSize, and if it has fewer, no row is after it.
LEMMA PageOfOrder ==
    ASSUME CatalogTypeOK, IsFiniteSet(routes), NEW o \in Orders, NEW p \in Pages
    PROVE  /\ PageOf(o, p) \in UNION {[1..n -> Creations] : n \in 0..PageSize}
           /\ Len(PageOf(o, p)) \in Nat
           /\ \/ Len(PageOf(o, p)) = PageSize
              \/ Cardinality(routes) <= (p - 1) * PageSize + Len(PageOf(o, p))
<1> DEFINE n == Cardinality(routes)
           x == (p - 1) * PageSize
           m == x + 1
           e == Least(p * PageSize, n)
<1>1. n \in Nat /\ o \in [1..n -> routes] /\ routes \subseteq Creations
  BY FS_CardinalityType DEF Orders, SetToSeqs, CatalogTypeOK
<1>2. Len(o) = n
  BY <1>1
<1>3. /\ x \in Nat /\ PageSize \in Nat \ {0} /\ p * PageSize = x + PageSize
  BY PageBounds
<1>4. /\ m \in Int /\ e \in Int /\ m >= 1 /\ e <= n /\ e - m + 1 <= PageSize
      /\ e = x + PageSize \/ e = n
  BY <1>1, <1>3 DEF Least
<1>5. \A i \in m..e : o[i] \in Creations
  BY <1>1, <1>4
<1>6. PageOf(o, p) = SubSeq(o, m, e)
  BY <1>2 DEF PageOf
<1> HIDE DEF n, x, m, e
<1>7. /\ SubSeq(o, m, e) \in Seq(Creations)
      /\ Len(SubSeq(o, m, e)) = IF m <= e THEN e - m + 1 ELSE 0
  BY <1>4, <1>5, SubSeqProperties
<1>8. Len(SubSeq(o, m, e)) \in 0..PageSize
  BY <1>3, <1>4, <1>7
<1>9. SubSeq(o, m, e) \in [1..Len(SubSeq(o, m, e)) -> Creations]
  BY <1>7, LenProperties
<1>10. \/ Len(SubSeq(o, m, e)) = PageSize
       \/ n <= x + Len(SubSeq(o, m, e))
  BY <1>1, <1>3, <1>4, <1>7 DEF m
<1>11. SubSeq(o, m, e) \in UNION {[1..k -> Creations] : k \in 0..PageSize}
  BY <1>8, <1>9
<1>12. Len(SubSeq(o, m, e)) \in Nat
  BY <1>7, LenProperties
<1>13. QED
  BY <1>6, <1>10, <1>11, <1>12 DEF n, x

\* A page has the rows of an order between two places, and no other.
LEMMA RowsOfAPage ==
    ASSUME CatalogTypeOK, IsFiniteSet(routes), NEW o \in Orders, NEW p \in Pages,
           NEW c
    PROVE  (\E k \in DOMAIN PageOf(o, p) : PageOf(o, p)[k] = c)
              <=> \E i \in DOMAIN o : o[i] = c /\ i - 1 \in Place(p)
<1> DEFINE n == Cardinality(routes)
           x == (p - 1) * PageSize
           m == x + 1
           e == Least(p * PageSize, n)
<1>1. n \in Nat /\ o \in [1..n -> routes] /\ routes \subseteq Creations
  BY FS_CardinalityType DEF Orders, SetToSeqs, CatalogTypeOK
<1>2. Len(o) = n /\ DOMAIN o = 1..n
  BY <1>1
<1>3. /\ x \in Nat /\ PageSize \in Nat \ {0} /\ p * PageSize = x + PageSize
  BY PageBounds
<1>4. Place(p) = x .. x + PageSize - 1
  BY <1>3 DEF Place
<1>5. /\ m \in Int /\ e \in Int /\ m >= 1 /\ e <= n
      /\ e = IF x + PageSize < n THEN x + PageSize ELSE n
  BY <1>1, <1>3 DEF Least
<1>6. \A i \in m..e : o[i] \in Creations
  BY <1>1, <1>5
<1>7. PageOf(o, p) = SubSeq(o, m, e)
  BY <1>2 DEF PageOf
<1>8. m = x + 1
  OBVIOUS
<1> HIDE DEF n, x, m, e
<1>9. /\ SubSeq(o, m, e) \in Seq(Creations)
      /\ Len(SubSeq(o, m, e)) = IF m <= e THEN e - m + 1 ELSE 0
      /\ \A k \in 1..e - m + 1 : SubSeq(o, m, e)[k] = o[m + k - 1]
  BY <1>5, <1>6, SubSeqProperties
<1>10. DOMAIN SubSeq(o, m, e) = 1..e - m + 1
  BY <1>5, <1>9, LenProperties
<1>11. ASSUME NEW k \in 1..e - m + 1
       PROVE  m + k - 1 \in 1..n /\ (m + k - 1) - 1 \in x .. x + PageSize - 1
  BY <1>1, <1>3, <1>5, <1>8
<1>12. ASSUME NEW i \in 1..n, i - 1 \in x .. x + PageSize - 1
       PROVE  i - m + 1 \in 1..e - m + 1 /\ m + (i - m + 1) - 1 = i
  BY <1>1, <1>3, <1>5, <1>8, <1>12
<1>13. ASSUME NEW k \in 1..e - m + 1, SubSeq(o, m, e)[k] = c
       PROVE  \E i \in 1..n : o[i] = c /\ i - 1 \in x .. x + PageSize - 1
  BY <1>9, <1>11, <1>13
<1>14. ASSUME NEW i \in 1..n, o[i] = c, i - 1 \in x .. x + PageSize - 1
       PROVE  \E k \in 1..e - m + 1 : SubSeq(o, m, e)[k] = c
  BY <1>9, <1>12, <1>14
<1>15. QED
  BY <1>2, <1>4, <1>7, <1>10, <1>13, <1>14

\* An order lists every route, and lists it once.
LEMMA OrderIsABijection ==
    ASSUME IsFiniteSet(routes), NEW o \in Orders
    PROVE  /\ Cardinality(routes) \in Nat
           /\ o \in [1..Cardinality(routes) -> routes]
           /\ \A i, j \in 1..Cardinality(routes) : i # j => o[i] # o[j]
           /\ \A c \in routes : \E i \in 1..Cardinality(routes) : o[i] = c
<1> DEFINE n == Cardinality(routes)
<1>1. n \in Nat
  BY FS_CardinalityType
<1>2. /\ o \in [1..n -> routes]
      /\ \A i, j \in 1..n : i # j => o[i] # o[j]
  BY DEF Orders, SetToSeqs
<1>3. o \in Injection(1..n, routes)
  BY <1>2 DEF Injection, IsInjective
<1>4. Cardinality(1..n) = n
  BY <1>1, FS_Interval
<1>5. o \in Surjection(1..n, routes)
  BY <1>3, <1>4, FS_Injection
<1>6. \A c \in routes : \E i \in 1..n : o[i] = c
  BY <1>5 DEF Surjection
<1>7. QED
  BY <1>1, <1>2, <1>6

\* Whatever the order of the others: before a route that is alone on its date
\* come those of the earlier dates, and only they.
LEMMA RankInAnOrder ==
    ASSUME CatalogTypeOK, IsFiniteSet(routes), NEW o \in Orders,
           NEW i \in DOMAIN o, ~Tied(o[i])
    PROVE  Cardinality(Earlier(o[i])) = i - 1
<1> DEFINE n == Cardinality(routes)
           c == o[i]
           before == [j \in 1..i - 1 |-> o[j]]
<1>1. /\ n \in Nat /\ o \in [1..n -> routes]
      /\ \A j, k \in 1..n : j # k => o[j] # o[k]
      /\ \A d \in routes : \E j \in 1..n : o[j] = d
  BY OrderIsABijection
<1>2. i \in 1..n /\ DOMAIN o = 1..n
  BY <1>1
<1>3. \A d \in routes : Departure[d] \in Nat
  BY CatalogAssumption DEF CatalogTypeOK
<1>4. \A j, k \in 1..n : j < k => Departure[o[j]] <= Departure[o[k]]
  BY <1>2 DEF Orders
<1>5. ASSUME NEW j \in 1..n
      PROVE  o[j] \in Earlier(c) <=> j < i
  <2>1. j < i => o[j] # c /\ Departure[o[j]] <= Departure[c]
    BY <1>1, <1>2, <1>4
  <2>2. i <= j => Departure[c] <= Departure[o[j]]
    BY <1>1, <1>2, <1>3, <1>4
  <2>3. o[j] \in routes /\ c \in routes
    BY <1>1, <1>2
  <2>4. o[j] # c => Departure[o[j]] # Departure[c]
    BY <2>3 DEF Tied
  <2>5. Departure[o[j]] \in Nat /\ Departure[c] \in Nat
    BY <1>3, <2>3
  <2>6. j < i \/ i <= j
    BY <1>2
  <2> HIDE DEF c
  <2>7. QED
    BY <2>1, <2>2, <2>3, <2>4, <2>5, <2>6 DEF Earlier
<1>6. i - 1 \in Nat /\ 1..i - 1 \subseteq 1..n /\ \A j \in 1..n : j < i <=> j \in 1..i - 1
  BY <1>1, <1>2
<1>7. \A j \in 1..i - 1 : before[j] = o[j] /\ o[j] \in Earlier(c)
  BY <1>5, <1>6
<1>8. before \in [1..i - 1 -> Earlier(c)]
  BY <1>7
<1>9. before \in Injection(1..i - 1, Earlier(c))
  BY <1>1, <1>6, <1>7, <1>8 DEF Injection, IsInjective
<1>10. \A d \in Earlier(c) : \E j \in 1..i - 1 : before[j] = d
  BY <1>1, <1>5, <1>6, <1>7 DEF Earlier
<1>11. before \in Bijection(1..i - 1, Earlier(c))
  BY <1>8, <1>9, <1>10 DEF Bijection, Surjection
<1>12. ExistsBijection(1..i - 1, Earlier(c))
  BY <1>11 DEF ExistsBijection
<1>13. QED
  BY <1>6, <1>12, FS_CountingElements

\* So a page of any order has such a route exactly when its rank says so.
LEMMA PageOfTheUntied ==
    ASSUME CatalogTypeOK, IsFiniteSet(routes), NEW entry, NEW p \in Pages,
           Shows(entry, p), NEW c \in routes, ~Tied(c)
    PROVE  Has(entry, c) <=> Cardinality(Earlier(c)) \in Place(p)
<1>1. PICK o \in Orders : entry.items = PageOf(o, p)
  BY DEF Shows
<1>2. Has(entry, c) <=> \E i \in DOMAIN o : o[i] = c /\ i - 1 \in Place(p)
  BY <1>1, RowsOfAPage DEF Has
<1>3. \E i \in DOMAIN o : o[i] = c
  BY OrderIsABijection
<1>4. \A i \in DOMAIN o : o[i] = c => Cardinality(Earlier(c)) = i - 1
  BY RankInAnOrder
<1>5. QED
  BY <1>2, <1>3, <1>4

\* The empty page that a listing starts from.
LEMMA NothingIsAPage == Nothing \in Page
<1>1. PageSize \in Nat
  BY CatalogAssumption
<1>2. <<>> \in [1..0 -> Creations]
  OBVIOUS
<1>3. QED
  BY <1>1, <1>2 DEF Nothing, Page

(***************************************************************************)
(* What the invariant says of numbers and pages.                           *)
(***************************************************************************)
LEMMA CatalogNumbers ==
    ASSUME CatalogInv
    PROVE  /\ Cardinality(routes) \in Nat /\ NoPage \notin Page
           /\ \A g \in Listings : /\ page[g] \in Pages
                                  /\ read[g] \in Page /\ read[g].total \in Nat
           /\ \A p \in Cached : p \in Pages /\ cache[p] \in Page
           /\ Nothing \in Page /\ 1 \in Pages
<1>1. CatalogTypeOK /\ Cardinality(routes) \in Nat
  BY FS_CardinalityType DEF CatalogInv
<1>2. PageSize \in Nat
  BY CatalogAssumption
<1>3. Nothing \in Page
  BY NothingIsAPage
<1>4. NoPage \notin Page
  <2>1. \A n \in Nat : [1..n -> Creations] \subseteq Seq(Creations)
    OBVIOUS
  <2>2. Page \subseteq [total : Nat, items : Seq(Creations)]
    BY <1>2, <2>1 DEF Page
  <2>3. QED
    BY <2>2, CatalogAssumption
<1>5. 1 \in Pages
  BY CatalogAssumption DEF Pages
<1>6. QED
  BY <1>1, <1>3, <1>4, <1>5 DEF CatalogTypeOK, Cached, Page

\* The parts of the invariant.
LEMMA CatalogParts ==
    ASSUME CatalogInv
    PROVE  /\ CatalogTypeOK /\ IsFiniteSet(routes)
           /\ \A c \in Creations : CreationShape(c)
           /\ \A g \in Listings : ListingShape(g)
           /\ \A p \in Pages : SavedShape(p)
           /\ \A p \in Cached : Covers(cache[p], p)
           /\ \A g \in Listings : at[g] = "fill" => Covers(read[g], page[g])
           /\ \A p \in Cached : ~cacheRaced[p] => Shows(cache[p], p)
BY DEF CatalogInv, PageCoversTotal, PagesFreshUnlessRaced

(***************************************************************************)
(* Creations.                                                              *)
(***************************************************************************)
\* A creation goes on, or ends without a commit.
LEMMA AdvanceInvariant ==
    ASSUME CatalogInv, CatalogTypeOK', NEW c \in Creations,
           NEW label \in {"route", "seats", "keys", "done"},
           Goto(c, label),
           \A d \in Creations : d # c => found'[d] = found[d],
           UNCHANGED <<routes, redisVars, listingVars>>
    PROVE  CatalogInv'
<1> USE DEF listingVars
<1>1. pc'[c] = label /\ \A d \in Creations : d # c => pc'[d] = pc[d]
  BY CatalogParts DEF Goto, CatalogTypeOK
<1>2. Cached' = Cached
  BY DEF Cached
<1>3. \A d \in Creations : CreationShape(d)'
  BY <1>1, <1>2, CatalogParts DEF CreationShape
<1>4. Pending' => Pending
  BY <1>1 DEF Pending
<1>5. \A g \in Listings : ListingShape(g)'
  BY <1>4, CatalogParts DEF ListingShape, Shows, Orders
<1>6. \A p \in Pages : SavedShape(p)'
  BY <1>4, CatalogParts DEF SavedShape, Covers, Shows, Orders
<1>7. PageCoversTotal' /\ PagesFreshUnlessRaced'
  BY <1>2, CatalogParts DEF PageCoversTotal, PagesFreshUnlessRaced, Covers, Shows, Orders
<1>8. QED
  BY <1>3, <1>5, <1>6, <1>7, CatalogParts DEF CatalogInv

\* KEYS: whoever has read before, and what is saved, is raced from now on.
LEMMA FindKeysInvariant ==
    ASSUME CatalogInv, CatalogTypeOK', NEW c \in Creations, FindKeys(c)
    PROVE  CatalogInv'
<1> USE DEF FindKeys, Goto
<1>1. /\ pc'[c] = "delete" /\ found'[c] = Cached
      /\ \A d \in Creations : d # c => pc'[d] = pc[d] /\ found'[d] = found[d]
      /\ \A g \in Listings : raced'[g] = (raced[g] \/ at[g] \in {"select", "fill"})
  BY CatalogParts DEF CatalogTypeOK, Cached
<1>2. Cached' = Cached
  BY DEF Cached
<1>3. \A d \in Creations : CreationShape(d)'
  BY <1>1, <1>2, CatalogParts DEF CreationShape
<1>4. \A g \in Listings : ListingShape(g)'
  BY <1>1, CatalogParts DEF ListingShape
<1>5. \A p \in Pages : SavedShape(p)'
  BY CatalogParts DEF SavedShape, Covers
<1>6. PageCoversTotal' /\ PagesFreshUnlessRaced'
  BY <1>2, CatalogParts DEF PageCoversTotal, PagesFreshUnlessRaced, Covers, Shows, Orders
<1>7. QED
  BY <1>3, <1>4, <1>5, <1>6, CatalogParts DEF CatalogInv

\* What is left in the cache after some pages are dropped.
LEMMA AfterDrop ==
    ASSUME CatalogTypeOK, NEW S, Drop(S)
    PROVE  /\ Cached' = Cached \ S
           /\ \A p \in Cached' : /\ p \in Cached /\ p \notin S
                                /\ cache'[p] = cache[p]
                                /\ cacheRaced'[p] = cacheRaced[p]
BY DEF CatalogTypeOK, Drop, Cached

\* DEL: what is left was filled after KEYS, and is raced.
LEMMA DeleteKeysInvariant ==
    ASSUME CatalogInv, CatalogTypeOK', NEW c \in Creations, DeleteKeys(c)
    PROVE  CatalogInv'
<1> USE DEF DeleteKeys, Goto, listingVars
<1>1. /\ pc[c] = "delete" /\ pc'[c] = "commit"
      /\ \A d \in Creations : d # c => pc'[d] = pc[d] /\ found'[d] = found[d]
  BY CatalogParts DEF CatalogTypeOK
<1>2. \A p \in Cached' : /\ p \in Cached /\ p \notin found[c]
                         /\ cache'[p] = cache[p] /\ cacheRaced'[p] = cacheRaced[p]
  BY CatalogParts, AfterDrop
<1>3. \A p \in Cached' : cacheRaced[p]
  BY <1>1, <1>2, CatalogParts DEF CreationShape
<1>4. \A d \in Creations : CreationShape(d)'
  BY <1>2, <1>3 DEF CreationShape
<1>5. Pending
  BY <1>1 DEF Pending
<1>6. \A g \in Listings : ListingShape(g)'
  BY <1>5, CatalogParts DEF ListingShape
<1>7. \A p \in Pages : SavedShape(p)'
  BY <1>5, CatalogParts DEF SavedShape, Covers
<1>8. PageCoversTotal' /\ PagesFreshUnlessRaced'
  BY <1>2, <1>3, CatalogParts DEF PageCoversTotal, PagesFreshUnlessRaced, Covers
<1>9. QED
  BY <1>4, <1>6, <1>7, <1>8, CatalogParts DEF CatalogInv

\* The commit of a route, acknowledged or not: all that is cached or read of
\* the catalogue is raced by then.
LEMMA CommitInvariant ==
    ASSUME CatalogInv, CatalogTypeOK', NEW c \in Creations,
           pc[c] = "commit", routes' = routes \cup {c}, Goto(c, "done"),
           UNCHANGED <<found, redisVars, listingVars>>
    PROVE  CatalogInv'
<1> USE DEF listingVars
<1>1. pc'[c] = "done" /\ \A d \in Creations : d # c => pc'[d] = pc[d]
  BY CatalogParts DEF Goto, CatalogTypeOK
<1>2. Cached' = Cached /\ \A p \in Cached : cacheRaced[p]
  BY CatalogParts DEF Cached, CreationShape
<1>3. IsFiniteSet(routes') /\ Cardinality(routes) <= Cardinality(routes')
  <2>1. IsFiniteSet(routes')
    BY CatalogParts, FS_AddElement
  <2>2. QED
    BY <2>1, FS_Subset
<1>4. Cardinality(routes) \in Nat /\ Cardinality(routes') \in Nat
  BY <1>3, CatalogParts, FS_CardinalityType
<1>5. \A d \in Creations : CreationShape(d)'
  BY <1>2 DEF CreationShape
<1>6. ASSUME NEW g \in Listings PROVE ListingShape(g)'
  <2>1. at[g] \in {"select", "fill"} => raced[g]
    BY CatalogParts DEF ListingShape, Pending
  <2>2. at[g] = "select" => read[g].total <= Cardinality(routes')
    BY <1>3, <1>4, CatalogParts, CatalogNumbers DEF ListingShape
  <2>3. QED
    BY <2>1, <2>2 DEF ListingShape
<1>7. \A p \in Pages : SavedShape(p)'
  BY CatalogParts DEF SavedShape, Covers, Pending
<1>8. PageCoversTotal' /\ PagesFreshUnlessRaced'
  BY <1>2, CatalogParts DEF PageCoversTotal, PagesFreshUnlessRaced, Covers
<1>9. QED
  BY <1>3, <1>5, <1>6, <1>7, <1>8 DEF CatalogInv

(***************************************************************************)
(* Listings.                                                               *)
(***************************************************************************)
\* A listing goes on in a way that keeps its own shape; the rest stays.
LEMMA ListingInvariant ==
    ASSUME CatalogInv, CatalogTypeOK', NEW g \in Listings,
           UNCHANGED <<creationVars, redisVars>>,
           \A h \in Listings : h # g => /\ at'[h] = at[h] /\ page'[h] = page[h]
                                        /\ read'[h] = read[h] /\ raced'[h] = raced[h],
           ListingShape(g)',
           at'[g] = "fill" => Covers(read'[g], page'[g])
    PROVE  CatalogInv'
<1> USE DEF creationVars
<1>1. Cached' = Cached
  BY DEF Cached
<1>2. \A d \in Creations : CreationShape(d)'
  BY <1>1, CatalogParts DEF CreationShape
<1>3. ASSUME NEW h \in Listings, h # g PROVE ListingShape(h)'
  BY <1>3, CatalogParts DEF ListingShape, Pending, Shows, Orders
<1>4. \A p \in Pages : SavedShape(p)'
  BY CatalogParts DEF SavedShape, Pending, Covers, Shows, Orders
<1>5. PageCoversTotal'
  BY <1>1, CatalogParts DEF PageCoversTotal, Covers
<1>6. PagesFreshUnlessRaced'
  BY <1>1, CatalogParts DEF PagesFreshUnlessRaced, Shows, Orders
<1>7. QED
  BY <1>2, <1>3, <1>4, <1>5, <1>6, CatalogParts DEF CatalogInv

\* The total is counted.
LEMMA CountInvariant ==
    ASSUME CatalogInv, CatalogTypeOK', NEW g \in Listings, Count(g)
    PROVE  CatalogInv'
<1> USE DEF Count
<1>1. /\ at'[g] = "select" /\ read'[g].total = Cardinality(routes)
      /\ raced'[g] = Pending
      /\ \A h \in Listings : h # g => /\ at'[h] = at[h] /\ page'[h] = page[h]
                                     /\ read'[h] = read[h] /\ raced'[h] = raced[h]
  BY CatalogParts, CatalogNumbers DEF CatalogTypeOK, Page
<1>2. UNCHANGED routes /\ Pending' = Pending
  BY DEF creationVars, Pending
<1>3. read'[g].total <= Cardinality(routes') /\ read'[g].total = Cardinality(routes')
  BY <1>1, <1>2, CatalogNumbers
<1>4. ListingShape(g)'
  BY <1>1, <1>2, <1>3 DEF ListingShape
<1>5. QED
  BY <1>1, <1>4, ListingInvariant

\* The page is selected.
LEMMA SelectInvariant ==
    ASSUME CatalogInv, CatalogTypeOK', NEW g \in Listings, Select(g)
    PROVE  CatalogInv'
<1> USE DEF Select
<1>1. PICK o \in Orders : read' = [read EXCEPT ![g].items = PageOf(o, page[g])]
  OBVIOUS
<1>2. /\ at[g] = "select" /\ at'[g] = "fill"
      /\ read'[g].total = read[g].total /\ read'[g].items = PageOf(o, page[g])
      /\ \A h \in Listings : h # g => /\ at'[h] = at[h] /\ page'[h] = page[h]
                                     /\ read'[h] = read[h] /\ raced'[h] = raced[h]
  BY <1>1, CatalogParts, CatalogNumbers DEF CatalogTypeOK, Page
<1>3. ListingShape(g)'
  BY <1>2, CatalogParts DEF ListingShape, Pending, Shows, Orders, creationVars
<1>4. Covers(read'[g], page[g])
  <2>1. /\ read[g].total <= Cardinality(routes) /\ read[g].total \in Nat
        /\ Cardinality(routes) \in Nat /\ page[g] \in Pages
    BY <1>2, CatalogParts, CatalogNumbers DEF ListingShape
  <2>2. (page[g] - 1) * PageSize \in Nat
    BY <2>1, PageBounds
  <2>3. /\ Len(PageOf(o, page[g])) \in Nat
        /\ \/ Len(PageOf(o, page[g])) = PageSize
           \/ Cardinality(routes) <= (page[g] - 1) * PageSize + Len(PageOf(o, page[g]))
    BY <2>1, CatalogParts, PageOfOrder
  <2> DEFINE x == (page[g] - 1) * PageSize
  <2>4. read'[g].total <= x + Len(PageOf(o, page[g])) \/ Len(PageOf(o, page[g])) = PageSize
    <3> HIDE DEF x
    <3>1. QED
      BY <1>2, <2>1, <2>2, <2>3 DEF x
  <2>5. QED
    BY <1>2, <2>4 DEF Covers
<1>5. QED
  BY <1>2, <1>3, <1>4, ListingInvariant

\* The page is set, and the handler answers.
LEMMA FillInvariant ==
    ASSUME CatalogInv, CatalogTypeOK', NEW g \in Listings, Fill(g)
    PROVE  CatalogInv'
<1> USE DEF Fill, Forget, creationVars
<1> DEFINE p == page[g]
<1>1. /\ p \in Pages /\ at[g] = "fill" /\ read[g] \in Page /\ read[g] # NoPage
      /\ at'[g] = "idle"
      /\ \A h \in Listings : h # g => /\ at'[h] = at[h] /\ page'[h] = page[h]
                                     /\ read'[h] = read[h] /\ raced'[h] = raced[h]
      /\ cache'[p] = read[g] /\ cacheRaced'[p] = raced[g]
      /\ \A q \in Pages : q # p => cache'[q] = cache[q] /\ cacheRaced'[q] = cacheRaced[q]
  BY CatalogParts, CatalogNumbers DEF CatalogTypeOK
<1>2. Cached' = Cached \cup {p}
  BY <1>1 DEF Cached
<1>3. \A q \in Cached' : q \in Pages /\ (q # p => q \in Cached)
  BY <1>2 DEF Cached
<1>4. \A c \in Creations : CreationShape(c)'
  <2>1. ~raced[g] => \A c \in Creations : pc[c] \notin {"delete", "commit"}
    BY <1>1, CatalogParts DEF ListingShape, Pending
  <2>2. QED
    BY <1>1, <1>3, <2>1, CatalogParts DEF CreationShape
<1>5. \A h \in Listings : ListingShape(h)'
  BY <1>1, CatalogParts DEF ListingShape, Pending, Shows, Orders
<1>6. \A q \in Pages : SavedShape(q)'
  BY CatalogParts DEF SavedShape, Pending, Covers, Shows, Orders
<1>7. PageCoversTotal'
  BY <1>1, <1>3, CatalogParts DEF PageCoversTotal, Covers
<1>8. PagesFreshUnlessRaced'
  <2>1. ~raced[g] => Shows(read[g], p)
    BY <1>1, CatalogParts DEF ListingShape
  <2>2. QED
    BY <1>1, <1>3, <2>1, CatalogParts DEF PagesFreshUnlessRaced, Shows, Orders
<1>9. QED
  BY <1>4, <1>5, <1>6, <1>7, <1>8, CatalogParts DEF CatalogInv

(***************************************************************************)
(* Redis by itself.                                                        *)
(***************************************************************************)
\* What Redis holds is what it held or had on disk, or nothing; what it has on
\* disk is what it had or, raced if a creation is under way, what it held.
LEMMA RedisInvariant ==
    ASSUME CatalogInv, CatalogTypeOK', UNCHANGED <<creationVars, listingVars>>,
           \A p \in Pages :
               /\ \/ cache'[p] = NoPage
                  \/ cache'[p] = cache[p] /\ cacheRaced'[p] = cacheRaced[p]
                  \/ cache'[p] = saved[p] /\ cacheRaced'[p] = savedRaced[p]
               /\ \/ saved'[p] = NoPage
                  \/ saved'[p] = saved[p] /\ savedRaced'[p] = savedRaced[p]
                  \/ /\ saved'[p] = cache[p]
                     /\ cache[p] # NoPage /\ ~savedRaced'[p] => ~cacheRaced[p] /\ ~Pending
    PROVE  CatalogInv'
<1> USE DEF creationVars, listingVars
<1>1. ASSUME NEW p \in Cached'
      PROVE  /\ p \in Pages /\ Covers(cache'[p], p)
             /\ ~cacheRaced'[p] =>
                    /\ Shows(cache'[p], p)
                    /\ ~Pending \/ (p \in Cached /\ ~cacheRaced[p])
  BY CatalogParts DEF Cached, SavedShape
<1>2. \A c \in Creations : CreationShape(c)'
  BY <1>1, CatalogParts DEF CreationShape, Pending
<1>3. \A g \in Listings : ListingShape(g)'
  BY CatalogParts DEF ListingShape, Pending, Shows, Orders
<1>4. \A p \in Pages : SavedShape(p)'
  BY CatalogParts DEF SavedShape, Cached, Covers, Pending, Shows, Orders
<1>5. PageCoversTotal'
  BY <1>1, CatalogParts DEF PageCoversTotal, Covers
<1>6. PagesFreshUnlessRaced'
  BY <1>1 DEF PagesFreshUnlessRaced, Shows, Orders
<1>7. QED
  BY <1>2, <1>3, <1>4, <1>5, <1>6, CatalogParts DEF CatalogInv

\* The end of a TTL, a snapshot, a restart.
LEMMA RedisStep ==
    ASSUME CatalogInv, CatalogTypeOK',
           \/ \E p \in Pages : Expire(p) \/ ExpireSaved(p)
           \/ Save \/ RedisRestart
    PROVE  CatalogInv'
<1>1. CatalogTypeOK
  BY CatalogParts
<1>2. ASSUME NEW p \in Pages, Expire(p)
      PROVE  CatalogInv'
  BY <1>1, <1>2, RedisInvariant DEF Expire, Drop, DropSaved, CatalogTypeOK
<1>3. ASSUME NEW p \in Pages, ExpireSaved(p)
      PROVE  CatalogInv'
  BY <1>1, <1>3, RedisInvariant DEF ExpireSaved, DropSaved, CatalogTypeOK
<1>4. CASE Save
  BY <1>1, <1>4, RedisInvariant DEF Save
<1>5. CASE RedisRestart
  BY <1>1, <1>5, RedisInvariant DEF RedisRestart
<1>6. QED
  BY <1>2, <1>3, <1>4, <1>5

\* The process dies.
LEMMA CrashInvariant ==
    ASSUME CatalogInv, CatalogTypeOK', Crash
    PROVE  CatalogInv'
<1> USE DEF Crash
<1>1. /\ Cached' = Cached
      /\ \A c \in Creations : pc'[c] \notin {"delete", "commit"}
      /\ \A g \in Listings : at'[g] = "idle"
  BY DEF Cached, Creating
<1>2. \A c \in Creations : CreationShape(c)'
  BY <1>1 DEF CreationShape
<1>3. \A g \in Listings : ListingShape(g)'
  BY <1>1 DEF ListingShape
<1>4. \A p \in Pages : SavedShape(p)'
  BY <1>1, CatalogParts DEF SavedShape, Pending, Covers, Shows, Orders
<1>5. PageCoversTotal' /\ PagesFreshUnlessRaced'
  BY <1>1, CatalogParts DEF PageCoversTotal, PagesFreshUnlessRaced, Covers, Shows, Orders
<1>6. QED
  BY <1>2, <1>3, <1>4, <1>5, CatalogParts DEF CatalogInv

\* A handler begins, or is given up.
LEMMA MissInvariant ==
    ASSUME CatalogInv, CatalogTypeOK', NEW g \in Listings, NEW p \in Pages, Miss(g, p)
    PROVE  CatalogInv'
<1>1. /\ at'[g] = "count" /\ UNCHANGED <<creationVars, redisVars>>
      /\ \A h \in Listings : h # g => /\ at'[h] = at[h] /\ page'[h] = page[h]
                                     /\ read'[h] = read[h] /\ raced'[h] = raced[h]
  BY CatalogParts DEF Miss, CatalogTypeOK
<1>2. QED
  BY <1>1, ListingInvariant DEF ListingShape

LEMMA GiveUpInvariant ==
    ASSUME CatalogInv, CatalogTypeOK', NEW g \in Listings, ListingFails(g)
    PROVE  CatalogInv'
<1>1. /\ at'[g] = "idle" /\ UNCHANGED <<creationVars, redisVars>>
      /\ \A h \in Listings : h # g => /\ at'[h] = at[h] /\ page'[h] = page[h]
                                     /\ read'[h] = read[h] /\ raced'[h] = raced[h]
  BY CatalogParts DEF ListingFails, Forget, CatalogTypeOK
<1>2. QED
  BY <1>1, ListingInvariant DEF ListingShape

(***************************************************************************)
(* Types.                                                                  *)
(***************************************************************************)
\* Dropping pages, or a failure, keeps the types of what it touches.
LEMMA DropTypes ==
    ASSUME CatalogTypeOK, NEW S, Drop(S)
    PROVE  /\ cache' \in [Pages -> Page \cup {NoPage}]
           /\ cacheRaced' \in [Pages -> BOOLEAN]
BY DEF CatalogTypeOK, Drop

LEMMA DropSavedTypes ==
    ASSUME CatalogTypeOK, NEW p \in Pages, DropSaved(p)
    PROVE  /\ saved' \in [Pages -> Page \cup {NoPage}]
           /\ savedRaced' \in [Pages -> BOOLEAN]
BY DEF CatalogTypeOK, DropSaved

LEMMA FaultTypes ==
    ASSUME CatalogTypeOK, Fault
    PROVE  faults' \in 0..MaxFaults
BY CatalogAssumption DEF CatalogTypeOK, Fault

\* The statements of a creation keep the types.
LEMMA CreationTypes ==
    ASSUME CatalogInv, NEW c \in Creations,
           \/ Post(c) \/ Create(c)
           \/ Fail(c) \/ CommitUnacknowledged(c)
    PROVE  CatalogTypeOK'
<1> USE CatalogParts DEF CatalogTypeOK, Goto, Creating, listingVars
<1>1. CASE Post(c) \/ InsertRoute(c) \/ InsertSeats(c)
  BY <1>1 DEF Post, InsertRoute, InsertSeats
<1>2. CASE FindKeys(c)
  BY <1>2 DEF FindKeys
<1>3. CASE DeleteKeys(c)
  BY <1>3, DropTypes DEF DeleteKeys
<1>4. CASE Commit(c)
  BY <1>4 DEF Commit
<1>5. CASE Fail(c)
  BY <1>5, FaultTypes DEF Fail
<1>6. CASE CommitUnacknowledged(c)
  BY <1>6, FaultTypes DEF CommitUnacknowledged
<1>7. QED
  BY <1>1, <1>2, <1>3, <1>4, <1>5, <1>6 DEF Create

\* So do those of a listing.
LEMMA ListingTypes ==
    ASSUME CatalogInv, NEW g \in Listings,
           \/ \E p \in Pages : Miss(g, p)
           \/ List(g) \/ ListingFails(g)
    PROVE  CatalogTypeOK'
<1> USE CatalogParts DEF CatalogTypeOK, creationVars
<1>1. CASE \E p \in Pages : Miss(g, p)
  BY <1>1 DEF Miss
<1>2. CASE Count(g)
  <2>1. read' \in [Listings -> Page]
    BY <1>2, CatalogNumbers DEF Count, Page
  <2>2. raced' \in [Listings -> BOOLEAN]
    BY <1>2 DEF Count, Pending
  <2>3. at' \in [Listings -> {"idle", "count", "select", "fill"}]
    BY <1>2 DEF Count
  <2>4. QED
    BY <1>2, <2>1, <2>2, <2>3 DEF Count
<1>3. CASE Select(g)
  <2>1. PICK o \in Orders : read' = [read EXCEPT ![g].items = PageOf(o, page[g])]
    BY <1>3 DEF Select
  <2>2. PageOf(o, page[g]) \in UNION {[1..n -> Creations] : n \in 0..PageSize}
    BY PageOfOrder
  <2>3. [read[g] EXCEPT !.items = PageOf(o, page[g])] \in Page
    BY <2>2, CatalogNumbers DEF Page
  <2>4. read' \in [Listings -> Page]
    BY <2>1, <2>3
  <2>5. QED
    BY <1>3, <2>4 DEF Select
<1>4. CASE Fill(g)
  BY <1>4, CatalogNumbers DEF Fill, Forget
<1>5. CASE ListingFails(g)
  BY <1>5, CatalogNumbers, FaultTypes DEF ListingFails, Forget
<1>6. QED
  BY <1>1, <1>2, <1>3, <1>4, <1>5 DEF List

\* And the environment's.
LEMMA OtherTypes ==
    ASSUME CatalogInv,
           \/ \E p \in Pages : Expire(p) \/ ExpireSaved(p)
           \/ Save \/ RedisRestart \/ Crash
    PROVE  CatalogTypeOK'
<1> USE CatalogParts DEF CatalogTypeOK, creationVars, listingVars
<1>1. CASE Crash
  BY <1>1, CatalogNumbers, FaultTypes DEF Crash, Creating
<1>2. CASE \E p \in Pages : Expire(p) \/ ExpireSaved(p)
  BY <1>2, DropTypes, DropSavedTypes DEF Expire, ExpireSaved
<1>3. CASE Save
  <2>1. savedRaced' \in [Pages -> BOOLEAN]
    BY <1>3 DEF Save
  <2>2. QED
    BY <1>3, <2>1 DEF Save
<1>4. CASE RedisRestart
  BY <1>4, FaultTypes DEF RedisRestart
<1>5. QED
  BY <1>1, <1>2, <1>3, <1>4

(***************************************************************************)
(* Theorems.                                                               *)
(***************************************************************************)
\* Nothing is listed or cached at the start, and no creation is under way.
LEMMA CatalogInit == Init => CatalogInv
<1> SUFFICES ASSUME Init PROVE CatalogInv
  OBVIOUS
<1> USE DEF Init
<1>1. IsFiniteSet(routes)
  BY CatalogAssumption
<1>2. CatalogTypeOK
  BY NothingIsAPage, CatalogAssumption DEF CatalogTypeOK, Pages
<1>3. Cached = {}
  BY DEF Cached
<1>4. /\ \A c \in Creations : CreationShape(c)
      /\ \A g \in Listings : ListingShape(g)
      /\ \A p \in Pages : SavedShape(p)
  BY <1>3 DEF CreationShape, ListingShape, SavedShape
<1>5. PageCoversTotal /\ PagesFreshUnlessRaced
  BY <1>3 DEF PageCoversTotal, PagesFreshUnlessRaced
<1>6. QED
  BY <1>1, <1>2, <1>4, <1>5 DEF CatalogInv

\* Every step keeps the invariant.
LEMMA CatalogStep == CatalogInv /\ [Next]_vars => CatalogInv'
<1> SUFFICES ASSUME CatalogInv, [Next]_vars PROVE CatalogInv'
  OBVIOUS
<1>1. ASSUME NEW c \in Creations,
             Post(c) \/ Create(c) \/ Fail(c) \/ CommitUnacknowledged(c)
      PROVE  CatalogInv'
  <2>1. CatalogTypeOK'
    BY <1>1, CreationTypes
  <2>2. CASE Post(c)
    BY <2>1, <2>2, AdvanceInvariant DEF Post
  <2>3. CASE InsertRoute(c)
    BY <2>1, <2>3, AdvanceInvariant DEF InsertRoute
  <2>4. CASE InsertSeats(c)
    BY <2>1, <2>4, AdvanceInvariant DEF InsertSeats
  <2>5. CASE FindKeys(c)
    BY <2>1, <2>5, FindKeysInvariant
  <2>6. CASE DeleteKeys(c)
    BY <2>1, <2>6, DeleteKeysInvariant
  <2>7. CASE Commit(c)
    BY <2>1, <2>7, CommitInvariant DEF Commit
  <2>8. CASE Fail(c)
    <3>1. \A d \in Creations : d # c => found'[d] = found[d]
      BY <2>8, CatalogParts DEF Fail, CatalogTypeOK
    <3>2. QED
      BY <2>1, <2>8, <3>1, AdvanceInvariant DEF Fail
  <2>9. CASE CommitUnacknowledged(c)
    BY <2>1, <2>9, CommitInvariant DEF CommitUnacknowledged
  <2>10. QED
    BY <1>1, <2>2, <2>3, <2>4, <2>5, <2>6, <2>7, <2>8, <2>9 DEF Create
<1>2. ASSUME NEW g \in Listings, NEW p \in Pages, Miss(g, p)
      PROVE  CatalogInv'
  BY <1>2, ListingTypes, MissInvariant
<1>3. ASSUME NEW g \in Listings, List(g) \/ ListingFails(g)
      PROVE  CatalogInv'
  BY <1>3, ListingTypes, CountInvariant, SelectInvariant, FillInvariant, GiveUpInvariant
     DEF List
<1>4. CASE \/ \E p \in Pages : Expire(p) \/ ExpireSaved(p)
           \/ Save \/ RedisRestart
  BY <1>4, OtherTypes, RedisStep
<1>5. ASSUME Crash
      PROVE  CatalogInv'
  BY <1>5, OtherTypes, CrashInvariant
<1>6. ASSUME UNCHANGED vars
      PROVE  CatalogInv'
  BY <1>6 DEF vars, CatalogInv, CatalogTypeOK, CreationShape, ListingShape, SavedShape,
              PageCoversTotal, PagesFreshUnlessRaced, Pending, Cached, Covers, Shows,
              Orders
<1>7. QED
  BY <1>1, <1>2, <1>3, <1>4, <1>5, <1>6 DEF Next

\* The inductive invariant of the catalogue holds in every state.
THEOREM CatalogInvariant == Spec => []CatalogInv
BY CatalogInit, CatalogStep, PTL DEF Spec

\* No statement of create_route or list_routes stores anything ill-typed, in
\* the cache least of all.
THEOREM CatalogTypeCorrect == Spec => []CatalogTypeOK
<1>1. CatalogInv => CatalogTypeOK
  BY DEF CatalogInv
<1>2. QED
  BY <1>1, CatalogInvariant, PTL

\* list_active counts before it selects, so that no page is shorter than its
\* total promises, whatever is committed between the two statements.
THEOREM PagesCoverTheirTotals == Spec => []PageCoversTotal
<1>1. CatalogInv => PageCoversTotal
  BY DEF CatalogInv
<1>2. QED
  BY <1>1, CatalogInvariant, PTL

\* delete_pattern before the commit leaves a page stale only when a listing
\* raced the creation.
THEOREM PagesAreFreshUnlessRaced == Spec => []PagesFreshUnlessRaced
<1>1. CatalogInv => PagesFreshUnlessRaced
  BY DEF CatalogInv
<1>2. QED
  BY <1>1, CatalogInvariant, PTL

\* ORDER BY departure_at with OFFSET and LIMIT repeats or loses, from one page
\* to the next, none but routes of the same date.
THEOREM OnlyTiesMayRepeat == Spec => []OnlyTiesRepeat
<1>1. CatalogInv => OnlyTiesRepeat
  <2> SUFFICES ASSUME CatalogInv, NEW p \in Cached, ~cacheRaced[p],
                      NEW c \in routes, ~Tied(c)
               PROVE  Has(cache[p], c) <=> Cardinality(Earlier(c)) \in Place(p)
    BY DEF OnlyTiesRepeat
  <2>1. p \in Pages /\ Shows(cache[p], p)
    BY CatalogParts, CatalogNumbers
  <2>2. QED
    BY <2>1, CatalogParts, PageOfTheUntied
<1>2. QED
  BY <1>1, CatalogInvariant, PTL

(***************************************************************************)
(* The end of a raced page.                                                *)
(***************************************************************************)
\* No creation is between its KEYS and its commit, and no listing of page p
\* remains that was raced by one.
Calm(p) ==
    /\ \A c \in Creations : pc[c] \notin {"delete", "commit"}
    /\ \A g \in Listings : page[g] = p => ~raced[g]

\* Weak fairness of Expire(p), whose only condition is that p is cached.
Expires(p) == []<>(cache[p] = NoPage) \/ []<><<Expire(p)>>_vars

\* Neither the page nor its copy on disk counts as raced.
Unraced(p) ==
    /\ cache[p] = NoPage \/ ~cacheRaced[p]
    /\ saved[p] = NoPage \/ ~savedRaced[p]

\* KEYS and DEL have a creation between them or after them.
LEMMA KeysAreNotCalm ==
    ASSUME CatalogTypeOK, NEW c \in Creations, FindKeys(c) \/ DeleteKeys(c),
           NEW p, Calm(p)'
    PROVE  FALSE
<1>1. pc'[c] \in {"delete", "commit"}
  BY DEF FindKeys, DeleteKeys, Goto, CatalogTypeOK
<1>2. (\A d \in Creations : pc[d] \notin {"delete", "commit"})'
  BY DEF Calm
<1>3. QED
  BY <1>1, <1>2

\* What creations leave alone while no creation is between its KEYS and its commit.
LEMMA CreationsLeaveRedis ==
    ASSUME CatalogTypeOK, NEW c \in Creations, NEW p, Calm(p)',
           Post(c) \/ Create(c) \/ Fail(c) \/ CommitUnacknowledged(c)
    PROVE  UNCHANGED <<cache, cacheRaced, saved, savedRaced>>
BY KeysAreNotCalm
   DEF Post, Create, InsertRoute, InsertSeats, Commit, Fail, CommitUnacknowledged

LEMMA UnracedStays ==
    ASSUME CatalogInv, NEW p \in Pages, Calm(p), Calm(p)', Unraced(p), [Next]_vars
    PROVE  Unraced(p)'
<1>1. CatalogTypeOK
  BY CatalogParts
<1>2. ASSUME UNCHANGED <<cache, cacheRaced, saved, savedRaced>>
      PROVE  Unraced(p)'
  BY <1>2 DEF Unraced
<1>3. ASSUME NEW g \in Listings, Fill(g)
      PROVE  Unraced(p)'
  BY <1>1, <1>3 DEF Fill, Forget, Calm, Unraced, CatalogTypeOK
<1>4. ASSUME NEW c \in Creations,
             Post(c) \/ Create(c) \/ Fail(c) \/ CommitUnacknowledged(c)
      PROVE  Unraced(p)'
  BY <1>1, <1>2, <1>4, CreationsLeaveRedis
<1>5. ASSUME NEW g \in Listings,
             (\E q \in Pages : Miss(g, q)) \/ List(g) \/ ListingFails(g)
      PROVE  Unraced(p)'
  BY <1>2, <1>3, <1>5 DEF Miss, List, Count, Select, ListingFails
<1>6. ASSUME NEW q \in Pages, Expire(q) \/ ExpireSaved(q)
      PROVE  Unraced(p)'
  BY <1>1, <1>6 DEF Expire, ExpireSaved, Drop, DropSaved, Unraced, CatalogTypeOK
<1>7. CASE Save
  <2>1. ~Pending
    BY DEF Calm, Pending
  <2>2. QED
    BY <1>7, <2>1 DEF Save, Unraced
<1>8. CASE RedisRestart
  BY <1>8 DEF RedisRestart, Unraced
<1>9. CASE Crash \/ UNCHANGED vars
  BY <1>2, <1>9 DEF Crash, vars
<1>10. QED
  BY <1>4, <1>5, <1>6, <1>7, <1>8, <1>9 DEF Next

\* While no creation is between the two, only the end of its TTL, or a restart
\* that finds no copy of it, takes a page away; either leaves none that is raced.
LEMMA RacedPageStays ==
    ASSUME CatalogInv, NEW p \in Pages, Calm(p)', cache[p] # NoPage, [Next]_vars
    PROVE  cache'[p] # NoPage \/ Unraced(p)'
<1>1. CatalogTypeOK
  BY CatalogParts
<1>2. ASSUME NEW g \in Listings, Fill(g)
      PROVE  cache'[p] # NoPage
  BY <1>1, <1>2, CatalogNumbers DEF Fill, CatalogTypeOK
<1>3. ASSUME NEW c \in Creations,
             Post(c) \/ Create(c) \/ Fail(c) \/ CommitUnacknowledged(c)
      PROVE  cache'[p] # NoPage
  BY <1>1, <1>3, CreationsLeaveRedis
<1>4. ASSUME NEW g \in Listings,
             (\E q \in Pages : Miss(g, q)) \/ List(g) \/ ListingFails(g)
      PROVE  cache'[p] # NoPage
  BY <1>2, <1>4 DEF Miss, List, Count, Select, ListingFails
<1>5. ASSUME NEW q \in Pages, Expire(q)
      PROVE  cache'[p] # NoPage \/ Unraced(p)'
  BY <1>1, <1>5 DEF Expire, Drop, DropSaved, Unraced, CatalogTypeOK
<1>6. CASE RedisRestart
  BY <1>6 DEF RedisRestart, Unraced
<1>7. CASE (\E q \in Pages : ExpireSaved(q)) \/ Save \/ Crash \/ UNCHANGED vars
  BY <1>7 DEF ExpireSaved, Save, Crash, vars
<1>8. QED
  BY <1>3, <1>4, <1>5, <1>6, <1>7 DEF Next

\* The cached page p is that of the committed routes for good.
PageSettles(p) == <>[](p \in Cached => Shows(cache[p], p))
CalmInTheEnd(p) == <>[]Calm(p)

(***************************************************************************)
(* A page that was set between KEYS and commit is wrong for its TTL and no *)
(* longer: once creations have come to rest and the listings that one of   *)
(* them raced have ended, the end of the TTL leaves a page that is never   *)
(* wrong again.                                                            *)
(***************************************************************************)
THEOREM RacedPagesEnd ==
    ASSUME NEW p \in Pages
    PROVE  Spec /\ Expires(p) /\ CalmInTheEnd(p) => PageSettles(p)
<1> DEFINE Empty == cache[p] = NoPage
           Right == p \in Cached => Shows(cache[p], p)
<1>1. CatalogInv /\ Calm(p) /\ Calm(p)' /\ Unraced(p) /\ [Next]_vars => Unraced(p)'
  BY UnracedStays
<1>2. CatalogInv /\ Calm(p)' /\ ~Empty /\ [Next]_vars => ~Empty' \/ Unraced(p)'
  BY RacedPageStays
<1>3. CatalogInv /\ <<Expire(p)>>_vars => Unraced(p)'
  BY CatalogParts DEF Expire, Drop, DropSaved, Unraced, CatalogTypeOK
<1>4. CatalogInv /\ Unraced(p) => Right
  BY CatalogParts DEF Unraced, Cached
<1>5. Empty => Right
  BY DEF Cached
<1>6. QED
  BY <1>1, <1>2, <1>3, <1>4, <1>5, CatalogInvariant, PTL
     DEF Spec, Expires, CalmInTheEnd, PageSettles

-----------------------------------------------------------------------------
(* The end of the creations                                                *)

\* The stages of create_route, each with the next one.
Ahead == [route |-> "seats", seats |-> "keys", keys |-> "delete",
          delete |-> "commit", commit |-> "done"]

LEMMA CreationsMove ==
    ASSUME CatalogTypeOK, [Next]_vars, NEW c \in Creations
    PROVE  /\ pc[c] \in Creating => pc'[c] \in {pc[c], Ahead[pc[c]], "done"}
           /\ pc[c] = "new" => pc'[c] \in {"new", "route"}
           /\ pc[c] = "done" => pc'[c] = "done"
<1>1. pc \in [Creations -> {"new", "done"} \cup Creating]
  BY DEF CatalogTypeOK
<1>2. ASSUME NEW d \in Creations,
             Post(d) \/ Create(d) \/ Fail(d) \/ CommitUnacknowledged(d)
      PROVE  /\ d # c => pc'[c] = pc[c]
             /\ pc[d] = "new" => pc'[d] = "route"
             /\ pc[d] \in Creating => pc'[d] \in {Ahead[pc[d]], "done"}
             /\ pc[d] \in {"new"} \cup Creating
  BY <1>1, <1>2 DEF Post, Create, InsertRoute, InsertSeats, FindKeys, DeleteKeys, Commit,
                    Fail, CommitUnacknowledged, Goto, Creating, Ahead
<1>3. CASE Crash
  BY <1>1, <1>3 DEF Crash, Creating
<1>4. CASE \/ \E g \in Listings, p \in Pages : Miss(g, p)
           \/ \E g \in Listings : List(g) \/ ListingFails(g)
           \/ \E p \in Pages : Expire(p) \/ ExpireSaved(p)
           \/ Save \/ RedisRestart
           \/ UNCHANGED vars
  <2>1. pc' = pc
    BY <1>4 DEF Miss, List, Count, Select, Fill, ListingFails, Expire, ExpireSaved, Save,
                RedisRestart, creationVars, vars
  <2>2. QED
    BY <2>1
<1>5. CASE \E d \in Creations :
               Post(d) \/ Create(d) \/ Fail(d) \/ CommitUnacknowledged(d)
  BY <1>1, <1>2, <1>5 DEF Creating
<1>6. QED
  BY <1>3, <1>4, <1>5 DEF Next

\* Weak fairness of Create(c), whose guards are the stages of the handler; and
\* its end.
CreationGoesOn(c) == []<>(pc[c] \notin Creating) \/ []<><<Create(c)>>_vars
CreationEnds(c) == <>[](pc[c] \notin Creating)

(***************************************************************************)
(* A creation waits for nobody, so that it ends.                           *)
(***************************************************************************)
THEOREM EveryCreationEnds ==
    ASSUME NEW c \in Creations
    PROVE  Spec /\ CreationGoesOn(c) => CreationEnds(c)
<1> DEFINE At(label) == pc[c] = label
           Busy == pc[c] \in Creating
           Over == pc[c] = "done"
<1>1. ASSUME CatalogInv, [Next]_vars, NEW label \in Creating, At(label)
      PROVE  At(label)' \/ At(Ahead[label])' \/ Over'
  BY <1>1, CatalogParts, CreationsMove
<1>2. ASSUME CatalogInv, NEW label \in Creating, At(label), <<Create(c)>>_vars
      PROVE  At(Ahead[label])'
  <2>1. pc \in [Creations -> {"new", "done"} \cup Creating]
    BY <1>2, CatalogParts DEF CatalogTypeOK
  <2>2. QED
    BY <1>2, <2>1 DEF Create, InsertRoute, InsertSeats, FindKeys, DeleteKeys, Commit, Goto,
                      Ahead
<1>3. /\ CatalogInv /\ [Next]_vars /\ At("route") => (At("route") \/ At("seats") \/ Over)'
      /\ CatalogInv /\ [Next]_vars /\ At("seats") => (At("seats") \/ At("keys") \/ Over)'
      /\ CatalogInv /\ [Next]_vars /\ At("keys") => (At("keys") \/ At("delete") \/ Over)'
      /\ CatalogInv /\ [Next]_vars /\ At("delete") => (At("delete") \/ At("commit") \/ Over)'
      /\ CatalogInv /\ [Next]_vars /\ At("commit") => (At("commit") \/ Over)'
  BY <1>1 DEF Creating, Ahead
<1>4. /\ CatalogInv /\ <<Create(c)>>_vars /\ At("route") => At("seats")'
      /\ CatalogInv /\ <<Create(c)>>_vars /\ At("seats") => At("keys")'
      /\ CatalogInv /\ <<Create(c)>>_vars /\ At("keys") => At("delete")'
      /\ CatalogInv /\ <<Create(c)>>_vars /\ At("delete") => At("commit")'
      /\ CatalogInv /\ <<Create(c)>>_vars /\ At("commit") => Over'
  BY <1>2 DEF Creating, Ahead
<1>5. /\ CatalogInv => At("new") \/ Over \/ Busy
      /\ CatalogInv /\ [Next]_vars /\ At("new") => (At("new") \/ At("route"))'
      /\ CatalogInv /\ [Next]_vars /\ Over => Over'
  BY CatalogParts, CreationsMove DEF CatalogTypeOK
<1>6. /\ Busy <=> \/ At("route") \/ At("seats") \/ At("keys")
                  \/ At("delete") \/ At("commit")
      /\ Over => ~Busy
      /\ At("new") => ~Busy
  BY DEF Creating
<1>7. pc[c] \notin Creating <=> ~Busy
  OBVIOUS
<1>8. QED
  BY <1>3, <1>4, <1>5, <1>6, <1>7, CatalogInvariant, PTL
     DEF Spec, CreationGoesOn, CreationEnds

-----------------------------------------------------------------------------
(* The end of the listings that were raced                                 *)

Rest == \A c \in Creations : pc[c] \notin Creating
CreationsRest == <>[]Rest

\* Only a listing that reads counts as raced.
RacedReads(g) == raced[g] => at[g] \in {"select", "fill"}

LEMMA RacedListingsRead ==
    ASSUME NEW g \in Listings
    PROVE  Spec => []RacedReads(g)
<1>1. Init => RacedReads(g)
  BY DEF Init, RacedReads
<1>2. CatalogInv /\ RacedReads(g) /\ [Next]_vars => RacedReads(g)'
  <2> SUFFICES ASSUME CatalogInv, RacedReads(g), [Next]_vars
               PROVE  RacedReads(g)'
    OBVIOUS
  <2> USE DEF RacedReads
  <2>1. CatalogTypeOK
    BY CatalogParts
  <2>2. ASSUME NEW c \in Creations,
               Post(c) \/ Create(c) \/ Fail(c) \/ CommitUnacknowledged(c)
        PROVE  RacedReads(g)'
    BY <2>2 DEF Post, Create, InsertRoute, InsertSeats, FindKeys, DeleteKeys, Commit, Fail,
                CommitUnacknowledged, listingVars
  <2>3. ASSUME NEW h \in Listings,
               (\E p \in Pages : Miss(h, p)) \/ List(h) \/ ListingFails(h)
        PROVE  RacedReads(g)'
    BY <2>1, <2>3 DEF Miss, List, Count, Select, Fill, ListingFails, Forget, CatalogTypeOK
  <2>4. CASE \/ \E p \in Pages : Expire(p) \/ ExpireSaved(p)
             \/ Save \/ RedisRestart \/ Crash
             \/ UNCHANGED vars
    BY <2>4 DEF Expire, ExpireSaved, Save, RedisRestart, Crash, listingVars, vars
  <2>5. QED
    BY <2>2, <2>3, <2>4 DEF Next
<1>3. QED
  BY <1>1, <1>2, CatalogInvariant, PTL DEF Spec

\* Nobody races a listing while no creation is on the way; what it was raced by
\* before, it does not get rid of but by its end or by a new count.
LEMMA ListingsAtRest ==
    ASSUME CatalogTypeOK, Rest, NEW g \in Listings, [Next]_vars
    PROVE  /\ ~raced[g] => ~raced'[g]
           /\ at[g] = "fill" /\ raced'[g] => at'[g] = "fill"
           /\ at[g] = "select" /\ raced'[g] => at'[g] \in {"select", "fill"}
<1>1. ~Pending /\ \A c \in Creations : ~FindKeys(c)
  BY DEF Rest, Creating, Pending, FindKeys
<1>2. ASSUME NEW c \in Creations,
             Post(c) \/ Create(c) \/ Fail(c) \/ CommitUnacknowledged(c)
      PROVE  UNCHANGED <<at, raced>>
  BY <1>1, <1>2 DEF Post, Create, InsertRoute, InsertSeats, DeleteKeys, Commit, Fail,
                    CommitUnacknowledged, listingVars
<1>3. ASSUME NEW h \in Listings, \E p \in Pages : Miss(h, p)
      PROVE  /\ raced' = raced /\ at[h] = "idle"
             /\ h # g => at'[g] = at[g]
  BY <1>3 DEF Miss, CatalogTypeOK
<1>4. ASSUME NEW h \in Listings, List(h) \/ ListingFails(h)
      PROVE  /\ h # g => at'[g] = at[g] /\ raced'[g] = raced[g]
             /\ \/ ~raced'[h]
                \/ raced'[h] = raced[h] /\ at[h] = "select" /\ at'[h] = "fill"
  BY <1>1, <1>4 DEF List, Count, Select, Fill, ListingFails, Forget, CatalogTypeOK
<1>5. CASE Crash
  BY <1>5 DEF Crash
<1>6. CASE \/ \E p \in Pages : Expire(p) \/ ExpireSaved(p)
           \/ Save \/ RedisRestart
           \/ UNCHANGED vars
  BY <1>6 DEF Expire, ExpireSaved, Save, RedisRestart, listingVars, vars
<1>7. QED
  BY <1>2, <1>3, <1>4, <1>5, <1>6 DEF Next

\* Weak fairness of List(g), whose guards are the stages of the handler.
ListingGoesOn(g) == []<>(at[g] = "idle") \/ []<><<List(g)>>_vars
ListingUnraced(g) == <>[](~raced[g])

(***************************************************************************)
(* A listing that was raced ends, and no later one is.                     *)
(***************************************************************************)
THEOREM RacedListingsEnd ==
    ASSUME NEW g \in Listings
    PROVE  Spec /\ CreationsRest /\ ListingGoesOn(g) => ListingUnraced(g)
<1> DEFINE Idle == at[g] = "idle"
           Selects == at[g] = "select"
           Fills == at[g] = "fill"
           Raced == raced[g]
<1>1. /\ CatalogInv /\ Rest /\ [Next]_vars /\ ~Raced => ~Raced'
      /\ CatalogInv /\ Rest /\ [Next]_vars /\ Fills /\ Raced' => Fills'
      /\ CatalogInv /\ Rest /\ [Next]_vars /\ Selects /\ Raced' => Selects' \/ Fills'
  BY CatalogParts, ListingsAtRest
<1>2. CatalogInv /\ Rest /\ <<List(g)>>_vars /\ Raced' => Fills' /\ ~Fills
  <2> SUFFICES ASSUME CatalogInv, Rest, List(g), raced'[g]
               PROVE  at'[g] = "fill" /\ at[g] # "fill"
    OBVIOUS
  <2>1. ~Pending
    BY DEF Rest, Creating, Pending
  <2>2. CatalogTypeOK
    BY CatalogParts
  <2>3. QED
    BY <2>1, <2>2 DEF List, Count, Select, Fill, Forget, CatalogTypeOK
<1>3. RacedReads(g) /\ Raced => (Selects \/ Fills) /\ ~Idle
  BY DEF RacedReads
<1>4. Spec => []RacedReads(g)
  BY RacedListingsRead
<1>5. QED
  BY <1>1, <1>2, <1>3, <1>4, CatalogInvariant, PTL
     DEF Spec, CreationsRest, ListingGoesOn, ListingUnraced

-----------------------------------------------------------------------------
(* The catalogue settles                                                   *)

\* The event loop goes on with every handler, and Redis ends every TTL, as in
\* FairSpec.
HandlersGoOn ==
    /\ \A c \in Creations : CreationGoesOn(c)
    /\ \A g \in Listings : ListingGoesOn(g)
    /\ \A p \in Pages : Expires(p)

NobodyRaced == <>[](\A g \in Listings : ~raced[g])

\* What holds of any finite set of creations, of listings and of pages: what
\* each of them comes to for good, all of them come to together.
ComeTogether ==
    /\ (\A c \in Creations : CreationEnds(c)) => CreationsRest
    /\ (\A g \in Listings : ListingUnraced(g)) => NobodyRaced
    /\ (\A p \in Pages : PageSettles(p)) => CatalogSettles

(***************************************************************************)
(* Whatever order creations, listings, the two steps of delete_pattern and *)
(* the end of TTLs come in: in the end the cached pages are those of the   *)
(* committed routes.                                                       *)
(***************************************************************************)
THEOREM CatalogSettlesInTheEnd == Spec /\ HandlersGoOn /\ ComeTogether => CatalogSettles
<1>1. \A c \in Creations : Spec /\ CreationGoesOn(c) => CreationEnds(c)
  BY EveryCreationEnds
<1>2. Spec /\ HandlersGoOn /\ ComeTogether => CreationsRest
  BY <1>1 DEF HandlersGoOn, ComeTogether
<1>3. \A g \in Listings : Spec /\ CreationsRest /\ ListingGoesOn(g) => ListingUnraced(g)
  BY RacedListingsEnd
<1>4. Spec /\ HandlersGoOn /\ ComeTogether /\ CreationsRest => NobodyRaced
  BY <1>3 DEF HandlersGoOn, ComeTogether
<1>5. ASSUME NEW p \in Pages
      PROVE  CreationsRest /\ NobodyRaced => CalmInTheEnd(p)
  <2>1. Rest /\ (\A g \in Listings : ~raced[g]) => Calm(p)
    BY DEF Rest, Calm, Creating
  <2>2. QED
    BY <2>1, PTL DEF CreationsRest, NobodyRaced, CalmInTheEnd
<1>6. \A p \in Pages : Spec /\ Expires(p) /\ CalmInTheEnd(p) => PageSettles(p)
  BY RacedPagesEnd
<1>7. Spec /\ HandlersGoOn /\ CreationsRest /\ NobodyRaced => \A p \in Pages : PageSettles(p)
  BY <1>5, <1>6 DEF HandlersGoOn
<1>8. QED
  BY <1>2, <1>4, <1>7 DEF ComeTogether
=============================================================================
