------------------------------ MODULE Fetching ------------------------------
(***************************************************************************)
(* Fetching from external sites with retries: the enrichment of records    *)
(* (crud.enrich_records_concurrent over fetch.fetch_with_retry) and the    *)
(* scrapers (scrapers/*.py).                                               *)
(*                                                                         *)
(* An enrichment has one job per record; its jobs share a semaphore that   *)
(* belongs to the request alone and is held over the pauses between two    *)
(* attempts.  A scrape is a single job with a new scraper, and so with its *)
(* own semaphore and its own memory of seen URLs.  fetch_aiohttp.py has    *)
(* the same retry loop and no caller.                                      *)
(*                                                                         *)
(* Left out: the contents of answers and the lengths of the pauses.        *)
(***************************************************************************)
EXTENDS Integers, Sequences, FiniteSets

CONSTANTS
    Requests,       \* concurrent requests
    MaxJobs,        \* bound: records in one enrichment request
    SlotLimit,      \* ENRICH_SEMAPHORE_LIMIT
    EnrichRetries,  \* max_retries of enrich_one
    ScrapeRetries,  \* _MAX_RETRIES
    PageLimit,      \* limit of a scrape
    Page,           \* the items of the scraped page, repetitions included
    Untitled        \* the item of a row without a title

ASSUME FetchingAssumption ==
    /\ MaxJobs \in Nat \ {0}
    /\ SlotLimit \in Nat \ {0}
    /\ EnrichRetries \in Nat \ {0}
    /\ ScrapeRetries \in Nat \ {0}
    /\ PageLimit \in Nat \ {0}
    /\ Len(Page) \in Nat \ {0}

VARIABLES
    kind,       \* of the request each coroutine serves
    pc,         \* where each of its jobs is
    tries,      \* attempts each job has begun
    read,       \* how many items of the page the browser attempt has read
    seen,       \* _seen, the page items the Bloom filter answers True for
    items,      \* the items the scrape will return, by their places on the page
    lost        \* ghost: page items left out: taken by an attempt that failed
                \* later, or false positives of the Bloom filter

vars == <<kind, pc, tries, read, seen, items, lost>>
scrapeVars == <<read, seen, items, lost>>

Jobs == 1..MaxJobs
Places == 1..Len(Page)
PageItems == {Page[i] : i \in Places}
Returned(r) == {Page[i] : i \in items[r]}
Scrapers == {"http", "html", "browser"}
Settled == {"ok", "failed", "missing", "absent"}

\* Jobs that hold the semaphore.
HoldersLeaking(r) == {j \in Jobs : pc[r][j] \in {"fetching", "sleeping", "failed"}}
Holders(r) == {j \in Jobs : pc[r][j] \in {"fetching", "sleeping"}}
Retries(r) == IF kind[r] = "enrich" THEN EnrichRetries ELSE ScrapeRetries

Init ==
    /\ kind = [r \in Requests |-> "none"]
    /\ pc = [r \in Requests |-> [j \in Jobs |-> "absent"]]
    /\ tries = [r \in Requests |-> [j \in Jobs |-> 0]]
    /\ read = [r \in Requests |-> 0]
    /\ seen = [r \in Requests |-> {}]
    /\ items = [r \in Requests |-> {}]
    /\ lost = [r \in Requests |-> {}]

-----------------------------------------------------------------------------
Begin(r, k, jobs) ==
    /\ kind[r] = "none"
    /\ kind' = [kind EXCEPT ![r] = k]
    /\ pc' = [pc EXCEPT ![r] = jobs]
    /\ tries' = [tries EXCEPT ![r] = [j \in Jobs |-> 0]]
    /\ read' = [read EXCEPT ![r] = 0]
    /\ seen' = [seen EXCEPT ![r] = {}]
    /\ items' = [items EXCEPT ![r] = {}]
    /\ lost' = [lost EXCEPT ![r] = {}]

\* enrich_records: one query finds the active records among the given ones.
Enrich(r, n, found) ==
    Begin(r, "enrich", [j \in Jobs |-> IF j > n THEN "absent"
                                       ELSE IF j \in found THEN "waiting" ELSE "missing"])

\* ScraperFactory.create and scrape() of HttpScraper, HtmlScraper or
\* BrowserScraper.
Scrape(r, k) ==
    Begin(r, k, [j \in Jobs |-> IF j = 1 THEN "waiting" ELSE "absent"])

\* `async with semaphore'; the first attempt starts.
Acquire(r, j) ==
    /\ pc[r][j] = "waiting"
    /\ Cardinality(Holders(r)) < SlotLimit
    /\ pc' = [pc EXCEPT ![r][j] = "fetching"]
    /\ tries' = [tries EXCEPT ![r][j] = 1]
    /\ UNCHANGED <<kind, scrapeVars>>

\* asyncio.sleep is over; the next attempt starts.
Wake(r, j) ==
    /\ pc[r][j] = "sleeping"
    /\ pc' = [pc EXCEPT ![r][j] = "fetching"]
    /\ tries' = [tries EXCEPT ![r][j] = @ + 1]
    /\ UNCHANGED <<kind, scrapeVars>>

\* The places a scrape looks at: the site is asked for _limit posts, the HTML
\* scraper takes the first rows and skips those without a title, and the
\* browser reads the whole page (an empty text is an item for it).
Considered(r) ==
    {i \in Places : \/ kind[r] = "browser"
                    \/ i <= PageLimit /\ ~(kind[r] = "html" /\ Page[i] = Untitled)}

\* The places of the new items that scrape() selects from a complete answer;
\* fp are the false positives of the filter.
Fresh(r, fp) == {i \in Considered(r) : Page[i] \notin {Page[h] : h \in 1..(i-1)} \union fp}

\* items[:limit]
FirstItems(S) == {i \in S : Cardinality({h \in S : h <= i}) <= PageLimit}

\* An attempt of an enrichment succeeds.
FetchReturns(r, j) ==
    /\ kind[r] = "enrich" /\ pc[r][j] = "fetching"
    /\ pc' = [pc EXCEPT ![r][j] = "ok"]
    /\ UNCHANGED <<kind, tries, scrapeVars>>

\* An attempt of an HTTP scrape succeeds, and its items are selected.  The
\* first one cannot be a false positive of an empty filter.
ScrapeReturns(r) ==
    /\ kind[r] \in {"http", "html"} /\ pc[r][1] = "fetching"
    /\ pc' = [pc EXCEPT ![r][1] = "ok"]
    /\ LET some == {Page[i] : i \in Considered(r)}
       IN  \E fp \in SUBSET some :
              /\ \A i \in Considered(r) :
                    (\A h \in Considered(r) : i <= h) => Page[i] \notin fp
              /\ seen' = [seen EXCEPT ![r] = some]
              /\ items' = [items EXCEPT ![r] = Fresh(r, fp)]
              /\ lost' = [lost EXCEPT ![r] = fp]
    /\ UNCHANGED <<kind, tries, read>>

\* BrowserScraper awaits the browser for every item, and remembers its URL
\* at once.
ReadForgetful(r) ==
    /\ kind[r] = "browser" /\ pc[r][1] = "fetching" /\ read[r] < Len(Page)
    /\ read' = [read EXCEPT ![r] = @ + 1]
    /\ items' = [items EXCEPT ![r] = @ \union {read[r] + 1}]
    /\ UNCHANGED <<kind, pc, tries, seen, lost>>
ReadItem(r) ==
    /\ kind[r] = "browser" /\ pc[r][1] = "fetching" /\ read[r] < Len(Page)
    /\ read' = [read EXCEPT ![r] = @ + 1]
    /\ LET i == Page[read[r] + 1]
       IN  \/ /\ i \notin seen[r]
              /\ seen' = [seen EXCEPT ![r] = @ \union {i}]
              /\ items' = [items EXCEPT ![r] = @ \union {read[r] + 1}]
              /\ UNCHANGED lost
           \/ /\ i \in seen[r]
              /\ UNCHANGED <<seen, items, lost>>
           \/ /\ i \notin seen[r] /\ seen[r] # {}      \* a false positive
              /\ seen' = [seen EXCEPT ![r] = @ \union {i}]
              /\ lost' = [lost EXCEPT ![r] = @ \union {i}]
              /\ UNCHANGED items
    /\ UNCHANGED <<kind, pc, tries>>

\* The whole page is read: scrape() returns the first items of this attempt.
PageDone(r) ==
    /\ kind[r] = "browser" /\ pc[r][1] = "fetching" /\ read[r] = Len(Page)
    /\ pc' = [pc EXCEPT ![r][1] = "ok"]
    /\ items' = [items EXCEPT ![r] = FirstItems(@)]
    /\ UNCHANGED <<kind, tries, read, seen, lost>>

\* An attempt fails: back off, or give up after the last one.  What a browser
\* attempt has read so far is dropped, but stays in _seen.  (The HTTP scrapers
\* retry only after an httpx.HTTPError, the others after any exception.)
GivesUp(r, j) == tries[r][j] >= Retries(r)

FetchRaises(r, j) ==
    /\ pc[r][j] = "fetching"
    /\ pc' = [pc EXCEPT ![r][j] = IF GivesUp(r, j) THEN "failed" ELSE "sleeping"]
    /\ read' = [read EXCEPT ![r] = 0]
    /\ lost' = [lost EXCEPT ![r] = @ \union Returned(r)]
    /\ items' = [items EXCEPT ![r] = {}]
    /\ UNCHANGED <<kind, tries, seen>>

\* Another exception leaves scrape() of an HTTP scraper at once, e.g. from the
\* decoding of the answer or from a post without an id.
ScrapeRaises(r) ==
    /\ kind[r] \in {"http", "html"} /\ pc[r][1] = "fetching"
    /\ pc' = [pc EXCEPT ![r][1] = "failed"]
    /\ UNCHANGED <<kind, tries, scrapeVars>>

\* playwright is not installed: None without an attempt.
NotInstalled(r) ==
    /\ kind[r] = "browser" /\ pc[r][1] = "waiting"
    /\ pc' = [pc EXCEPT ![r][1] = "failed"]
    /\ UNCHANGED <<kind, tries, scrapeVars>>

\* gather() has every result: the request is answered, with 200 and one entry
\* per record, or with the items of the scrape.
Answer(r) ==
    /\ kind[r] # "none"
    /\ \A j \in Jobs : pc[r][j] \in Settled
    /\ kind' = [kind EXCEPT ![r] = "none"]
    /\ UNCHANGED <<pc, tries, scrapeVars>>

\* The request is cancelled: gather cancels its jobs, which release the
\* semaphore.
Cancel(r) ==
    /\ kind[r] # "none"
    /\ kind' = [kind EXCEPT ![r] = "none"]
    /\ pc' = [pc EXCEPT ![r] = [j \in Jobs |-> "absent"]]
    /\ UNCHANGED <<tries, scrapeVars>>

JobStep(r, j) ==
    \/ Acquire(r, j) \/ Wake(r, j) \/ FetchReturns(r, j) \/ FetchRaises(r, j)
    \/ j = 1 /\ (ScrapeReturns(r) \/ ScrapeRaises(r))
    \/ j = 1 /\ (NotInstalled(r) \/ ReadItem(r) \/ PageDone(r))

Next ==
    \E r \in Requests :
        \/ \E n \in Jobs : \E found \in SUBSET (1..n) : Enrich(r, n, found)
        \/ \E k \in Scrapers : Scrape(r, k)
        \/ \E j \in Jobs : JobStep(r, j)
        \/ Answer(r)
        \/ Cancel(r)

Spec == Init /\ [][Next]_vars

\* Pauses and attempts end (the clients have timeouts); nobody is bound to
\* send or to cancel a request.
FairSpec ==
    /\ Spec
    /\ \A r \in Requests : WF_vars(Answer(r)) /\ \A j \in Jobs : WF_vars(JobStep(r, j))

-----------------------------------------------------------------------------
TypeOK ==
    /\ kind \in [Requests -> Scrapers \union {"none", "enrich"}]
    /\ pc \in [Requests -> [Jobs -> Settled \union {"waiting", "fetching", "sleeping"}]]
    /\ tries \in [Requests -> [Jobs -> Nat]]
    /\ read \in [Requests -> 0..Len(Page)]
    /\ seen \in [Requests -> SUBSET PageItems]
    /\ items \in [Requests -> SUBSET Places]
    /\ lost \in [Requests -> SUBSET PageItems]

\* A scrape that succeeds returns at most limit items, none of them twice, and
\* leaves nothing out of what it looks at without a cause: an item is lost to
\* a false positive of the filter; or a browser attempt that failed later had
\* read it, so that the retry takes it for a duplicate; or limit items that
\* stand before it on the page are returned.
ScrapeComplete ==
    /\ TypeOK
    /\ \A r \in Requests : pc[r][1] = "ok" /\ kind[r] \in Scrapers =>
          /\ Cardinality(items[r]) <= PageLimit
          /\ \A i, j \in items[r] : Page[i] = Page[j] => i = j
          /\ Returned(r) \intersect lost[r] = {}
          /\ \A p \in Considered(r) :
                \/ Page[p] \in Returned(r) \union lost[r]
                \/ Cardinality(items[r]) = PageLimit /\ \A i \in items[r] : i < p

\* Every request is answered or cancelled, however long its jobs back off
\* while others wait for the semaphore.
RequestsAnswered == \A r \in Requests : kind[r] # "none" ~> kind[r] = "none"
=============================================================================
