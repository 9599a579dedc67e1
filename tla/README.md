# A specification of mathsearch in TLA+

mathsearch keeps a collection of formulas (each entry has a left-hand and a
right-hand side) in one SQLite file and searches it by exact structure, by
similar structure and by facet. This directory specifies the program in TLA+:
the modules translate the Go code under `src/`, TLC checks them on small
instances, and TLAPS proves the theorems in the `*Proofs` modules for every
value of the constants.

Run a configuration with `tlc -config shared_file.cfg MCMathSearch`, check the
proofs with `tlapm MathSearchProofs.tla`. `PROJECT.json` lists the runs, says
which lines of the source each definition translates, and lists the hazards of
the code and the findings.

## 1. The system

| part | code | state | operations |
|---|---|---|---|
| store: tables | `store/store.go` | tables `formulas`, `formula_fts`, `facets`, `meta`; SQLite's writer lock | `Open`, `Stale`, `Reset`, `Upsert`, `Ingester.Add/Commit/Rollback` |
| store: queries | `store/store.go` | none of its own | `Exact`, `Fuzzy`, `Facets`, `Duplicates`, with `collapse` and `fillIdentities` |
| store: proofs | `store/store.go` | table `proofs` | `SetProof`, `Proof` |
| ingest | `cmd/mathsearch/main.go` | position in the corpus, formulas in the open batch | `cmdIngest` |
| search, dedup | `cmd/mathsearch/main.go` | none | `cmdSearch`, `cmdDedup` |
| HTTP server | `cmd/mathsearch/serve.go` | requests in progress | `handleAddFormula`, `handleSearch`, `handleFacets`, `handleGetProof`, `handlePutProof`, ... |
| rate limiter | `auth/ratelimit.go` | map of buckets, their limiters, time of the last sweep | `Middleware`, `bucketFor` |
| authentication | `auth/auth.go` | users (read at start); tokens live in the clients | `Annotate`, `Require`, `Login`, `Issue` |
| social login | `auth/oauth.go`, `serve.go` | state cookie in the browser | redirect, callback |
| feature extraction | `feature/feature.go` | none (pure) | `Parse`, `Tokens`, `Facets`, `Jaccard` |
| LaTeX printer | `latexfmt/` | none (pure) | `LaTeX`, `Identity` |
| configuration | `config/config.go` | none after start | `Load`, defaults |
| web page | `cmd/mathsearch/index.html` | selected facets; what is displayed of the filter and of the searches | `refreshFacets`, `search` |

**How they interact.** Every command and every server is a process of its own
that opens the same file; they share nothing but its tables. SQLite gives each
transaction the writer lock for itself and each SELECT the tables as they were
last committed. Inside a server, requests run concurrently; they meet in the
store's connection pool and in the limiter's map, which a mutex protects.
Requests pass the limiter (after `Annotate` has read their token), then the
gate, then a handler. Both writers derive what they store (canonical form,
signature, feature document, facets) with the `go-canonical` they were built
with, and `Stale` compares a probe of it with the one recorded in `meta`.

**What is hard.**
* Three tables must agree row by row although a rebuild empties them one
  statement, and one commit, at a time, and other processes may write between.
* `formulas.id` starts again from 1 once the table is empty, so a new formula
  may meet documents and facets of a deleted one under its own id.
* `formula_fts` is contentless: SQLite refuses to delete a stored row of it
  (`DELETE` that matches nothing succeeds). Updates and rebuilds meet this.
* An ingest is killed between two of its batches and run again.
* A POST writes its two sides in two transactions and may fail on the second.
* One answer is put together from several SELECTs while the index changes.
* The limiter hands out its `rate.Limiter` under the mutex and calls it outside,
  drops idle ones, and sees a caller change identity when a token expires.
* The page sends a request for every click and awaits none before the next: answers
  come in any order or not at all, and each draws over what is displayed.
* Formulas are told apart, ranked and displayed by small recursive functions over
  text, where quotes, signs, brackets and numbers beyond an int64 are the edges.
* The server remembers no one who signed in. A browser runs two sign-ins with
  one cookie, a link is opened twice, the provider fails half way, and the server
  is restarted with another configuration while tokens are out.

**What makes each part correct.** The tables: a search never attributes to a
formula what belongs to another, and both ways of searching find the same
formulas. Ingest: what it has read is stored, whatever the batch boundary; it
ends, and leaves no lock behind. The server: what was answered 200 is stored and
stays. Access: whoever writes has signed in, and a social sign-in ends where it
began. Queries: what is listed carries what was selected; the pieces of an
answer belong together as far as the code can say. The page: what it displays is
what was asked for last, and the next click starts from it. The pure functions: the
reader drops nothing, similarity 1 is identity for all but lone leaves, and two formulas
that differ in value are not printed alike. The limiter: it is a token bucket per
identity, which is forgotten only after a time without an answer.

## 2. The modules

    SearchIndex                        TokenBucket
        ^ implemented by                   ^ implemented by
    MathSearch = Ingest + Server       RateLimiter
        |            both over FormulaStore
    ReadWrite = MathSearch + Queries       WebPage = page + Queries
    FeatureInputs = inputs to Features
    Expressions = FeatureInputs + inputs to LatexPrinter

The proofs, each module over the one it is named after and over those it points to:

    FormulaStoreProofs <- MathSearchProofs <- ReadWriteProofs
    FormulaStoreProofs <- QueriesProofs    <- ReadWriteProofs, WebPageProofs
    RateLimiterProofs, AccessProofs           (by themselves)
    FeatureProofs                             (over FeatureInputs)

* **FormulaStore** is the SQLite file. `db` holds the committed tables as
  relations, `txn` the same tables as the open batch sees them, `lock` the
  process that holds the writer lock, `meta` the probe and the schema version.
  `Upserted` is the transaction of `Add` and of `Upsert`: `NewRowId` is
  `INTEGER PRIMARY KEY` without `AUTOINCREMENT`, `CanUpsert` says whether FTS5
  lets it pass. A canonical form stands for all that is computed from it, so its
  signature (a SHA-256, taken to be injective) and its FTS document are the form
  itself, and its facets are `FacetsOf`. Columns that are only displayed are left
  out. `ContentlessDelete` is FALSE for the table the code declares; with TRUE
  the modules describe the table `Upsert` and `Reset` are written for.
* **Ingest** is `cmdIngest`, a `pc` per process: `open`, `stale`, the five
  statements of `Reset` (each committed alone, so each is an action), `expand`,
  and the loop. `IngestAdd` takes the lock with the first formula of a batch
  (`BEGIN` is deferred), `IngestFlush` commits; `IngestSkip` passes over a blank
  side or one that does not parse. `IngestCrash` kills the process at any point
  and `IngestStart` runs it again, from the start of a corpus. The files behind
  `expand` are a choice of corpus, or of a path that does not exist.
* **Server** is `cmdServe` and `handleAddFormula`: a request goes through `lhs`,
  `rhs`, `respond` and ends in the status it is answered with. `ServerCrash`
  ends a server and its requests.
* **MathSearch** composes the two and states their properties.
* **SearchIndex** is what the store promises a searcher: two sets, one per way
  of searching, that change together; formulas only come, until all go for good.
* **Queries** is the read side, one action per SELECT. BM25 is an arbitrary order (`UpTo`
  picks the pool), `Score` stands for the Jaccard score, `Shares` for "has a feature token
  in common"; a form the reader of `Features` rejects has no tokens and shares with none.
  `SidesRead` are the sides `entrySides` may return. The order of results is left out,
  except where a limit cuts a list.
* **ReadWrite** runs the readers beside all writers. Any SELECT may fail: that ends a
  request, except in `fillIdentities`, which goes on with the sides it has: all, one or none
  (`FillIdentity`), since `entrySides` skips a row it cannot scan and never asks `rows.Err()`.
  What is shown then is half an identity, although the comments call it "the full identity"
  (store.go:63-65).
* **WebPage** is `index.html` in one browser, over the handlers of `Queries`. A request
  is a reader; `fate` says what the page knows of it. `Refresh` is `refreshFacets` up
  to its `await` and `Render` what follows; `Submit`, `SearchAnswered` and `SearchLost` are
  `search` in the same way. What is displayed is a variable of its own each time:
  `chips` and `shown` for the filter, `results` and `label` for the pane. `hasty` and
  `overlapped` are history: the user picked a facet from an answer that was not the
  newest's, or sent a search while another was out. `Arrive` adds a formula meanwhile;
  rebuilds are in `ReadWrite`.
* **Features** is the package `feature`: the reader (`ReadNode`), the tokens, the facets
  and `Jaccard`. A text is a sequence of characters, a run of letters being one of them,
  so that heads need no spelling (**Texts** has those, and numbers written in digits). An
  FNV hash stands for what was hashed.
* **LatexPrinter** is the package `latexfmt`: `Render` gives the TeX tokens and how
  tightly they bind, as `render` does. Blanks and thin spaces, which show nothing, are
  left out, so a reader of the output has only the other tokens to go by.
* **FeatureInputs** puts inputs to `Features`, one character or one head per step, and
  states what the package is for. A term is the text go-canonical writes for it
  (`Written`): leaves as they are, arguments in brackets with commas between.
* **Expressions** adds formulas and states what the printer is for. What a formula means is a
  number modulo a prime (`Value`): arithmetic is what it is, every other head is some fixed
  polynomial, and two formulas that mean the same have one value.
* **RateLimiter** is `Annotate` with `Middleware`: `FindBucket` is the critical
  section of `bucketFor`, sweep included; `Admit` and `Refuse` are
  `rate.Limiter.Allow`, outside of it. **TokenBucket** is the promise: one bucket per key,
  forgotten only after `QuietTime` without an answer.
* **Access** is sign-in and what it is for: `handleLogin`, `handleOAuthStart` and
  `handleOAuthCallback` with `Identify`, `Require`, and `handlePutProof` behind it;
  and the command `proof -set`, which writes the same table past the gate.
  A token is the claims it carries and the secret it is signed with; nobody makes
  a signature without the secret. `signIn` is what the provider knows, `cookie`
  what a browser keeps; the callback of a sign-in is at the path of its own
  provider, where the configured redirect leads. `Restart` stops the requests in
  progress and reads the configuration anew. POST /api/formulas stands behind the same
  gate; what it does is in `Server`.
* **MC...** modules give the constants their values.

`rate.Limiter`, SQLite and `go-canonical` are not in this repository. They are
modelled from how the code uses them and marked external in `PROJECT.json`.

A writer that does not get the lock either waits or fails: `IngestBusy` and
`PostBusy` are enabled whenever the lock is taken. `Open` sets `busy_timeout` by
a PRAGMA on one connection of the pool, so other connections may fail at once;
the model allows a failure at any moment of the wait.

Operators preceded by "Mutant:" are faulty variants of the definition that
follows them. No specification uses them. Each property is listed in
`PROJECT.json` with a variant that breaks it, to show that it depends on the code.

## 3. The runs

### What holds

| run | properties | what it shows |
|---|---|---|
| `shared_file` | TypeOK, SearchSound, FuzzyComplete, LockHolderActive, FormulasImmutable, IngestEnds, PostsAnswered | two ingests with different engines and a server on one file; every process ends although all wait for one lock |
| `concurrent_posts` | NothingSkipped, AcknowledgedKept, WedgedForever, ImplementsSearchIndex | two requests and an ingest run twice, with corpora that repeat a side or store nothing |
| `replaceable` | SearchSound, NothingSkipped, FacetsAllOrNone | crashes, re-runs and rebuilds of one ingest, with a table that accepts DELETE: rows are replaced and ids reused |
| `readers` | RWTypeOK, HitsCarrySelected, IdentityShowsHit, ExactAlsoFuzzy, CountsAreThere, GroupsWholeOrGone | a reader of any kind, its SELECTs failing or interleaved with an ingest run twice and a request |
| `rate_limiter` | TypeOK, RateBound, MapIsRecent, ImplementsTokenBucket | five requests of callers that share an address, with buckets dropped before they have filled up |
| `access` | TypeOK, WriterWasEntitled, CompletesWhereStarted, ClosedMeansClosed | two social sign-ins in two browsers, a password sign-in, a write and the proof command, with restarts |
| `web_page` | PageTypeOK, ChipsCurrent, ListMatchesChips, NoDeadEnd, PaneIsLastSearch, LabelMatchesLast | a page and three requests, answered in any order, with errors or never |
| `expressions` | NothingDropped, ReadsBack, FoundByItsParts, SameTokensSameTerm, RootFacetsExact, PrintedApart | every small text, pair of terms, exponent and formula |

Some properties hold *because* the table refuses DELETE: in this code a formula
is written once (`FormulasImmutable`) and an index that has been emptied stays
empty (`WedgedForever`). So `AcknowledgedKept`, `IdentityShowsHit`,
`GroupsWholeOrGone`, `CountsAreThere` and `ImplementsSearchIndex` describe the program as it is,
not as its comments mean it. `SearchSound`, `FacetsAllOrNone` and `NothingSkipped` do not
depend on it, which is what `replaceable` is for; the proofs of the first two cover both
tables and any number of processes, that of `NothingSkipped` any number of processes for
the table as declared and one ingest alone for either table.

### Where the code does not do what it says

Each of these runs checks one statement quoted from a comment of the code, and
ends with a behaviour that contradicts it. `PROJECT.json`, "findings", has the
quotations.

| run | statement | what happens |
|---|---|---|
| `upsert_replaces` | Upsert inserts or replaces | the second POST of a side is answered 500: its FTS row cannot be deleted |
| `reset_drops_all` | Reset drops all formulas; the filter counts formulas | `formulas` is emptied, then `DELETE FROM formula_fts` fails; every later run fails there too, and with facets selected the filter counts what is gone |
| `facets_lost` | the filter counts the formulas carrying all selected facets | a POST between two statements of Reset keeps its formula and loses its facets to `DELETE FROM facets` |
| `latex_correct` | the identity displayed is always complete and correct | log_a(2!) and (log_a 2)! are both printed `\log_{a}2!` |

More consequences of the same design were seen while modelling and have no run of
their own.

*The store.* A server built with another engine adds its forms to a store that stays fresh:
`Upsert` does not look at the probe. A store created by a server and filled by POST has no
probe, since only `Reset` stamps one; the first ingest takes it for empty and deletes what
it holds. An ingest that crashed after a batch is refused when it is run again, by the same
error as in `upsert_replaces`. `Facets` counts before it lists and may list more than its
limit when a batch is committed in between. `Duplicates` may report a group without
occurrences when a rebuild starts between its SELECTs (`GroupsWholeOrGone` says that this is
all that can happen). An identity is shown in half, or not at all, when a read of its sides
breaks off (`IdentityShowsHit` says that what is shown is still of the hit).

*The limiter.* "A token-bucket rate limiter" (src/README.md:94) it is only where the burst is no more
than what is earned in ten minutes, which nothing checks (`config.validate` does not look at
`rate_limit`): beyond that an idle caller is given a full bucket too early. `RateBound` says
how much that can be, `TokenBucket` when it can happen.

*The page.* Answers of the filter are drawn as they come, with the chips of the moment: an
older list may stand under newer chips, until the newest answer is drawn, and stays there
if that one came first (`ListMatchesChips` is about the newest only). Who picks a facet twice,
from a list that is out of date or after a refresh that failed, selects it twice, and the
count drops to zero: `COUNT(DISTINCT facet)` is never the length of a list with a repetition
(`CountsAreThere`, its last part); `NoDeadEnd` says that nothing else leads there.
Two searches that overlap leave two pairs of sections in one pane, and one that fails late
wipes what a newer one showed; `PaneIsLastSearch` excludes overlaps for that reason.

*The printer.* `PrintedApart` leaves aside five forms that are printed without the brackets
they need (`Bare`): a negative number, or a logarithm with a base, under a power or a
factorial; a product with a sign inside a product, which reads as a difference; a sum or
a product sign that is not the last factor, which takes the rest into it. Not in the instance,
but visible in the code: a power of a power is printed with two superscripts, which TeX
refuses, although "output is always valid" (latex.go:8); names collide (`E` and a variable
`e`, `Catalan` and `G`). The comment at feature.go:297 writes a derivative as
`Construct[Construct[Derivative, ..], ..]`; a `Derivative` without arguments is a leaf, and the
code below it looks for an operator of that name.

### Bounds, and why they are enough

* `MaxRuns`, the times one ingest is started: two are needed for a crash and its
  re-run; three in `replaceable` for a rebuild after that.
* `BatchSize` (1000 in the code) is 2 with three formulas to store, so that a
  batch fills, another is partial, and a crash or an error can fall in each; 1
  where only the interleaving of commits matters.
* Corpora and bodies are enumerated: a blank side, a side that does not parse,
  two sides with one text, one side named twice, an entry without an id. Two
  engines disagree about one text and agree about another.
* Two entries and two sides give four keys, as many ids as there are rows to
  mix up. One request less in a run with two ingests, and the reverse.
* `FuzzyLimit = 1` and `CandidatePool = 2` in `readers`: of five canonical forms two tie at
  the highest score, as lone numbers do, and one has no tokens, as a form that is not read; so
  a list and a pool can be full of others. `DupLimit = 1` cuts two shared signatures.
* In `facets_lost` and `reset_drops_all` one run of an ingest and one request are enough.
* `MaxTime` bounds the clock and `MaxPause` the ticks a request spends between the mutex and
  `Allow`. Time runs to five times `IdleLimit`: a bucket is used, dropped, made anew and
  dropped again. `ConfigBurst = 2` is more than a key earns in `QuietTime`, 1 here, so that
  a bucket is dropped before it has filled up: without the last term of `Allowance` TLC
  finds `RateBound` violated. One tick is the time in which a key earns `Rate` tokens, so
  the fractions of a token are not modelled. Requests and only they are symmetric; no
  liveness is checked under symmetry.
* In `access`, a token lives two ticks (`TTL`), a cookie one (`CookieAge`), and
  time runs to 2 (`MaxTime`): tokens and cookies expire, at their boundary too,
  and the server can be restarted in both directions while a token lives. A restart takes a
  tick. One password is found right (`MaxLogins`). Two sign-ins, two browsers and two
  callbacks are what it takes to lose a cookie and to open a link twice; each of
  the three sets is symmetric. One configuration is closed, without a secret and with
  one provider; the other is open with both.
* In `web_page`, three requests of either kind are what it takes for the answer of the first
  to overtake that of the second while a third is out. Two facets, one of them in all
  formulas, and a list limit of 1 (`FuzzyLimit`): a selection has a list, or only a count. The
  requests are symmetric. One formula arrives.
  Each entry has one side there: identities read in part are the business of `readers`.
* In `expressions`, the leaves are two numbers, a variable, a name that is also a head, and
  a quoted string with delimiters; one head is nested twice. Five characters (`MaxText`) are
  a head with two arguments, or a string with a delimiter in it; two heads (`MaxTerm`, and
  the formulas) are an operand and its context, all that a bracket depends on. `MaxInt = 11`
  stands for the largest int64 and exponents reach 13, beyond it on both sides. `Modulus =
  211` keeps the values of different formulas apart. Some names, heads and facets of the
  tables stand for all.
* `CHECK_DEADLOCK FALSE` everywhere: processes end, requests and ticks run
  out, and then the system rightly stops.

A bucket that is dropped was last seen more than `IdleLimit` ago and last used at most
`MaxPause` after that, so its key has had no answer for `QuietTime = IdleLimit + 1 - MaxPause`
and has earned `Rate * QuietTime` tokens. If that fills the bucket, `Gain` is 0 and dropping it
changes nothing: so with the default configuration (a burst of 20 and 60 requests a minute
against ten minutes). If not, as with a burst of 20 and one request a minute, the bucket made
anew holds up to `Gain` tokens more than were earned, once in every `QuietTime`.

### Fairness

`FairSpec` assumes weak fairness of the steps of each process that runs: the
operating system and the Go runtime schedule it, and a step that waits for the
lock ends in the busy error at the latest. Each process is weakly fair by itself, not each
of its actions, so that no outcome of a step is promised. Nothing obliges a
process to start or to crash, and no lock is promised to anyone: a request may lose
every race and be answered 500, which is an answer.

## 4. What is proved

| module | theorem | states | assumes, beyond the assumptions on the constants |
|---|---|---|---|
| `MathSearchProofs` | `TypeCorrect` | `TypeOK` | |
| | `SearchIsSound` | `SearchSound` | |
| | `LockIsHeldByAnActiveIngest` | `LockHolderActive` | |
| | `FacetsAreAllOrNone` | `FacetsAllOrNone` | |
| | `FacetsAreComplete` | `FacetsComplete` | `SoleWriter` |
| | `SoleIngestSkipsNothing` | `NothingSkipped` | `SoleWriter` |
| | `FuzzyIsComplete` | `FuzzyComplete` | `ContentlessDelete = FALSE` |
| | `FormulasAreImmutable` | `FormulasImmutable` | the same |
| | `WedgedStays` | `WedgedForever` | the same |
| | `RefinesSearchIndex` | `ImplementsSearchIndex` | the same |
| | `AcknowledgedStaysKept` | `AcknowledgedKept` | the same |
| | `NothingIsSkipped` | `NothingSkipped` | the same |
| `ReadWriteProofs` | `ReadersTypeCorrect` | `RWTypeOK` | |
| | `HitsCarryWhatWasSelected` | `HitsCarrySelected` | |
| | `IdentityIsOfTheHit` | `IdentityShowsHit` | `ContentlessDelete = FALSE` |
| | `GroupsAreWholeOrGone` | `GroupsWholeOrGone` | the same |
| | `CountsAreOfFormulas` | `CountsAreThere` | the same |
| | `ExactIsAlsoFuzzy` | `ExactAlsoFuzzy` | the same |
| `RateLimiterProofs` | `LimiterTypeCorrect` | `TypeOK` | |
| | `MapStaysRecent` | `MapIsRecent` | |
| | `LimiterStaysInMap` | `HeldInv` | `MaxPause <= IdleLimit` |
| | `RateIsBounded` | `RateBound` | `MaxPause <= IdleLimit` |
| | `LimiterIsTokenBucket` | `ImplementsTokenBucket` | `MaxPause <= IdleLimit` |
| `AccessProofs` | `AccessTypeCorrect` | `TypeOK` | |
| | `WritersWereEntitled` | `WriterWasEntitled` | |
| | `SignInsCompleteWhereStarted` | `CompletesWhereStarted` | |
| | `ClosedIsClosed` | `ClosedMeansClosed` | |
| `WebPageProofs` | `ChipsAreCurrent` | `ChipsCurrent` | |
| | `NewestIsForTheChips` | `ListIsForChips` | |
| | `PaneShowsTheLastSearch` | `PaneIsLastSearch` | |
| | `LabelIsOfTheLast` | `LabelMatchesLast` | |
| | `PageTypeCorrect` | `PageTypeOK` | `SoundStart` |
| | `ListIsOfTheChips` | `ListMatchesChips` | `SoundStart` |
| | `PicksNeverDeadEnd` | `NoDeadEnd` | `SoundStart`, `FacetsHaveDocs(InitialTables)`, `ContentlessDelete = FALSE` |
| `FeatureProofs` | `NothingDroppedHolds` | `NothingDropped` | |
| | `ReadsBackHolds` | `ReadsBack` | |
| | `FoundByItsPartsHolds` | `FoundByItsParts` | |
| | `SameTokensSameTermHolds` | `SameTokensSameTerm` | |
| | `RootFacetsExactHolds` | `RootFacetsExact` | |
| | `AllWrittenTerms` | the three about terms, for every term | |

Each holds for any number of processes, requests, readers, entries, engines, keys and
browsers, any corpora, batch sizes, limits and numbers of runs; those of `FeatureProofs` for
any alphabet, texts of any length, terms of any depth, numbers of any size and any `MaxInt`.

**What is assumed.** The assumptions on the constants are named where the constants are
declared (`StoreAssumption`, `IngestAssumption`, `QueryAssumption`, ...). The rest is in
the last column:

* `ContentlessDelete = FALSE` is the table the code declares. Without it the
  theorems are false: a row can be replaced, and what was acknowledged, counted or
  listed with it.
* `SoleWriter`: one ingest and no server, run any number of times. With either table it
  is what `FacetsAreComplete` needs: with a POST between two statements of Reset the property
  fails (`facets_lost`), and `FacetsAreAllOrNone` says what is left of it with any writers.
* `MaxPause <= IdleLimit`: a request takes less time between the mutex and `Allow` than a
  bucket stays unused, ten minutes. `MaxPause` is a bound of the model, and no configuration
  is excluded by it.
* `QueryAssumption` says of `Shares` and `Score`, which stand for functions of `Features`: a form
  that shares a token with any shares one with itself, and none scores higher with it than
  itself. Others may score as high. A Jaccard similarity is at most 1, and is 1 with itself.
* What `FeatureProofs` takes for granted of go-canonical and the tables is in
  `FeatureInputs`: letters are no delimiters, digits or marks (`WordAssumption`); the leaves
  are names, quoted strings and atoms without delimiters, the heads are words
  (`TermAssumption`); no head or leaf alone has a facet of a root (`FacetAssumption`, as the
  tables of feature.go have it). That FNV hashes and the signature do not collide is in the
  model, not in an assumption.
* `SoundStart` and `FacetsHaveDocs`: the page is opened on tables that agree. A database
  just created is such a start (`FirstStart`), and upserts keep it.

### The store and its writers

The argument of `MathSearchProofs` has three layers.

1. *Control.* `ControlInv` is inductive by itself: the
   types of everything but the tables, who holds the lock, and what a handler
   knows about its body once it has passed the first check.
2. *Steps of the tables.* Under `ControlInv` every step of the system is a
   `StoreStep`: it leaves the tables alone, empties one of them, upserts one formula into
   `db` or `txn`, commits `txn` or discards it (`NextIsStoreStep`). From here on there are
   a few cases instead of thirty.
3. *Tables.* `TablesInv` says of one set of tables that they agree and, the
   strengthening, that the ids of the formulas are `1..n` for some n (`Dense`).
   It gives `Max` a value, so that the next id is `n + 1` and belongs to no
   formula, whatever the number of rows; and it makes 1 the first id after a
   rebuild. `UpsertKeepsTablesInv` is the heart: the document and facets found
   under the id are cleared before new ones are inserted, which keeps those of
   deleted formulas away from the formula that takes over their id.

For the write-once theorems `OnceInv` adds that the documents are exactly those
of the formulas or, once the formulas are gone, include one under id 1, where
the next upsert must fail (`OneDocEach`); and that an open batch only extends the committed
tables (`BatchExtends`). The writer lock is what makes the second one inductive: nobody else
commits while a batch is open. The refinement maps `exact` to the
formulas and `fuzzy` to their join with the documents; `ViewsMatch` shows them
equal, then an upsert or a commit is `Publish`, `DELETE FROM formulas` is `Drop`,
and everything else stutters.

`AcknowledgedKept` and `NothingSkipped` follow what was written forward. A request past a
side has it stored (`AckInv`, from the step that stores it, not from the answer), and an
ingest in its loop, or at its end, has stored, in the tables as it sees them, all it has
read (`ReadInv`); from then on no step replaces a row, and one that empties the formulas
leaves the store wedged. The rows an open batch has added become visible to all at
its commit; one that is rolled back ends its run. For an ingest alone `SoleRead` says the same
except for what a later item supersedes, and `FacetsInv` that the formulas are gone
before their facets go.

### Readers beside writers

A reader changes no table and the writers do not look at a reader, so `Inv` and `OnceInv` carry
over (`RWInvStep`). Every action of a reader is one of nine steps of its record
(`ReaderStep`, `QueryNextIsReaderStep` in `QueriesProofs`), and `ReaderInv` says what a reader can
have collected where it stands. Each theorem then follows one kind of thing through those nine
steps and through the three things that happen to the tables (they grow, they are emptied,
they stay):

* `HitsCarrySelected`: `FilterCarries` shows that the ids `HAVING COUNT(DISTINCT facet) =
  len(selected)` finds carry every facet selected, by an injection from the rows counted to the
  facets selected; `TablesInv` makes the facets of an id those of the formula listed. It
  does not depend on what formula_fts accepts.
* `IdentityShowsHit`: the formula of a hit stays or the store is wedged (`HitsInv`), so whatever
  sides a later SELECT returns are those stored under its entry, its own among them unchanged
  (`FilledKeepsText`), and they stay stored (`TextsStayKept`).
* `GroupsWholeOrGone`: entries of a signature only come (`MoreEntriesShare`) until all go
  (`GroupsInv`).
* `CountsAreThere`: the rows counted for a selection inject into the formulas that carry it
  (`TotalIsThere`, `RefinementIsThere`), which needs `LiveInv`, that the facets are those of
  formulas there are or no formula is left; and carriers only come (`StaysThere`), so a count
  taken from one snapshot is a lower bound in all later ones, until all go. A selection with
  a repetition has fewer distinct facets than its length (`TwiceIsNothing`).
* `ExactAlsoFuzzy`: what the exact SELECT found is, if it has tokens, a candidate of the fuzzy
  one, in its pool unless there are more candidates than the pool holds, and then listed
  unless the list is full of forms that score no less (`FuzzyFindsExact`, `AnswersInv`).

### The limiter

`BaseInv` needs no assumption: types, times that lie in the past (`ClockInv`), buckets and requests
that name limiters there are (`NamesInv`), and uses within an idle limit of the last sweep
(`SweepInv`), which gives `MapIsRecent`. `HoldInv` needs `MaxPause <= IdleLimit`: a limiter
serves one key (`OwnerInv`), the one a request holds is still the one in the map (`HeldInv`), and
no key was answered much later than its bucket was seen (`AnsweredInv`), so a bucket that is swept
is of a key that has had no answer for `QuietTime` (`IdleIsQuiet`). Dropping a bucket is filling
it, since a key without one stands for a full one (`Tokens`, `TokensFound`).

For `RateBound`, `EarnedInv` counts, from every past moment on, what was admitted and what
would be admitted now; the bound alone is not inductive, since it does not say what is left in
the bucket. Where a bucket is filled (`QuietIsEarned`), the bound for the window that ended
`QuietTime` before covers all that was admitted, and the allowance has grown by a whole
`Burst` since (`AllowanceGrows`). With `Burst <= Rate * QuietTime` the allowance is that of a
plain token bucket (`NothingGained`). The refinement maps a token bucket to `Tokens` and the
answers to those given; `Admit` and `Refuse` are its `Allow`, and `FindBucket` is `Forget`,
for the keys whose buckets it drops.

### Access

The four of `AccessProofs` hold for any lifetimes, under `AccessAssumption`, which contains what
`config.Load` checks. Their invariant `IInv` adds to the types four parts. Every cookie is
of a sign-in started in its browser (`CookieInv`), so a callback past the state check
belongs to a sign-in of its own browser that has come back, with the person who
authorised it (`CallbackInv`); the sign-in can then only be spent (`SignInStep`).
Every token has an origin (`IssuedInv`), a password or a completed callback, under the secret
that signed it and with the time until which it lives, and origins stay (`OriginsStay`); the
history of a callback, when it was answered and under which secret, is what `Issue` wrote
into its token. What `Parse` checks of a token then says the same of its sign-in (`WriterStep`),
and a restart, which changes the secret, ends the requests in progress. A request in its
handler means that the server is open (`HandlerInv`), which only `Restart` changes, and it
ends the request.

### The page

The first four of `WebPageProofs` hold whatever the handlers answer; what they use of
`PageAssumption` is that `NoReader` is no request. Their `IInv` says of the newest refresh
that it asks for the facets of the moment (`NewestInv`), so that what is displayed once it
has arrived belongs to them; and of the searches that, until two overlap, only the last can
be pending and the pane is empty until it is settled (`OverlapInv`). `OtherwiseKeepsFilter`
and `StaysKeepsSearch` carry both over the steps of the handlers and of the store, which
touch neither.

The other three look into the answers. `HandlersInv` is `ReaderInv` again, with tables that
agree and with what a handler has listed so far (`CarriesSelected`); a request that is not
sent has collected nothing (`UnsentInv`). With `NewestInv` this is `ListMatchesChips`.
`NoDeadEnd` needs three more parts (`OpenInv`). A selection *leads* if it has no repetition
and some formula carries all of it; every refinement an answer offers leads on from the
filter it was asked for (`OfferInv`, from `RefinementLeads`), and stays so, as an upsert
that formula_fts lets pass takes no facet away (`DocsInv`, `UpsertOnlyAddsFacets`). So do
the facets themselves (`WayInv`), as long as each was picked from the newest answer, which
by `NewestInv` was asked for them; one that is dropped leaves fewer to carry, and no
repetition (`WithoutLeavesOthers`). Only that there is no repetition makes the count of the
`HAVING` clause reachable.

`WithoutLeavesOthers` is about a recursive definition. Its induction is spelt out from
`NatLessThanWellFounded`: a set of numbers has a least one (`LeastOf`), so that a set with 0 which
contains the next number of each has them all (`UpTheNumbers`). `Without` is `facets.filter` as
a recursive function for that reason: the prover knows nothing of `SelectSeq`.

### The reader, tokens and facets

`Features` has no RECURSIVE operator: the loop of `node`, the subterms of a term, the digits of a
number are recursive functions, and the theorems are about `FeatureSpec`, which is `Expressions`
without the printer. The prover takes no recursive function for granted, so each is first
shown to be defined and to satisfy its own equation (`ReadArgsIs`, `WithinIs`, `ListedIs`,
`DecimalIs`, `ValueIs`, `DenseIs`), by the induction over numbers described above; so is
everything about terms and lists, by the length of a text, the number of arguments or the depth.

* *What is written is read.* A term `Reads` if wherever its text stands, with a comma, a
  closing bracket or the end behind it, the reader reads that term and stops right there.
  Said of one place only, it would not be inductive: arguments stand inside other texts.
  Leaves read (`LeafReads`: a name ends where letters and digits do, a string at its second
  quote, an atom at a delimiter); a list of arguments that read is read up to its bracket
  (`OneArgument`, `OneMoreArgument`), and so is a head around it (`TermReads`).
* *Fingerprints identify.* A term is `Canonical` if a finite set holds all that is in it, every
  member reads, and every other one has a shorter text (`Parts`). So each of two terms with
  the same tokens has its text among the fingerprints of the other, none of which is longer
  than that one's own (`FingerprintsOf`): the texts are one, and read as one term.
  That there are finitely many tokens makes equal cardinalities mean equal sets. A leaf has no
  fingerprint (`LeafToken`, `HasFingerprint`): its one token is its class, so the leaves of one
  class, all numbers for one, have similarity 1, and nothing else has it with them.
* *Any number of arguments.* `TermsOver` puts at most two arguments under a head, one of them
  a leaf, which keeps the instance small. `HeadsKeepCanonical` is about any list of arguments, and
  `AllWrittenTerms` draws the conclusion: for every term, whatever its shape.
* *Nothing is dropped.* Here the text is arbitrary, and the induction is over what is left
  of it (`ReadingIsFaithful`): whatever the reader returns from a position is, blanks aside,
  written out in the chunk of the text it has passed over (`NodeIsFaithful`,
  `ArgsAreFaithful`); leaving out the blanks of a chunk and joining two chunks can be done
  in either order (`DenseConcat`, `Chunks`).
* *Exponents.* `DecimalReadBack` shows that the value of the digits of n is n, `NumberRead` that
  `ParseInt` finds it, sign included, exactly if it fits, and `RationalRead` that the bar is
  found; then the facets are those of `ExponentFacets`.

**Only model-checked.** `IngestEnds` and `PostsAnswered`: liveness under fairness, and
ENABLED, are beyond this prover. `PrintedApart`: the printer and `Value` are RECURSIVE operators,
which the prover does not unfold, and the property is about values modulo one prime, which keep
the formulas of the instance apart but not all formulas there are.

## 5. What is not modelled, and what comes next

* What a stored proof is a proof of: it is kept by entry id across rebuilds and
  updates, and nothing in the code ties it to the sides stored under the id.
* What ties the pure functions to the rest: `FacetsOf`, `Shares` and `Score` of the store's
  modules are constants, any functions of the canonical form; `Features` says which.
* How a hit is laid out in the page, the tabs, the copy buttons and the count in the
  header; the contents of the tables of names, heads and facets.
* Reading files and JSON, formatting of answers, HTML, the OpenAPI text,
  statistics: I/O or constants.
* `bcrypt`, the signature of tokens, OAuth2, SQLite's own correctness: external.

Plan, in this order, with what is done marked:

1. [done] `FormulaStore`, `Ingest`, `Server`, `MathSearch`, `SearchIndex`;
   their runs; type correctness, soundness, the lock, write-once and refinement proved.
2. [done] `Queries`, `ReadWrite`; `RateLimiter`, `TokenBucket`.
3. [done] `Access` with its theorems.
4. [done] `WebPage` over `Queries`, with its theorems.
5. [done] `Features`, `LatexPrinter`, `Expressions`. Left: `Ranking` (the order of
   results) and the layering of the configuration, which validates a few numbers.
6. [done] The proofs: every invariant, action property and refinement the passing runs
   check but `PrintedApart`. Left: `LatexPrinter` with recursive functions in place of
   recursive operators, which would put lemmas about single heads within reach; and
   `SearchIndex` for a reader, that is, an abstract answer that `ReadWrite` implements.
