# Verification of subserver

subserver answers subscription requests of VPN clients. It asks the Remnawave
panel for the user and the raw subscription, fills a template for the client's
core (Xray or Mihomo), decides on the headers of the answer and sends both. An
administrator edits templates and header overrides on a page; the server keeps
both in SQLite and in memory.

This directory holds TLA+ modules translated from the Go and JavaScript source,
TLC configurations that check them on small instances, and proofs, checked by
TLAPS, of the most important properties for every value of the constants.

## Inventory

| component | source | state it keeps | operations |
|---|---|---|---|
| Rate limiter | `internal/handler/ratelimit.go` | a map of buckets, the time of the next sweep, one mutex | `Allow` |
| Administrator's settings | `main.go:78-126`, `internal/config/store.go`, `builder.go`, `internal/adminstate`, POSTs of `internal/admin/server.go` | a SQLite row and a copy in memory of the templates and of the header overrides | start (bootstrap, load, complete Mihomo overrides), save a setting |
| Panel client and cache | `internal/panel` | a map of answers with expiry times, one RW mutex | lookups through and past the cache |
| Config builder, Xray | `internal/config/builder.go`, `templateset.go` | none of its own; a random choice | choose a template, randomize groups, put the user's id in |
| Header pipeline | `internal/subscription/headers.go`, `internal/adminstate/headers.go`, `internal/handler/subscription.go` | none; four loops over maps | panel's headers, fallback for the userinfo, selection and application of overrides |
| Admin page, configs | `admin/app.js` | the page's copy of all lists, an index, an editor, a modal | select, edit, move, save, delete, answers of POSTs |
| Subscription requests | `internal/handler` | none of its own | route, limit, look up twice, build, answer |
| Admin API | `internal/admin/server.go` | none of its own | token, limits, GET and POST of configs and headers, fetch of actual headers |
| Templates library | `internal/config/core.go`, `json.go`, `templateset.go` | none | parsing, cloning, legacy formats |
| Config builder, Mihomo | `internal/config/mihomo.go`, `builder.go` | none of its own; names counted and rules kept during a call | parse entries, merge standalone profiles, fill in the user |
| Conversion of Xray configs to Mihomo | `internal/config/mihomo.go:357-892` | none | called by a test only (`builder_test.go:715`) |
| Admin page, headers | `admin/app.js` | rows for every scope, the headers of the user fetched last | edit rows and userinfo parameters, fetch a user's headers, save, reload |
| Start, migrations, shutdown | `main.go`, `internal/db` | schema table | migrate, listen, shut down |
| HTTP and JSON helpers | `internal/httpx`, `internal/jsonutil` | trusted networks | client address, conversions |

How they interact. A request of a client passes the limiter, then makes two
lookups in the panel (each through the cache), then reads the templates in
memory, then the overrides in memory: four moments at which state shared with
other requests is read, without a lock that spans them. A POST of the
administrator writes a row, then the copy that requests read. The page holds a
third copy, which every save sends as a whole. A start of the process rebuilds
the copies from the rows, and rows that are missing from files.

What is hard, and what would make each component correct:

- **Limiter.** Callers read the clock before they wait for the mutex, so they are
  charged out of order; the sweep forgets clients. No client may get more than the
  burst plus the rate; forgetting must give nothing away; abandoned entries must
  make room.
- **Settings.** Row and copy are written in two steps, POSTs run at once, writes
  fail or are committed although they were reported as failed, the process dies
  between any two steps. What is served must be saved before; what was saved must
  survive; a start must serve the newest rows and bring nothing old back.
- **Cache.** A lookup is six steps under three locks; slow answers overtake newer
  ones. Data must not be older than a life and a fetch; good entries must stay.
- **Xray builder.** Maps are ranged over in any order, keys may be two spellings
  of one group, groups may overlap. The answer must have one outbound per group,
  unique tags, and the user's id in the right places.
- **Mihomo builder.** Names of several profiles are numbered apart by a counter over
  all of them, rules are dropped, doubled ones left out, the rest put before
  `MATCH,PROXY`. A name must mean one proxy, and what a profile keeps off the proxies
  must stay off them.
- **Requests.** A handler may wait for the panel twice as long as the server lets it
  answer and longer than an orderly stop waits for it, and answers from two cache
  entries of different age. A config must not be older than its two lookups explain,
  a "user not found" must be true, and a request that is lost must not be lost again.
- **Headers.** Names differ only in case, loops run in any order, values may be
  illegal. The server's own headers must be protected and the rest must not depend
  on the order.
- **Page.** Answers come while the administrator goes on. What he edits must be
  what a save replaces, and a save must not touch what he did not change. In the
  editor of headers, what a row shows is put together by the page and what a
  subscriber gets by the server: the two must agree.
- **Liveness.** After faults the process must serve again.

## Modules

| module | models | checked by | proofs |
|---|---|---|---|
| `LeakyBucket` | what the limiter promises: one bucket per client that never forgets | as the property of a run | |
| `RateLimiter` | `NewRateLimiter`, `Allow`, for any number of callers | `MCRateLimiter` | `RateLimiterProofs` |
| `AdminState` | starts, POSTs, crashes, both settings | `MCAdminState` | `AdminStateProofs` |
| `PanelCache` | `Client.get`, `Cache.Get`, `Cache.Set` | `MCPanelCache` | `PanelCacheProofs` |
| `XrayBuild` | `Builder.Build` with the `subserver` directives | `MCBuilder` | `BuilderProofs` |
| `MihomoProfiles` | what a Mihomo template is made of: names, rules, entries | `MCBuilder` | |
| `MihomoBuild` | `BuildMihomo` and the merge of profiles | `MCBuilder` | `BuilderProofs` |
| `Builder` | one call for either core: composes `XrayBuild` and `MihomoBuild` | `MCBuilder` | `BuilderProofs` |
| `Headers` | the headers of an answer, from the panel to the client | `MCHeaders` | `HeadersProofs` |
| `SubscriptionRequest` | the requests of one subscriber with limiter, lookups, cache, panel, stop and restart | `MCSubscriptionRequest` | `SubscriptionRequestProofs` |
| `AdminPage` | the config editor of the page with the POSTs it sends | `MCAdminPage` | `AdminPageProofs` |
| `HeaderEditor` | the header editor of the page, its POST, and what a saved override makes of a header | `MCHeaderEditor` | `HeaderEditorProofs` |

A definition named `X_Variant`, commented "Mutation of X", is a plausible bug in
`X`. No specification uses it; put in the place of `X` it must break a property,
which shows that the property can fail.

### How state and actions correspond to the code

**RateLimiter.** `clients` is the map, `nextCleanup` the field; `asking`, `now` and
`reply` are the callers' locals. `ReadClock` is line 54 and everything before the
mutex; `Limit`, `Grant` and `RefuseNewcomer` are the section under the mutex with
its three returns, each with the sweep of lines 58-66. Tokens are counted in
shares of `1/TicksPerSecond`, so that floating point becomes exact arithmetic.
`life` and `total` are history.

**AdminState.** `disk` is the two rows, `served` the two copies, `boot` the
statement of `main` that is next, `post` the handlers. Each database statement
and each setting of a copy is an action, with its failure beside it: a failure
may leave the row alone or, if `Ambiguous`, have written it (a context that ends
after the commit). `Crash` may come between any two. `commits` is the log of
writes, `before` the POSTs that had ended when a POST began. The libraries are
opaque; of overrides the model keeps which core's are empty, which is what
`EnsureMihomoOverrides` asks.

**PanelCache.** `items` is the cache, `lookup[c]` the locals of one call. `Read`,
`Check`, `Evict`, `Ask`, `Answer`, `Fail` and `Store` are the steps between the locks.
The answer of the panel is the number of changes of the key it shows; `Change` is
the panel's.

**XrayBuild.** One call of `Build`: `Select`, `ParseRandomizeGroups`,
`SelectTargets` (or its failure), `TrimRandomized`, `RenameSelected`,
`Personalize`. Outbounds are a function of their positions, the choice is any.

**MihomoBuild.** One call of `BuildMihomo`. `step`, `profile` and `item` say where its two
loops are, `nameCounts`, `proxies` and `rules` are its locals. A turn of the loop over
proxies is `TakeProxy`, `SkipProxy`, `UnnamedProxy` or `CloneFails`, one over rules
`TakeRule`; `ParseFails`, `ParseOne`, `NotStandalone` and `MergeFails` are the other ways
out. A name is its base and the numbers behind it, so that a profile may write a name
that the counter would give; a rule is the destinations it matches and where it
sends them. `REJECT-DROP` and `PASS` are targets the code does not keep, and count as
proxies; the content of a `RULE-SET` is opaque. `Builder` lets `Builder.Build` choose
one of the two builds; the other one's variables stand still.

**SubscriptionRequest.** `req[r]` is the request of one device: which lookup it is at,
how long it has waited, what it has found. `Hit`, `Ask`, `PanelAnswers`, `Receive`,
`ReceiveNotFound`, `PanelFails`, `Reply` and `Cancel` are the steps of the handler and of
`Client.get`; `cache` and `age` are the subscriber's two entries, which `Forget` may take
away for another subscriber's. Data are counted by how far they lag behind the
panel, so no clock bounds a behaviour. `Stop`, `Drained`, `CutOff`, `Crash` and `Restart`
are the end of `main`. What `RateLimiter`, `PanelCache`, `XrayBuild` and `Headers` have in detail
is one step here.

**Headers.** One call of `handleSubscription` from `BuildHeadersFromRaw` on. A key is
a name and its spelling; `Prepare`, `Override` and `Write` are one turn of the three
loops over maps, in any order, `Select` merges the layers of overrides,
`deleteHeader` and `findHeaderValue` meet any one of several spellings. A userinfo is
the function of parameters it parses to.

**AdminPage.** `sets` is the page's copy, `index`, `editor` and `modal` its locals,
`requests` the POSTs under way, `saved` what the server has. A config has an identity,
which the program does not know: it tells whether the text in the editor is that of
the config a save would replace. Every listener is an action, every POST has an
action that applies it and actions for each answer, success or failure.

**HeaderEditor.** `lists` is `state.headerSets`, a scope being a core and a squad;
`actual` is `state.actualHeaders`; `post` is the save under way and `saved` what the
server has. `RowOf` translates an override to a row, as `loadHeaders` does, `OverrideOf`
a row to an override, as `saveHeaders` does, and `Rendered` completes the parameters of
a userinfo, which the page does by showing the row. `OverrideFor` is the override of the
last layer that has the key, the layers of a user being the default and those of his
squads (`selectOverrides`). `Result` is what `ApplyHeaderOverrides` then makes of the
header: overrides of names that are not legal or the server's own (`Refused`) are
skipped, a value with a control character removes the header (`Legal`), and the userinfo
keeps the parameters the page has no control for (those of `Params` outside `Shown`). So
the two ends can be compared: `PreviewIsAnswer` says that for every row whose scope
decides for the user (`Decides`) the page shows what he gets, as far as it shows it at
all (`OnShow`). It leaves out rows for refused names, which the page shows as if they
counted, and a value the server drops as not legal counts as none. `touched` is history.
What is abstracted: spaces are trimmed, a parameter without a value counts as absent and
a parameter's value has no `;` in it. Two spellings of a name are two keys of the
layers, as in the code; which of them wins in a user's answer is `Headers`' subject, so
`PreviewIsAnswer` is about names written in one way. `UntouchedStays` compares, for each
user, what the override that counts for him makes of a header before and after a save.
For a userinfo that had no override it asks that only of headers with no parameter the
page knows but those of the saved value (`Sent`): the page saves a control for each
parameter it knows, and one the fetched user lacked is saved as removed. Its other
exception is a row that covers others (see "Met while modelling"). An override of the
userinfo that is saved with mode `actual` and neither value nor parameters can only come
from elsewhere than the page (the page always sends the parameters), and the page does
not show it as the server applies it: `PreviewIsAnswer` leaves it out (`o #
NoOverride`).

## Runs

| run | shows | bounds |
|---|---|---|
| `limiter_reordered` | rate, bucket law, debt, capacity, sweep, with callers that overtake one another | 2 clients for 1 place, 2 callers, waits of 1 tick, 11 ticks: two sweeps, at each of which an entry may be dropped and made again |
| `limiter_refinement` | the limiter implements `LeakyBucket` when nobody overtakes | 3 clients for 2 places, 2 ticks to a token, 5 ticks |
| `admin_concurrent` | write-ahead, templates and headers survive every start, memory and SQLite differ only after a race or a failed POST, starts serve the newest rows, the process serves again | 2 POSTs at once, 2 faults, ambiguous writes: two crashes, or a crash after a failed write |
| `admin_race` (violated) | two POSTs leave memory and SQLite different | no fault at all |
| `cache_lookups` | staleness, freshness, good entries stay | 2 lookups of 2 keys in a cache of 2, life and fetch of 1 tick, 3 ticks; a full cache evicts when an entry is stored again |
| `builds` | Xray: one outbound per group, unique tags, ids; Mihomo: a name means one proxy, nothing more is proxied | 3 outbounds of any tags and 5 with two groups, a group under two spellings; 2 profiles with up to 2 proxies (3 of one name) or up to 2 rules, names that look numbered, broken and foreign entries |
| `subscription_requests` | the age of a config, true "not found", only double waits are lost, and leave the record in the cache | 2 devices that call for ever, life, fetch, write timeout and grace of 1 tick; no bound on the length of a behaviour |
| `headers_orders` | protection, independence of the order | 4 names in up to 3 spellings, two squads, values of every kind |
| `page_patient` | the editor and the list agree, no doubled config, what is answered is saved, the rest is kept | 2 configs at first, 3 in all, one POST at a time |
| `page_stale` (violated) | a late delete puts a text into the wrong config's editor | two POSTs under way |
| `page_empty` (violated) | looking at a squad and saving gives it an empty template | as `page_patient` |
| `header_editor` | a save changes no header of a user that was touched in none of his layers; what a row shows is what the fetched user gets | one core and one squad, so users with one layer and with two; a header in two spellings, a name that is the server's own and the userinfo with two of the page's four parameters and one it does not know; a text with a control character; 2 users; 4 edits, fetches and saves in any order (`MaxActs`); the button for a row is not pressed at 2 rows (`MaxLength`), but a fetch adds rows to any list |

A tick is the grain at which times are compared; each instance has as many ticks
as its longest chain needs (a read, an expiry and a second fetch for the cache; an
idle time, a sweep and a new entry for the limiter), and two of everything that
can race. What the instances leave open (more clients, keys, squads, POSTs,
longer runs) is what the proofs cover.

Deadlock is not checked where a run ends: in `AdminState` when its POSTs have
ended and its faults are used up, in `Builder` and `Headers` when the call returns.

**Fairness.** Only `admin_concurrent` needs it, for `ServesAgain`: weak fairness of the
steps of a start (`FairSpec`). `docker-compose.yml` has `restart: always`, so the process is
started again, and `main` runs its statements one after the other. Faults are bounded,
which says that they do not go on for ever. Nothing is assumed about the
administrator or the panel.

## What the violated runs found

- `admin_race`: `handleSetConfigs` and `SaveSet` write the row and set the copy without a
  lock around both. Two saves may do it in opposite orders; both are answered with
  success, and until the next save or start the server serves one and keeps the other.
- `page_stale`: `modalDeleteConfig` closes the modal after the answer. If it was closed
  before, and another config opened, its text is copied into the editor of that one.
- `page_empty`: `getCurrentConfigList` makes a list where there is none, the next save
  stores it, and `SelectTemplate` takes it for the squad's template.

Met while modelling, without a run that checks it: README.md:71 of the repository says
that missing Mihomo templates are generated from the Xray ones, but no code of the
program calls the conversion (only `builder_test.go:715` does), so such a user gets an
error. The comment at `templateset.go:74` says that the first squad with a template
counts; `SelectTemplate` looks at the first squad only, as README.md:179-181 says. And a
fetch adds rows of mode `actual` for the headers that have none to the list on show
(`app.js:1540`): in a squad's list, saved with anything else, such a row covers a
`custom` override of the default layer (`adminstate/headers.go:374`), so that the
squad's users get the panel's value although nobody touched that header. README.md:278
says no more than that `actual` leaves the panel's value, so no document is violated;
`UntouchedStays` names the case (`Covered`), says exactly what such users then get, and
that no save changes anything else of a header that was overridden before.

## Proofs

Every safety property and every action property that a passing run checks is a theorem
about the specification of its module (`Spec`; `MergeSpec` in `MihomoBuild`, `BuildSpec` in
`Builder`), for every value of the constants that the assumptions named below allow. The
argument is always the same: an inductive invariant, defined near the end of the module
and checked by TLC before it was proved, is true at first, kept by every action and by a
stutter, and implies the property. It is called `IndInv` (`MergeInv` in `MihomoBuild`);
`AdminState` and `AdminPage` have a second one each, which rests on the first.

- **RateLimiterProofs**, from `LimiterAssumption`. `IndInv` adds to the properties that a
  pending caller's time is at most `MaxWait` behind the clock (`CallersInTime`), that
  an entry was charged with such a time (`EntriesInTime`), how old entries can be
  (`SweptInTime`) and the bucket law across all entries a client had (`Ledger`): without
  `Ledger` a dropped entry's grants would be forgotten with it. Proved: types, capacity,
  `BucketLaw`, `BoundedDebt`, `OverallRate`, `OnlyFullBucketsDropped` (both for buckets that
  refill within the idle time, `RefillsWhileIdle`), `RoomIsReclaimed`, and, with
  `MaxWait = 0` and `RefillsWhileIdle`, that the limiter implements `LeakyBucket`
  (`ImplementsLeakyBucket`: its first state and each of its steps is one of the abstract bucket,
  or leaves it alone).
- **AdminStateProofs**, from `AdminAssumption` and `NoneAssumption`. `IndInv` relates rows, copies
  and POSTs to the log of writes, step by step of the start (`RowsAreLogged`,
  `PostsAreLogged`, `CopiesAreLogged`). Proved: `TypeOK`, `WriteAhead`, `StartServesNewest`,
  `BootstrapsOnce`. `TemplatesSurvive`, `HeadersSurviveCompletion` and `OnlyRacesDiverge` are
  about who wrote a row and when, which `IndInv` does not say; they rest on `HistoryInv`:
  - `LogInv`, about the log alone: an entry by a POST has the POST's value, a POST that was
    over before another began wrote before it, and what the start writes over a POST's
    overrides stems from them;
  - `CopiesAreNew`: a copy stems from a POST that was not over before an acknowledged one
    began, so that no acknowledged POST is undone by an older one;
  - `StartsLoadNewest`: until the listener is reached a copy is its newest row, or the empty
    overrides of a start that had none to load;
  - `RacesAreNamed`: a row newer than its copy was written by a POST of this run of the process.
- **PanelCacheProofs**, from `CacheAssumption`. `IndInv` gives each entry and each lookup an
  age by its step. Proved: `TypeOK`, the size, `BoundedStaleness`, `FreshIsFresh`,
  `GoodEntriesStay`, `LivesGrow`.
- **BuilderProofs**, from `BuildAssumption` and `MergeAssumption` (numbers and names are told
  apart). `IndInv` of `XrayBuild` says how far the call has come (`Progress`). Proved of it:
  `TypeOK`, `GroupsKept`, `TagsStayUnique`, `RestStays`, `PersonalIds`. `MergeInv` of `MihomoBuild`
  says that no name was given the same number twice (`ProxiesCounted`), that of the rules
  read so far exactly those to keep are kept (`RulesKept`), and that the list begins with
  the first profile's in its order (`FirstProfileFirst`): without `SomeIsFirst` a rule that
  matches would not give one that decides. Proved of it: `MergeTypeOK`, `NamesApart` and
  `NeverProxiedMore`, for any number of profiles of any length. Then the composition: a
  behaviour of `Builder` is one of `XrayBuild` and one of `MihomoBuild` (`BuildIsBoth`), and so
  has the properties of both.
- **SubscriptionRequestProofs**, from `TimesAssumption`. `IndInv` bounds by its step what a
  request has waited for (`RequestsAreTimed`) and how old its copies and the entries are
  (`CopiesAreYoung`, `EntriesAreYoung`), and says what it left behind (`RequestsFit`: that it met
  a panel without the user, that a stop has not lasted longer than it has, that the
  record it asked for is still in the cache). Proved: `TypeOK`, `NotFoundIsTrue`, `AnswerIsFresh`,
  `OnlyDoubleWaitsAreLost`, `LostIsHalfDone`, for any number of devices and any times.
- **HeadersProofs**, from `HeadersAssumption`. `IndInv` says what the map holds of a name
  after each loop: the panel's value until the loop comes to the name's override, then
  what is expected; the other names' overrides do not matter. Proved: `TypeOK`, `Protected`,
  `AnswerIsExpected`. The latter is about names each side writes in one way; `Headers`
  also has the behaviour for several ways, where the order of a map decides.
- **AdminPageProofs**, from `PageAssumption` and `IdentityAssumption`. `IndInv` has the types, the
  index in its list, and that scopes nobody changed agree with the server and with
  every POST under way. Proved: `TypeOK`, `KeepsTheRest` for any number of POSTs under way,
  and `OpenIsEdited` for a patient administrator; for an impatient one it is false, as
  `page_stale` shows. `NoTwins` and `AnsweredIsSaved`, also for a patient one, rest on
  `PatientInv`: the configs of every list have different identities and a save adds none
  that the list on show has already (`IdentityInv`); at most one POST is under way, it carries
  what is on the page, and once applied the server has that (`SavingInv`).
  `IdentityAssumption` restricts no program: the identities are the model's own history,
  given so that each config of a first library has its own.
- **HeaderEditorProofs**, from `EditorAssumption` (the overrides of a scope and the
  headers of a user are finite, being maps of a program, and the fetched headers are
  those the server let through, so that none is refused and values are legal, and each
  name is there once). `IndInv` says that the page's rows show what the server has and
  what a POST under way carries, for every key the administrator did not touch
  (`Mirrors`), and that in each scope such a POST alters nothing of those and drops none
  of them. From the scopes it goes on to users: the last layer with a key is, after the
  save, the one it was, or one that had no override of it before (`Covered`). `Shows` is
  what a row must keep to through draws, fetches that add rows, and edits of other rows:
  it says more than `PreviewIsAnswer`, because the value shown depends on the user
  fetched last and the next fetch may bring another. `LeftAlone` is the same for a
  userinfo without an override. That the combined value of a row is what the server
  makes of it holds parameter by parameter, and for those the page does not know because
  a value of the panel has no control characters. Lists are made of sets by any order
  there is (`SetToSeq`), of which the library's theorems on finite sets give that every
  element occurs; of several rows with one key the last one counts (`Rules`), and that
  there is a last one is proved from well-foundedness. Proved: `TypeOK`,
  `PreviewIsAnswer` and `UntouchedStays`, for any cores, squads, keys, parameters,
  users, saved overrides and numbers of edits.

Only model-checked: `ServesAgain`, which is liveness under fairness and out of the prover's
reach, and the three violated properties, of which TLC has the counterexamples.

## Not modelled

- Parsing and printing of JSON and YAML, routes, tokens, log lines, the layout of
  the page, the remark of a config, the environment and the migrations: conversions
  and statements without an order that could go wrong.
- The conversion of Xray configs to Mihomo: a stateless translation of field names that
  the program does not call.
- Of the Mihomo build, the user's placeholders, the union of DNS servers, and the
  rule-providers of profiles after the first.
- In `HeaderEditor`, what is done before the first load, and saves that overtake each
  other: `AdminPage` has overlapping saves, and `page_empty` what an incomplete copy does.
- Two administrators with a page each: the server keeps no version by which one could
  say which of them is right.

The list in `PROJECT.json` names each component with what is left out of it.

## Plan

What could follow, the most useful first:

1. The lookups of `SubscriptionRequest`, which have the cache in one step, shown to be
   those of `PanelCache`: today the two are kept apart and each has its own bound on ages.
2. The bounds of `AnswerIsFresh` and `BoundedStaleness` shown to be reached, so that a
   reader knows that they are the smallest ones.
3. The union of the DNS servers of merged profiles (`mihomo.go:248-310`), next to the rules.
4. Migrations of the database, with a crash between two of them.
