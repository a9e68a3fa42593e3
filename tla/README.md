# A TLA+ model of okhttp-testbed

okhttp-testbed runs OkHttp against servers that it controls, servers that other people run and Android
emulators, and publishes what it found. Most of its lines are assertions about OkHttp. This project is
about the rest, the programs that have state of their own and must be right for those assertions to
mean anything: the test server, the ECH fixture and the script around it, the dashboard that re-runs
jobs, and the status site.

Line numbers refer to the repository's files; `PROJECT.json` maps every definition to its lines.

## 1. The system

| Part | Files | State | Operations |
|---|---|---|---|
| Test server: listeners | `test-server/main.go`, `hostile.go` | the listeners, their sockets, the list `/info` reports, requests in flight | load certificates, start each listener, accept, fail, signal, shut down |
| Test server: ClientHello cache | `test-server/tls.go` | a map from remote address to ClientHello, one for all TLS listeners | `put` in the handshake, `get` for `/tls`, `drop` from the `ConnState` hook |
| Test server: endpoints | `test-server/handlers.go`, `hostile.go` | none beyond the request; a handler's place in its writes and pauses | echo, status, redirects, delays and drips, compression, trailers, authentication, cookies, validators, hostile bytes |
| Test server: certificates | `test-server/tls.go`, `badchains.go` | minted once at start-up | mint the CA, the leaves, one bad chain per defect |
| ECH fixture | `ech-fixture/.../main.go` | keys and certificates minted once at start-up; the resolver's place in a query | DoH answers, TLS with ECH keys and a certificate chosen by server name, `/metadata` |
| ECH fixture service | `EchFixtureService.kt` | two containers, the endpoint file, `stopped` | start, publish, wait for the file to go, stop, shutdown hook |
| Android ECH run | `android-ech/run-ech-test.sh` | the endpoint file, the results directory, the device | wait, forward ports, run three suites, retry, clean up |
| Job re-runs dashboard | `.github/scripts/job_reruns.py`, `job-reruns.yml` | an issue: its boxes and its table | read, dispatch, look up runs, rewrite the body |
| Status site publishing | `pages.yml`, `site/tools/collect_results.py` | `latest.json` and `history.json` on the deployed site | walk the runs, fetch, collect, carry forward, deploy |
| Result parsing | `collect_results.py` | none | parse JUnit XML, classify, roll up, group by version |
| Status page | `site/assets/*.js` | the browser's | load and render; group findings by similarity |
| Suites | `containers/`, `network/`, `android-ech/src/` | caches and report files of one JVM | assertions, preflight probes, reports |
| Workflows and build | `.github/workflows/`, Gradle files | none | matrices, artifacts, `rerun-flaky` |

They interact as follows. The container suites start the test server in a container and read its `/info`
and `/tls`. `run-ech-test.sh` starts the fixture service, and the two talk only through the *endpoint
file*: its content means "ready", its removal "stop". The three test workflows leave artifacts with a
`run-metadata.json`; their completion triggers a pages build, which reads the artifacts of all three and
the history off the site it deployed before. Completion also triggers a refresh of the dashboard, whose
ticked boxes dispatch the workflows.

What is hard in this code:

* *Interleaving.* Goroutines and the `ConnState` hook around one map; `cleanup` against a service that is
  still starting; two triggers of a workflow that reads, thinks and writes back; a client that leaves while a
  handler sleeps, and calls that share an HTTP/2 connection with a hostile one.
* *Failure in the middle.* One listener of many fails to bind; one GitHub request of several fails; Gradle
  reports success for nothing; a download fails in the middle of a walk.
* *Stale state.* Addresses that come back, endpoint files of killed runs, an issue body read seconds before
  it is overwritten, a published history that two builds have fetched.
* *Exchanges of several messages.* ECH rejected and retried, aliases followed, redirects behind a proxy, cookies and
  validators that come back, trust that was fetched from a process that has since been replaced.
* *Limits.* The 1024 entries of the cache, the 120 of the history, the ten runs of the walk, label lengths chosen by
  a peer, durations that parse as NaN, clocks on either side of a validity period.
* *Things that must happen.* A signal ends the server, the script ends and takes its service with it, a
  ticked box is served, a completed run is published.

`PROJECT.json` lists each hazard at its line with the properties that would catch it.

## 2. The modules

| Module | Models | Checked by |
|---|---|---|
| `HelloReport` | abstract: what `/tls` promises, a hello per connection | refined by `HelloCache` |
| `HelloCache` | the cache and the connections that use it | `MCHelloCache` |
| `HelloCacheProofs` | theorems about `HelloCache` | tlapm |
| `ServerLifecycle` | start-up and shutdown of the server | `MCServerLifecycle` |
| `ServerLifecycleProofs` | theorems about `ServerLifecycle` | tlapm |
| `Certificates` | what the test server mints, and a verifier's objections | through `Session` |
| `Listeners` | the configuration of each TLS listener, the handshake and its report | through `Session` |
| `Endpoints` | the handlers, as responses made of writes and pauses | through `Session` |
| `Session` | a client's connections and calls to successive server processes | `MCSession` |
| `SessionProofs` | theorems about trust, certificates and calls in `Session` | tlapm |
| `DohServer` | the fixture's resolver, one query at a time | through `EchFixture` |
| `EchOrigin` | the fixture's origin: keys, certificates, handshakes | through `EchFixture` |
| `EchFixture` | resolver and origin with a client of each platform | `MCEchFixture` |
| `EchFixtureProofs` | theorems about `DohServer` and `EchFixture` | tlapm |
| `EchRun` | the script, the fixture service, the device | itself (its one constant is in the cfg) |
| `EchRunProofs` | theorems about `EchRun` | tlapm |
| `JobReruns` | the dashboard | `MCJobReruns` |
| `JobRerunsProofs` | theorems about `JobReruns` | tlapm |
| `StatusSite` | the pages builds and the published history | `MCStatusSite` |
| `StatusSiteProofs` | theorems about `StatusSite` | tlapm |
| `Results` | what a collection makes of the artifacts | `MCResults` |
| `ResultsProofs` | theorems about `Results` | tlapm |

A definition whose name ends in `_something` after the name of a mapped definition (`put_noReset`,
`StartBuild_concurrent`) is a *mutant*: the definition with a plausible mistake in it. It is not used by
the specification; putting it in place of the original must make TLC find a violation of the property
that `PROJECT.json` names, which shows that the property depends on that code.

### HelloCache and HelloReport (`test-server/tls.go`)

One `helloCache` serves every TLS listener. `hellos` is the map: for each address the connection whose hello
it holds, or `NoHello`. A connection goes through `Accept`, `GetConfigForClient` (which calls `put`),
`HandshakeDone` or `HandshakeFail`, `StartRequest`, the `/tls` handler `handshake` (which calls `get`),
`Hijack`, `CloseTransport` and `ConnStateClosed` (which calls `drop`). `CloseTransport` and `ConnStateClosed`
are separate because net/http closes the transport before it calls the hook; between the two the kernel can
hand the address to a new connection. `AddrReuse` says whether that, and one client address connected to two
listeners, may happen. `inflight` says whether a handler of the connection is still running, which over
h2 may outlive its connection.

`HelloReport` is the promise: a connection's hello is held from its handshake until its own end or a reset
of the cache, and a report shows exactly the hello of the connection it came on. `HelloCache` implements it
(`ImplementsHelloReport`) if `AddrReuse` is false, and does not if it is true.

### ServerLifecycle (`test-server/main.go`)

`main` goes through `Order`; for each listener that is enabled it appends to the list, starts a goroutine that
binds and serves and one that waits for the signal. A failure is fatal for a required listener only. One
listener stands for each family: plain, TLS, an optional TLS version, one that needs the minted CA, raw.

### Certificates, Listeners, Endpoints and Session (`test-server/`)

A certificate is a record: subject, key, issuer and signing key, validity in hours since the start of the process, names,
CA flag and use. `loadCertificates` mints what a process serves, `newBadChains` one leaf per defect; a key is named by the process
that generated it, because two processes' CAs have one subject. `Objections` is what a client that builds paths finds wrong.
`TlsListeners` has, for each listener, what `/info` announces and the server `tlsServerWith` or `mtlsServer` configures; the handshake is
crypto/tls's, from the client's offer. `handshake` is the report of `/tls`.

A handler of `Endpoints` is an operator from the request and its connection to a *plan*: status, the headers a client acts on,
and the sequence of writes and pauses. Whether it watches the request's context and whether it stops at a failed write are
fields of the plan, as they differ between handlers. The hostile endpoints' plans are the bytes they write to a hijacked connection and how they
close it; over HTTP/2 they answer 501. `handler` is the router, with its methods.

`Session` composes them. The client fetches the CA and the identity over the plain port (`FetchCA`, `FetchIdentity`), connects
(`ConnectTls`, `ConnectPlain`, perhaps through a proxy that ends its TLS and sets `X-Forwarded-Proto`) and makes calls, two at a time over HTTP/2. `Elapse`,
`Write` and `Return` take a plan's steps; `Leave` is a cancelled call, after which writes succeed until one fails or the handler sees the context; `Follow` is the client's
next request after a redirect, a challenge or a validator. `Restart` replaces the process: everything is minted anew, and the
client keeps what it has. `Outcome` is what a client makes of the bytes that arrived.

The raw listener's request has a head of some size that ends with a blank line, is still open, or was half-closed: at `maxHead` bytes it is answered without
its end, and bytes left unread turn the close into a reset (`LeftUnread`).

### DohServer, EchOrigin and EchFixture (`ech-fixture/.../main.go`)

`DohServer` reads a query as the code does, by index: `readDnsQuery`, the loop over the labels (`Label`, `NameEnds` and the early returns), the
type, and the records by type and name, appended a parameter at a time. A read outside the query is the stage `"panic"`. Queries are
bytes, because the hazard is in the bytes; names are given their text by the constant `Bytes`.

`EchOrigin` has the seven keys with their identifiers, public names and `SendAsRetry`, and the two callbacks that choose keys and certificate by the
server name. That HPKE decrypts a hello is that its config is the key's. `EchFixture` runs one client of each platform (`noTls13`, `noEch`, `ech`) for each name:
two lookups whose answers may be lost or refused, an alias that is followed, a hello, and after a rejection one more. Other peers' queries, malformed ones included, come in between.

### EchRun (`android-ech/run-ech-test.sh`, `EchFixtureService.kt`)

`script` is the script's place, `service` the main thread's, `term` the shutdown hook's. Every deadline of the
script may pass at any time, so that no behaviour depends on how long things take. `ErrExit` says where
`set -e` is in force: bash suspends it inside `run_suite` when the call is followed by `||`, hence for the
public and the fixture suite, where a device wait that times out is ignored, and not for the CT suite, where it
is fatal. What `kill` ends is the `gradlew` client; Gradle then ends the service it forked, which is taken as
given. The file a killed run left may be there at the start.

### JobReruns (`.github/scripts/job_reruns.py`, `job-reruns.yml`)

A run is a sequence of requests, each an action that may fail (`Abort`): `Read`, `dispatch` per ticked box,
`latest_run` per workflow, `create_issue` or `update_issue`. Maintainers tick and untick at any time. The
concurrency group has one running and one pending place. `asked` is what was ticked and not yet dispatched, `unasked` counts per workflow
the dispatches beyond the ticks, `refused` is what GitHub refused.

### StatusSite (`pages.yml`, `collect_results.py`)

`runs[w]` is the sequence of runs of a test workflow by number; runs complete in any order, are re-run under
their number (during which they are not listed) and expire. A run carries the time in its first artifact's metadata, which is any time
since it began, and each attempt is known apart from the others of its number. Every completion, a cancelled or skipped run's or a pull request's
too (`OtherCompletion`), puts a pages run in the group's one waiting place, where it replaces what waits; only then does the job's condition decide whether it builds or
is skipped (`Skip`). `build` holds what a pages job has so far: `Download`
per workflow, `FetchHistory`, `Collect`, or `CarryLatest` and `CarryHistory`, then `Deploy`. A collection's key is the
run number of each workflow. One endpoint stands for all; `merge_endpoints` gives its last-reachable time. It is assumed that a collected network run's
artifacts carry an endpoint report. When the script fails the step succeeds all the same, as it is piped into `tee`, and the site is deployed without its data
files: that is an alternative of `Collect`.

### Results (`collect_results.py`)

An artifact has XML files, each readable or not, which hold one testsuite or a wrapper of several; `Root` is the element the code reads of a file, and `Suites` those of the
files that can be parsed. Of the policy and ClientHello files the first readable one counts (`FirstReadable`), of the ECH observations all (`parse_ech_results`).
The artifacts are read one at a time in any order (`ReadArtifact`), their cases classified (`CaseStatus`), their suites, policy
records, ClientHello and ECH observations merged into the card of their OkHttp version (`AddArtifact`), their endpoint readings
into one (`Merged`). `Write` rolls the statuses up, or fails if no artifact had results. The tables (`EXPECTED_FAILURES`, `CRITICAL_SUITES`,
`REPORTING_TASKS`) are the code's. A case's name is a record of what `normalise_case` keeps and the noise that it strips.

## 3. The runs

All pass runs explore their whole state space. Deadlock is checked for `HelloCache`, `Session` and `EchFixture`; the other systems may stop
(the process ends, the script is done, the bounded inputs are used up).

| Run | Shows |
|---|---|
| `hello_reuse` | With early reuse of addresses: no entry leaks, a served connection loses its hello only to a reset or to a connection from its own address that is on another listener or already closed, an unfinished handshake's entry goes. |
| `hello_unique` | Without early reuse: the map is bounded, reports show the own hello, a served connection's hello is only lost to a reset, `HelloReport` is implemented. |
| `hello_keyed_by_connection` | Violation, see section 6. |
| `lifecycle` | Every set of enabled listeners, every failure, a signal at every moment: only required listeners are fatal, the process does not stop unasked, a signal ends it. |
| `session` | Each bad chain is refused for its own reason and no other; the leaf and the identity are good for the process that minted them and for their year; what `/info` and `/tls` say is so; redirects, cookies, validators and credentials come back to where they started; responses are framed, and hostile ones broken, as their endpoint says; no handler pauses for more than two minutes in all; every call ends. |
| `session_reset` | Violation. |
| `ech_fixture` | No query is read out of bounds and the label loop advances; the question comes back as it was looked up, with well-formed parameters and every name's config list; the ECH outcomes per name and platform are those the suite states, under certificates that verify; the secret name is hidden; every call ends. |
| `ech_run` | A green run has results for all suites, from its own fixture with both containers up; no CT failure is retried away; no container is left by an orderly stop; script and service end. |
| `reruns` | One dashboard, no table goes back, a workflow is dispatched beyond its ticks at most once per failed request, until a request fails a tick is lost only between a run's read and its write; once failures cease a ticked box is cleared, and its workflow dispatched unless the tick was taken back, fell within a run or was refused. |
| `reruns_lost_tick` | Violation. |
| `site_publish` | One entry per key, both files agree, no fetched entry is lost, last-reachable times have a probe before them; when nothing runs or waits every attempt's results are on the page, unless a build failed or a pages run that is then skipped took the place of the last build that waited. |
| `results` | Whichever files are unreadable or wrapped: red is shown exactly for the unpredicted failures that are read of gating or critical suites; every case that is read counts once and every check of a first readable policy record is kept; what is lost is exactly the cases of unreadable files and of testsuites behind a wrapper's first; an endpoint that was down for anybody is down. |

Properties that belong together are one: `NothingIsDoneTwice`, `AnswersAreSound`, `EndsAsAdvertised`, `MergeLosesNothing` and others are conjunctions, and
a violation of any part is a violation. The `TypeOK` of a module is not part of a run; where there are proofs it is
the first conjunct of the inductive invariant.

### Bounds

* `HelloCache`: two connections, addresses and listeners (one h2, one HTTP/1.1) with `Limit` 1 suffice for every
  pair of connections to meet on one address or on two; three connections with `Limit` 1 put the map over its limit.
  Slots are used again without end, so a behaviour has any number of connections. The theorems lift these bounds.
* `ServerLifecycle`: one listener per family, one request in flight per listener.
* `Session`: two processes, so that everything fetched can be stale; two streams, so that a call meets another on its connection; four TLS stacks (modern, HTTP/1.1 with
  an identity, without ALPN and below TLS 1.3, TLS 1.0 with h2 only) so that every listener refuses one and serves one; eight pairs of clocks, on each side of the hour, the day and the year
  at which a certificate changes its standing. Requests have each limit's last good and first bad value, NaN and garbage. Listeners
  other than http and https take five requests, since all have one handler. `SlowHeadBytes` is 2, for 64: the loop does the same for each byte.
* `EchFixture`: names are two labels of one letter, which is as much as the code tells apart, with those a peer may send: upper case, a label that holds a dot, ports that are not
  numbers or too large, queries cut at each length the code checks and with each kind of label length at each place of one. `MaxBody` is 34 (65536 in the code), just enough for the client's own queries, so that a longer one is cut.
* `EchRun`: the device drops back at most `MaxRestarts` = 2 times, enough to spoil an attempt and its retry.
* `JobReruns`: one workflow, two slots for runs of the script, which run any number of times, two failures and one edit of another issue (a closed dashboard included); two issues, so that a
  dashboard is closed and another made. Several workflows meet in `reruns_lost_tick` only; for them the three safety properties are proved. If edits of other
  issues never ceased each could replace the pending refresh and a box would wait for ever, which is why they are bounded.
* `StatusSite`: two of the three workflows, of which one probes; `HistoryLimit` 2 (120 in the code) so that the third
  combination meets the limit, `WalkLimit` 2 (10), three test runs or re-runs, so that the walk's limit binds, one push, one expiry and one failure. The constraint `RunsOrMishaps` keeps
  the third run apart from the push, the expiry and the failure, which have two runs: enough for three keys, a fall-back to an older run, a re-run that replaces an entry, and
  a carry-forward. Completions that are skipped are unbounded.
* `Results`: two artifacts, each with one or two suites of two cases, from a list that has every class of suite (gating, reporting, critical, with
  an excuse by name, by JDK, by API level and architecture), every outcome of both cases, and separately an unreadable file and each kind of wrapper, alone and beside a good file,
  every pair of endpoint readings, and policy records of one or two files, readable or not.
  Statuses, counts and readings are merged pairwise by the code, so a third artifact meets nothing new.

### Fairness

* `HelloCache`: `ReadHeaderTimeout` bounds a handshake, and a goroutine that closed a transport goes on to its hook.
  Nothing bounds how long a client stays, so requests and closes have none.
* `ServerLifecycle`: goroutines that can go on do, by the Go scheduler; signals and failures have none.
* `Session`: a handler is a goroutine and its timers fire, so its steps are weakly fair, and so are the client's own next steps. Nothing makes a client
  connect, call or leave. A client here reads what is sent or leaves: one that does neither would hold its handler, as no server has a write timeout.
* `EchFixture`: a handler that has a request finishes it, and the client goes on. Its own request is strongly fair: the model serves one request at a time, where the
  server would serve the client's beside the others'.
* `EchRun`: the two processes are scheduled and an emulator that is booting comes up. Without the latter
  `adb wait-for-device`, which has no deadline, may block for ever. Cancellations and restarts have none.
* `JobReruns`: a run that can go on does, and the four scheduled workflows complete daily, each of which triggers a refresh.
* `StatusSite` and `Results` have none: what is asked of them are invariants and action properties. `QuietMeansShown` says what holds at rest, not that there is rest; it leaves out behaviours
  in which a build failed, since nothing repeats one and the page stays as it was until the next trigger.

## 4. What is proved

`HelloCacheProofs` proves, for any finite sets of connections, addresses and listeners and any limit
(`ConstantsAssumption`: the sets are finite, the limit is a natural number, the special values are no connections):

| Theorem | States |
|---|---|
| `Invariance` | `Spec => []IndInv` |
| `TypeCorrect`, `NoEntryLeaks` | the type invariant and `NoLeak` |
| `SharersTakeHellos` | `OnlySharersTakeHellos` |
| `OwnHelloReported`, `ServedHelloHeld` | the two properties for `~AddrReuse` |
| `MapIsBounded`, `NoReset` | `MapBounded`, `NoResetBelowLimit` |
| `Refinement` | `~AddrReuse => (Spec => ImplementsHelloReport)` |

For `HelloCache`, `IndInv` is `TypeOK /\ NoLeak /\ AddrsDistinct`. `NoLeak` is inductive given the types: an entry names a connection whose hook
has yet to run and whose address is the key, and the hook removes the entry at that address. The other properties are
not inductive by themselves. `OnlySharersTakeHellos` goes through the steps that write the map: a `put` or a `drop` is at the address of the connection that
takes it, and that this is on another listener, unless it is closed, is `OpenDistinct`, since TCP connects no address twice to one listener. That a report is the connection's
own needs `AddrsDistinct` as well: without early reuse, connections the server is still dealing with (running handlers
included) have different addresses, so the entry under a connection's address is its own or none (`EntryIsOwn`). Boundedness and
the reset are arguments about cardinalities: `put` adds at most one key and only to a map of at most `Limit`, and
by `NoLeak` the map has no more keys than there are connections. The refinement maps `held` to the connections whose own hello
is under their address; each action is shown to be a step of `HelloReport` or a stutter.

`EchFixtureProofs` proves, for any set of requests over bytes, any texts of the names, any port and any limit on the body (`BytesAssumption`, `LimitAssumption`, `RequestsAssumption`; and `NamesAssumption`, which the
names in `main.go` and its limit of 65536 bytes satisfy: the texts are different, in lower case, of labels of 1 to 63 bytes, and the longest query about one is read whole):

| Theorem | States |
|---|---|
| `TypeCorrect` | `Spec => []TypeOK` |
| `NeverPanics` | `Spec => []NoPanic`: no query is read out of bounds |
| `LoopAdvances` | `Spec => ParserAdvances`: every turn of the label loop moves forward |
| `FixtureIsSafe` | the last two of `FixtureSpec`, whose client sends queries that need not be among `Requests` |
| `FixtureInvariant` | `FixtureSpec => []FixtureInv` |
| `AnswersAreSoundHolds`, `OutcomePerNameHolds`, `SecretNameHiddenHolds` | the other three invariants of the run |

The handler's invariant is `TypeOK /\ NoPanic`, where `TypeOK` carries the parser's place: while it reads labels or the type, the query has at least the
17 bytes the code asks for and `position` is between the header and the query's end. Without that neither the read of a length byte nor the slice of the header is known to
be inside; with it each check of the code is just what the next read needs. Most of the work is that every record the resolver can build is typed.

`FixtureInv` adds four parts. `Echo`: what has been read of any query's name, encoded again, is the query up to the parser's place, so that the question that goes back is the one that came; and what is sent is well formed.
`Exchange`: the query the resolver is at work on for the client is the client's, and the parser has joined just the part of the asked name that lies before its place (`Parsing`, `Parsed`). That the parser inverts the client's
encoder is then one fact per label (`LengthIs`, `LabelIs`) instead of an induction over the name, and with `StripAttrleaf`, which follows `_8443._https.` through the code's checks and `ParseUint16`, it is the name the records are looked
up under. `Told`: what the client knows of its host, from the records for each name (`ToldHttps`, `ToldAddress`). `Called`: how far the call is; only `retry` and `disabled` go on after a hello (`Retrying`), the one with the config it was sent
and the other without, and each handshake is settled by the config it is made with (`PlainHello`, `AcceptedHello`, `RejectedHello`). The properties are not inductive without these: an outcome says nothing of the answers it came from several steps before.

`ServerLifecycleProofs` proves, for any sequence of distinct listeners, any optional ones among them and any number of requests in flight (`OrderAssumption`):

| Theorem | States |
|---|---|
| `TypeCorrect` | `FairSpec => []TypeOK` |
| `OnlyRequiredFailuresAreFatalHolds`, `NoUnaskedStopHolds` | the two invariants of the run |
| `StopReleasesSocketsHolds` | when `main` returns no socket is bound, but for that of a raw listener whose accept loop failed |

Why the process ended is decided by goroutines that ended long before, so the invariant keeps their reasons: a closed socket under an accept loop tells of a
signal (`ClosedByASignal`), a goroutine that returned failed or was told to (`ReturnedForAReason`), and what `/info` lists was started (`ListedIsStarted`), so that
`wg.Wait()` returning says something about every listener. `StopReleasesSockets` is not part of a run.

`SessionProofs` proves, for any names of the host, clocks, TLS stacks, requests, streams and number of restarts (`SessionAssumption`, `ClocksAssumption`, `OffersAssumption`, `RequestsAssumption`: requests have
their fields, with numbers as parsed and sequences of cookies; and `HostsAssumption`: `wrong.host.invalid`, which RFC 2606 reserves, is not among the server's own names):

| Theorem | States |
|---|---|
| `TrustIsThisProcessHolds` | `Spec => []TrustIsThisProcess` |
| `ChainsAreHonestHolds` | `Spec => []ChainsAreHonest` |
| `CallInvariant` | `Spec => []CallsInv`, the invariant of the calls |
| `HandlersLetGoHolds`, `RedirectsLandHolds`, `RoundTripsHolds`, `InfoIsHonestHolds` | four more invariants of the run |

For the first two the invariant is small: what the client keeps is the CA and the identity of the processes it noted (`KeptIsFetched`), and its last attempt met the process that is running with what it
still has (`AttemptIsCurrent`), which holds because a restart, a fetch and a call all put the attempt behind. The work is in the lemmas about `Certificates`: two processes share no key
(`Keys`), the only paths from a leaf are the CA's signature and the one by way of the intermediate (`Paths`, `NoPath`), `TlsListeners` gives every listener the certificate and the client
authentication it is for (`Servers`), and from these who accepts the good leaf (`LeafAccepted`), each bad chain (`BadChainsRefused`) and an identity (`IdentityAccepted`), by the hour.

The other four are about calls, and `CallsInv` says of every call under way, on however many streams, that its plan is the one the handler makes of its request on the connection as it was when the
request came (`Live`): a connection may be closed under a running handler, by its client or by another stream, and the plan does not change with it. None of the properties is
inductive without that, since each speaks of a plan made several steps before. To it are added how long the call has waited (`Timely`), where its chain of
redirects is (`Chain`) and what it brought back (`Trip`), and that the last attempt is the connection there is (`ConnIsAttempt`). `Handled` then goes through the routes: whatever the
request, the plan is a sequence of writes and pauses; through net/http the pauses fit into two minutes (`Budget`, witnessed by a function that says how much is used up before each step: a sum over a
plan of any length without a recursive definition). `DripPlan` is the
longest of these, a byte and a pause in turn for any number of bytes, and where it matters that `duration/n` is rounded down and that a NaN never counts as a positive time. A chain of redirects is followed one hop at a time (`ChainFollowed`), with `BaseURL` for
the address the handler derives, behind a proxy as well. `InfoIsHonestHolds` joins both invariants: `Announcements` compares, listener by listener, what `/info` lists with what its server is configured with.

`EchRunProofs` proves, for any number of restarts of the device:

| Theorem | States |
|---|---|
| `TypeCorrect` | `Spec => []TypeOK` |
| `GreenMeansResultsHolds`, `UsesOwnFixtureHolds`, `FixtureUpDuringSuitesHolds`, `NoContainerLeftHolds` | the four invariants of the run |
| `CtFailureEndsRedHolds` | `Spec => CtFailureEndsRed`, a box within a box |

Script and service know each other only through the file, and the invariant says what its presence means: while the script is not ending, a file of this run is there
only if `main` polls it, and the script gets past its wait only with such a file (`FileIsOwn`). Hence the containers are up during the suites (`ContainersUp`), as `stop()` is
entered by one of `main` and the hook and only after the file is gone or the script is at its end (`OneStops`). `EarlierRecorded` carries the results of a suite through the later ones. The CT
gate is proved with a predicate that a CT failure makes true and no step makes false (`Gated`).

`JobRerunsProofs` proves, for any workflows, issues, runs and failures (`BoundsAssumption`):

| Theorem | States |
|---|---|
| `TypeCorrect` | `Spec => []TypeOK` |
| `NothingIsDoneTwiceHolds`, `OnlyLateTicksAreLostHolds` | the two invariants of the run |
| `TableNeverGoesBackHolds` | the action property |

All rest on `OneRun`, the concurrency group, and on what the one active run may then rely on between its read and its write: the dashboard it read is the one that is open
(`OneDashboard`), no table is ahead of what it is about to write (`TablesLag`), every dispatch beyond the ticks, made or still possible (`AtRisk`), has a failed request behind it (`ServedOnce`), and what is wanted will be
dispatched or was ticked behind its back (`WantedIsTodo`, the invariant behind the finding of `reruns_lost_tick`).

`StatusSiteProofs` proves, for any workflows, walk and history limits, and any number of runs, pushes, expiries and failures (`ConstantsAssumption`):

| Theorem | States |
|---|---|
| `TypeCorrect` | `Spec => []TypeOK`, with the history within its limit |
| `FilesAgreeHolds`, `ReachableHasWitnessHolds` | the two invariants of the run |
| `NoEntryLostHolds` | the action property |

`FilesAgree` is about two files a build fetches one after the other and deploys together, so `FetchedIsPublished` says that what an active build holds is what is published, which needs `OneBuild`. `ReachableHasWitness` needs the same bound of every
run, every build's downloads and every entry of every history in flight (`RunsWitness`, `FilesWitness`). The filter of `Appended`, by which an entry replaces the one of its key, is
the recursive function `Others`; that it keeps the other entries in order and no entry of the key is proved by induction over the history's length, as `SetInduction`, derived from the least element of a set of naturals.

`ResultsProofs` proves, for any artifacts, of any versions, platforms and contents, read in any order (`ContentsAssumption`: the files of an artifact are finitely many, and so are their cases; a file without a wrapper is one testsuite):

| Theorem | States |
|---|---|
| `TypeCorrect` | `Spec => []TypeOK` |
| `RedIsExactHolds`, `MergeLosesNothingHolds` | the two invariants of the run |

The invariant says what a card holds of the artifacts read so far, as a set and without an order: a record for each of their files (`SuitesRead`), counts that add up to their cases (`CasesCounted`), the
policy checks of each platform (`PolicyRead`), the verdict on all their readings of the endpoint (`EndpointRead`), and, once the page is written, that it shows these cards (`PageShows`). `parse_suite`, `merge` and
`roll_up` fold over lists whose order is that of the file system, so the lemmas show that the order does not matter: totals and merged readings are recursive functions of the length (`SumExists`, `MergeExists`), and
what one more element does to them is proved by induction on it. Which cases a file gives is `RootCases`: all but those of the testsuites a wrapper hides; `AllRead` then says that what was read in
the end is what is recorded less what is unreadable and what is hidden, and `FirstRead` which policy file counts.

Only model-checked, and why:

* Liveness (`ScriptEnds`, `SignalEndsProcess`, `BoxesAreServed`, `CallEnds`, `CallsEnd` and the others): the prover has no rules for fairness and `ENABLED`.
* `QuietMeansShown` of `StatusSite`: it relates the trigger that waits, the part of the walk a build has behind it and every run that completed since, for which no inductive invariant is worked out yet.
* `EndsAsAdvertised` of `Session`: what a client makes of a response is a sum over the bytes that arrived and the first head among them, after a reset any part of it, for some thirty
  handlers; the plans are known (`CallsInv`), what the client's reading of each comes to is not proved.

## 5. What is not modelled

* The bytes of HTTP requests and responses, of certificates and of reports; formatting, logging, wording. DNS queries are modelled in bytes.
* HPKE, signatures, HTTP framing and TLS itself: external, modelled by what the code relies on.
* The fixture's command line, environment and PEM files, read once before anything is served.
* The clustering of findings and the preflight of the network suites (section 7).
* The status page's rendering, and the suites: assertions about OkHttp, Android and servers outside the repository.
* Testcontainers and its reaper, Docker, adb, Gradle, GitHub Actions: modelled as far as the code depends on them.
* The death of the fixture in the middle of a suite: nothing in the script watches for it, the suite then fails by itself.
* The fall-backs of `collect_results.py` for runs that predate `run-metadata.json`.

## 6. Findings and observations

Violations that the runs show, each a difference between the code and what the repository says of it:

1. `hello_keyed_by_connection`: `tls.go:308` says a hello is keyed by the connection; it is keyed by the remote address. Two connections
   from one address, to two listeners or in quick succession, share an entry and one can be shown the other's hello.
2. `reruns_lost_tick`: a box ticked while a run is between its read and its write is cleared and never dispatched, contrary to `README.md:640`. So is a box
   whose dispatch GitHub refused (`job_reruns.py:265-273`), where `README.md:641` and the issue's own text (`job_reruns.py:211`) speak of boxes that were accepted.
3. `session_reset`: over TLS `/hostile/reset` skips `SetLinger` (`hostile.go:43`), so the client sees a short body and an ordinary close, not the RST that `hostile.go:117` and
   `test-server/README.md:155` promise.

Seen while modelling and not made into a run.

Test server:

* `hostile.go:169` says that the raw listener is closed on shutdown; any `Accept` error ends it (`AcceptLoopEnds`), and the server goes on without it.
* Over TLS the half-close skips `CloseWrite` (`hostile.go:108`).
* `/hostile/truncated-body` with `promised` no larger than `sent`, and `/hostile/reset` with `after` of 1024 or more, are complete responses.
* `buffered.Writer.Flush()` in `hijacked` sends what is buffered (`hostile.go:148-150`); nothing is buffered at that point.
* The raw listener answers the first 64 KiB of a longer head as if it were the head, and a head that was half-closed before its end (`echoRequestHead`); what it leaves unread makes its close a reset.
* A listener of a bad chain, and `mtls`, differ from `https` in ALPN as well as in what they are for; the intermediate of incomplete-chain is served nowhere.
* The comment at `tls.go:206-208` says that Go does not check the extended key usage of client certificates; crypto/tls verifies `clientAuth`, which the identity has.
* A duration of NaN passes the range checks (`handlers.go:319`, `handlers.go:533`) and acts as zero. `/status` of a code below 200 ends as 200. `/deflate` writes raw DEFLATE, without the zlib wrapper.
* `/cache` looks at `If-Modified-Since` also when `If-None-Match` is there and does not match.
* An echoed body that is cut at the limit inside a character changes from text to base64 (`handlers.go:226`).
* No server has a write timeout: a client that stays connected and stops reading holds its handler (`main.go:226`).

ECH fixture:

* Names are looked up as joined text, so one label that contains a dot is answered as if it were two (`main.go:284`).
* A body over the limit is cut without an error and parsed as if it were whole (`main.go:200`).
* The `svcb` fixtures differ from an ordinary record in more than the parameter they are named for.

Scripts and site:

* The completion of a cancelled, skipped or pull request's run enters the group `pages` before the job's condition is looked at (`pages.yml:35-40`, `71-77`), replaces the build that
  waits and is then skipped. The results that build was for stay unpublished until another build, while `pages.yml:3` says that the site is rebuilt whenever a test run finishes.
  `QuietMeansShown` fails without its condition `~dropped`.
* `README.md:544` says that the fixture suite gates; `run-ech-test.sh:290` exits 0 when a case of it failed, as the comment there says.
* An endpoint's last-reachable time is the collection's, the newest of the workflows' (`collect_results.py:355`, `684`), not that of a probe that saw it up (`collect_results.py:337`):
  a containers run that ends after the network run moves it.
* Of a `<testsuites>` wrapper, which `collect_results.py:232` calls legal, only the first testsuite is read, where line 475 says every suite; `MergeLosesNothing` counts what is hidden as lost.
* `README.md:669` says that pages collects the most recent run carrying artifacts; it looks at the last ten completed runs (`pages.yml:119`), and as many compile-only
  runs in a row leave the workflow out.
* The download filters runs by branch only, where the job's condition also excludes runs of pull requests (`pages.yml:118`).
* A preflight verdict is kept for the life of the JVM (`Preflight.kt:55`), as its comment says.
* A skipped case that has an expected reason counts as expected (`collect_results.py:268-274`); the comment at line 90 says a skip reads as unavailable.
* An artifact without any JUnit XML that can be read is dropped with its endpoint and policy reports (`collect_results.py:502-508`).
* A wrapper whose first testsuite has no children is read whole, under the wrapper's name, because an `Element` without children is false (`collect_results.py:234`).
* A policy record that is not the first of its artifact is not read (`collect_results.py:418-420`).
* A failed collection deploys a site without data files: the script's exit is masked by the pipe into `tee`.
* `/info` keeps an optional listener that failed to bind (`main.go:103`, `main.go:114`).
* `main` may return before the grace period of requests in flight is over (`main.go:192`).
* An edit of an unrelated issue can replace the pending run of a tick (`job-reruns.yml:34`); a later trigger serves it.
* Any failure of the history's fetch starts an empty history (`pages.yml:160`), not only the 404 the comment expects.
* SIGTERM that finds `main` inside `stop()` ends the JVM before both containers are stopped (`EchFixtureService.kt:74`); `NoContainerLeft` excludes it.

## 7. Plan

Done, in this order: the ClientHello cache and its proofs, the life cycle, the dashboard, the ECH run, the status site, the results, the ECH fixture and the proofs of
its parser, the test server's certificates, listeners and endpoints in sessions.

Proved, in this order: the cache, the resolver's parser, the life cycle, the ECH run, the dashboard, the status site, certificates and trust in sessions, the results, the calls of
a session, and the ECH fixture's client. Theorems to come: `EndsAsAdvertised` of `Session`, `QuietMeansShown` of `StatusSite`.

To be modelled: `Results` inside `StatusSite`, whose snapshots then carry a status; `FindingGroups`, complete-link clustering over a table of scores; `Preflight`, the cache of
probes and its report file.

## 8. Running it

    tlc -config MCHelloCache_reuse.cfg MCHelloCache
    tlapm HelloCacheProofs.tla
    tlapm StatusSiteProofs.tla

The other runs are in `PROJECT.json` under `runs`, each with its module and configuration. The longest, `session`, takes two to three minutes with two workers, the others at most one. The proofs take
a few minutes per module, `SessionProofs`, the longest, up to ten.
