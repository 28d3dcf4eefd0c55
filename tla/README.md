# A verification of the HTTP connection pool

This directory holds TLA+ models of the library under `src/src` (an HTTP client
with a pool of connections, on C++20 coroutines, Boost.Asio and Boost.Beast), the
TLC configurations that check them on small instances, and proofs, checked by
TLAPS, that some of their properties hold for instances of every size.  Paths
below are relative to the repository.

## The system

| component | code | state | operations |
|---|---|---|---|
| cache facade | `src/http/connection_cache.*` | the implementation object | `call`: on the implementation's strand, directly or by `co_spawn`; the destructor |
| connection cache | `src/http/connection_cache_impl.*` | `connection_map_` (slots, null while the connection is out), a timer per host, `request_count_`, a timer for request slots | `call`, `acquire_connection`, `replace_connection`, `active_connection` |
| URL parsing, keys | `connection_cache_impl.cpp:20-93`, `src/http/connection_key.*` | none | `parse_url`, `deduce_port`, `deduce_scheme`, equality and hash of keys |
| connection | `src/http/connection_impl.*` | a stream, the read buffer `buf_`, host, port, transport | `rest_call` (public, with one retry; private, one exchange), `connect` |
| stream | `src/http/variant_stream.*` | `var_`: monostate, tcp or tls | `connect` (`resolve`, `connect_tcp`, `handshake`), `close`, `is_open` |
| stop source | `src/async/stop_source.*` | `stopped_`, `signals_`, `next_key_`, shared by tokens; connections with `impl_`, `id_` | `stop`, `connect`, `disconnect`, moves and destructors |
| condition variable | `src/async/condition_variable_impl.*` | a timer | `wait`, `notify_one`, `notify_all`; unused in the library |
| encoding | `src/http/encoding.*` | none | `urlencode`; unused in the library |
| options, types, configuration | `types.hpp`, `*_options.*`, `default_ssl_context.*`, `rhhp_config.hpp`, `util/overloaded.hpp` | defaults | none |
| demo crawler | `tools/demo` | `pending_count` and the timer `cv` of `crawl` | spawns a visit for every host of a list, waits for the last |
| httpcat | `tools/httpcat` | none | spawns a visit for every argument, runs the `io_context` |

A caller awaits `connection_cache::call`.  The cache parses the URL, waits for a
request slot and then for a connection to the host, and awaits `rest_call` of
that connection, on a strand of the connection's own.  `rest_call` uses the
stream it has open or lets `variant_stream` connect a new one.  Every operation
on the network has a timeout and connects a slot to the caller's stop token.
At the end the connection goes back to its slot and one waiter for the host and
one waiter for a request slot are notified.

What is hard here:

* **Condition variables made of timers.**  `cancel_one` posts the handler of the
  oldest waiter and is forgotten when there is none; the waiter runs later, and
  new calls may run before it.  So every wait is in a loop, and whether a wakeup
  can be lost is a question about two queues, a map and a counter at once.
* **Races on a coroutine's frame.**  `resolve` shares its locals with two
  completion handlers and a stop slot.
* **Failure in the middle.**  Timeouts close the socket, peers close and reset
  connections in the pool, one of the two `shutdown` calls throws, and the call
  is unwound between `++request_count_` and `--request_count_`.
* **What outlives an exchange.**  The connection object, its buffer and its open
  stream go from one call to the next.
* **Reliance across components.**  A connection object has no protection against
  two calls at once and relies on the pool; the pool's waiters rely on every
  `rest_call` to end; the cache relies on its owner to outlive every call.
* **Backtracking.**  Where a URL is split is decided by the order in which a regular
  expression tries its matches, over classes of characters that overlap.

What makes each component right: the cache never gives a connection to two
calls, keeps both limits, loses no slot, no request slot and no wakeup, and
every call ends; a connection gives a call the response to its own request, sends
a request again only when that is sound, and never leaves a stream in the pool
on which an answer is outstanding; a stream's `connect` ends, keeps its
postconditions and leaves no handler behind; a stop reaches every live operation
and no dead one; the tools end, and not before their last call; a key leads to
the endpoint that its URL names, and encoded data to the server as it was.

## The modules

| module | what it is |
|---|---|
| `ConnectionPool` | abstract: what a cache promises its callers |
| `ConnectionCache` | `connection_cache_impl`; refines `ConnectionPool` |
| `ConnectionCacheProofs` | proofs about it |
| `MCConnectionCache` | its instances |
| `ConnectionImpl`, `ConnectionImplProofs` | `connection_impl` with the peer, timeouts and stop |
| `Stream` | abstract: what a `variant_stream` promises its owner |
| `VariantStream`, `VariantStreamProofs` | `variant_stream::connect` and `close`; refines `Stream` |
| `StopSource`, `StopSourceProofs`, `MCStopSource` | the objects of `stop_source.hpp` |
| `Exchange` | abstract: what a connection object promises, and demands of its user |
| `HttpClient` | composition: `ConnectionCache`, the objects in its slots, callers that call again and stop their calls |
| `HttpClientProofs`, `MCHttpClient` | proofs about it, an instance |
| `Tools`, `ToolsProofs` | composition: `demo` and `httpcat` on top of `ConnectionCache` |
| `UrlParsing` | `parse_url`, `deduce_port`, `deduce_scheme` as operators |
| `Encoding` | `urlencode` as an operator |
| `Urls`, `UrlsProofs`, `MCUrls` | the URLs that callers write, and what they mean |

All the code runs in coroutines and handlers on strands, so an action is the
code from one suspension (`co_await` of something pending) to the next, with
every call in between.  Operators whose comment begins with "Mutant" are wrong versions of the
definition that follows them; nothing uses them, they serve to show that the
properties can fail.

### ConnectionCache

`connection_map_` maps a key to its `equal_range`, a sequence of slots that hold
a `"connection"` or `"null"`; an `active_connection` is the call's `slot` in that
sequence.  Slots are only ever added, so an index is as good as the reference
`map_value_`.  `host_waiters[k]` and `request_waiters` are the queues of the two
kinds of timers, and a call whose handler has been posted is in `host_ready` or
`request_ready`.

| action | code |
|---|---|
| `Call`, `RejectUrl` | `call` up to its first suspension (`connection_cache_impl.cpp:110-130`); `parse_url` throws |
| `ResumeRequest` | the loop on `request_count_` goes round (121-130), then `acquire_connection` |
| `ResumeAcquire` | the loop of `acquire_connection` goes round (182-229) |
| `Complete` | `rest_call` returned: `replace_connection`, `--request_count_`, both notifications, return or throw (145-164) |
| `Unwind` | `rest_call` threw: the frame is destroyed, nothing else happens |

The three disjuncts of `TryAcquire` are the three ways through one pass of the
loop: take, create, wait.  The order of posted handlers is free, and so is which
of several available connections is taken.

### ConnectionPool

Callers, hosts, and numbered connections: a call waits, is served by a free
connection of its host while few enough others are served, and is done or
broken.  `ImplementsPool` of `ConnectionCache` says that the cache refines it: the two
queues and the posted handlers all map to "waiting", `rest_call` to "served",
an unwound call to "broken", and a slot to the number of a connection.

### ConnectionImpl

One connection object used by one call after another (that calls do not overlap
on it is `NoSharedConnection` of the cache).  `stream_` is `"monostate"` or the
state of the socket: `"up"`, `"fin"` (the peer sent a FIN) or `"reset"`.  The
peer's side is `owed` (what it has yet to send) and `wire` (what it sent and
nobody has read).  A response is two parts, cut somewhere in its header, and TCP
brings one or both at a time.  Its body is not split further, because Beast takes
a body off the buffer as it comes.

Assumed of the peer: it answers each request with exactly one message, in the order of
the requests, or breaks off; it sends no interim (1xx) response and nothing that was not asked
for.  It may be slow, stop anywhere, close or reset.

`Parse` is `async_read` on what has been read so far.  It waits for the end of a header;
takes a response that begins with a status line; or refuses what it has seen, as
malformed or as over `body_limit`, which the model allows at any time, of a sound
response too.  What it refuses it may have used up in part: `Leftovers` are the rests
that may stay in `buf_`.  `BrokenOff` is what stays there when a transfer breaks off: a
piece of a header, or of a chunk line of the body.

| action | code |
|---|---|
| `RestCall` | public `rest_call`, to its first suspension (`connection_impl.cpp:23-58`) |
| `ConnectSucceeds`, `ConnectFails` | `connect` returns; the exchange begins, or `rest_call` ends |
| `WriteDone` | `async_write` ends, the stop token is looked at, `async_read` begins on `buf_` (58-88) |
| `ReadSome` | bytes arrive and the parser looks at the buffer; with a message, the end of the exchange (90-103) |
| `TransferFails` | cancelled, end of stream or reset, and what follows: `shutdown`, `close`, retry or return |
| `Timeout` | Beast closes the socket; the `shutdown` of line 94 throws |
| `Stop` | the caller's `stop`, which cancels what is under way, or comes between two steps and cancels nothing |

A `shutdown` fails exactly on a socket that is not connected any more: after a
reset and after a timeout.

Calls are numbered, and begin in the order of their numbers: they differ in nothing
else, so this takes the place of symmetry.

`buf_` outlives the stream (finding 2), so what a connection object promises of its
answers it promises under the premise `ClosedIsDrained`, that no closed stream has left
bytes in it.  `AnswersUnlessStale` and `DrainedUnlessStale` are statements about
behaviours in which the premise holds throughout.  These contain failures, refusals that
leave nothing behind, stops, timeouts, retries and late answers; what they leave out is the finding.

`ImplementsExchange` says that the object keeps the promise of `Exchange` to any
caller, with a peer that does as it likes.

### Exchange

One object, the call it serves, how often the request of a call was sent, and how
the call ended.  `Begin`, `GiveUpStream`, `Connect` and `End` are what may be seen of
`rest_call` from outside: a request goes out on the stream that is open, then once
more on one new connection; a call that is stopped sends nothing more; a call does
not fail before it has tried a new connection; an exception destroys the object.
`Begin` requires `serving = {}`, which the object takes for granted.

### HttpClient

The variables of `ConnectionCache`, and for each slot the state of its object as
`Exchange` has it.  `BeginExchange`, `GiveUpStream`, `Connect` and `EndExchange` are
the object's steps (`connection_impl.cpp:23-46`), `ExchangeReturned` and
`ExchangeThrew` what `call` does next (`connection_cache_impl.cpp:138-164`).
`CallAgain` makes the calls of `ConnectionCache`, which end there, into callers that
never rest, and `Stop` stops a call wherever it is, in a queue too, where nobody looks.
`WatchedKey` and `WatchedSlot` are constants that stand for any of the objects:
`ObjectsAreUsedInTurn` maps the steps that concern that object to `Exchange`.

So the composition closes.  `ConnectionImpl` implements `Exchange` if its calls come one
at a time (which `RestCall` has as a guard); the cache, by `ObjectsAreUsedInTurn`,
uses every object so; and the cache needs of an object only that it ends
(`RestCallEnds`) and what `Exchange` says of its result.

### Tools

| action | code |
|---|---|
| `Spawn`, `AllSpawned` | the loops of `crawl` (`tools/demo/main.cpp:39-62`) and of `main` (`tools/httpcat/main.cpp`) |
| `StartVisit` | a visit that was posted runs up to its first suspension, through the facade |
| `VisitStep` | a visit goes on inside the cache |
| `VisitEnds` | the completion handler: `--pending_count`, `cv.cancel_one` |
| `ResumeCrawl`, `RunReturns` | `crawl` tests its count again; `io_context::run` returns |

`main = "done"` is where the cache is destroyed.

### UrlParsing, Encoding, Urls

A string is the sequence of its codes, since the properties are about which
characters are where.  `Matches` is the set of all the ways in which `url_regex` can
match, as the lengths of its groups, and `FirstMatch` takes the one that
`regex_match` finds first, because each quantifier is greedy and tried in turn.  `Urls`
writes URLs from pieces, or data, and says what they mean with neither a regular
expression nor a group.  `Decodes` says what a server reads out of encoded data, as a
relation: the string can be cut into one piece for every byte.

### VariantStream

`resolver` and `timer` are the two operations of `resolve`: running, posted (the
resolver's with its outcome), or done, which is when `pending_resolve` and
`pending_timer` are false.  `cv` is the wait that both handlers end.
`attempt` is the connect to one endpoint, or one read or write of a handshake, and
`deadline` says whether the Beast timer watches it.  `CancelResolver` may do
nothing: a query that a resolver thread has begun runs to its end.
`NextEndpoint` is the loop of `async_connect` over the endpoints.

`ImplementsStream` says that the stream refines `Stream`: a connect leaves it open
exactly when it succeeds, and ends with `operation_aborted` only when its caller
stopped it.  The second is not plain to see, since the handlers of `resolve` cancel one another
with that very error; it is what `ConnectFails` of `ConnectionImpl` takes for granted,
and through it the promise of `Exchange` that only a stopped call is aborted.

### StopSource

`source[s]` is the `impl_` of a `stop_source` and `impl_[c]`, `id_[c]` are the
members of a connection; a null pointer stands for a moved-from and for a
destroyed object alike.  `StopState` is `stop` through a pointer that may be null.
The slots of this library cancel I/O and never call the stop source, so `stop` is
one step.  An object is not move-assigned to itself.

## The runs

| run | instance | what it shows |
|---|---|---|
| `cache_safety` | 6 calls, 2 hosts, 2 connections a host, 4 requests | no connection is shared, slots and requests are accounted for, wakeups are not lost, queues match suspensions, the pool does not stand still, refinement of the pool |
| `cache_liveness` | 4 calls, 2 hosts, 1 connection, 2 requests, fairness | every started call finishes if no `rest_call` throws; a host is held up by another only through the request slots |
| `cache_leak` | 3 calls, 1 host | finding: an empty slot that nobody uses |
| `impl_safety` | 3 calls, fairness | a request is sent at most twice, the second time on a new connection after a reused one; a stop is final; every `rest_call` ends; the object keeps the promise of `Exchange`; unless a closed stream leaves bytes in `buf_`, a call is given its own response and a stream that is left open is drained |
| `impl_stale` | 2 calls | finding: a stale header in `buf_` |
| `stream` | names of up to 3 endpoints, tcp and tls, unlimited connects, fairness | frame safety, wakeups and outcome of `resolve`, what a stop lets happen, refinement of `Stream` (with the postconditions of `connect`), termination |
| `stream_stop` | 2 endpoints | finding: a stop goes on to the next endpoint |
| `stop_source` | 2 sources, 2 states, 3 connections, 3 keys a state | states are owned or stopped, slots are held, live connections are heard |
| `client` | 3 callers without end, 1 host with 1 connection, 2 requests, one caller that stops its calls, fairness | what is in the pool is at rest; the object is used as `Exchange` demands; only a caller that is overtaken for ever waits for ever |
| `tools` | 4 visits, 1 host with 2 connections, 3 requests, fairness | the cache outlives the calls, `crawl` does not miss its last visit, the programs end |
| `urls` | 3 protocols and up to 4 of 8 pieces; data of up to 2 of 17 boundary chars | the splitting of a URL with a path, keys and endpoints, encoded data |
| `urls_target` | the same | finding: an empty request target |

**Bounds.**  The cache has 2 connections a host and 1000 requests; what the code
does depends on whether a limit is reached.  With 6 calls and limits 2 and 4 a
host's three calls fill it and queue, both hosts fill the cache, and two more
calls queue for it and overtake resumed ones; 1 and 2 do the same
for liveness with fewer calls.  For a connection object, three calls let a stale
part pass over a call that fails to the one after it, and the number of
connections is bounded by one for each call, which `TypeOK` states.
Three endpoints have a first, a middle and a last.  Three
connections of a stop source are needed for one that is assigned over, one that
it is moved from and a third that shares the state; `MaxKey` bounds how often a
state is connected to.

In `client` three callers are what it takes for one to be overtaken by turns by
the two others, and each of them finds both queues in use; a single stopped caller
is enough because stops of different calls do not meet (`Stop` touches no other
call), while all three being stopped multiplies the states.  In `tools` four visits
on two connections and three requests queue in both queues, and a visit may lose a
connection while the others go on.  In `urls` the pieces are the delimiters of the
expression, a letter, and the words `http` and `443`, which turn up as host, port
and path; four of them give the longest URL in which each group of the expression is
at once nonempty; the data holds the ends of every class of `urlencode` and of the
range of `char`.

**Deadlock** is not checked where the system really stops: when all calls have been
made (or are stuck behind a leak) in the cache, the connection and the client, when
a program is done, and when a URL has its last piece.

**Fairness.**  In the cache a posted handler runs (the executor's promise) and a
`rest_call` ends, returning or throwing: `RestCallEnds` shows that it does. There,
a connect ends (`ConnectEnds`) and a transfer's timeout expires; nothing is
assumed of the peer, of the caller, or of a stop.  In the stream posted handlers
run, a query ends, a timer expires, and an attempt to connect is given up by the
operating system; this last is needed because a stop cancels the Beast timer and
goes on to the next endpoint.  That a new call is made is never assumed.
In the client, `Advance` is what happens to a call without its caller: posted handlers
run and its exchange ends.  In the tools the coroutines of the program and of each
visit go on when they can, since they run on one `io_context`.

## Findings

1. **A timeout or a reset leaks a connection and a request slot.**
   `connection_impl.cpp:94` shuts the socket down with the overload that throws.
   After a Beast timeout, or a reset, the socket is not connected and it does.
   `connection_cache_impl::call` has no handler: the slot of the connection stays
   null, `request_count_` stays raised, and no waiter is notified.
   After two such calls every further call to that host waits for ever (run
   `cache_leak`; the condition of `CallsFinishUnlessUnwound` is there for this reason).
2. **A stale header.**  `buf_` belongs to the connection object and is not cleared when its
   stream is closed, so what was read of a header before a stop or an
   end of stream precedes the response on the next connection (run
   `impl_stale`), and so do the bytes that `async_read` leaves there when it refuses a
   response.  (After a reset line 94 throws, and the object goes with its buffer.)
   As long as nothing is left, each call gets its own answer (`AnswersUnlessStale`).
3. **A stop does not end a connect with several endpoints** (run `stream_stop`),
   against `variant_stream.hpp:75-77`.
4. **A URL without a path is requested with an empty target.**  `url_regex`
   (`connection_cache_impl.cpp:73`) accepts `https://yourwebhost.com`, the usage that
   `README.md:31-32` shows, with nothing for the target, and `call` passes that on
   (132-133): the request line has nothing between the method and the version (run
   `urls_target`).

Also visible in the models, with no text to hold them against: a stop during
`resolve` is usually reported as `timed_out`, because the timer's cancelled
handler runs before the resolver's; a complete response is dropped when the
`shutdown` after it fails (`connection_impl.cpp:98`); a call that is queued in the
cache does not notice its stop.  A waiter that was notified may find the connection
gone to a caller that called again, and goes to the end of the queue, for ever if
need be: `ServedUnlessOvertaken` says that this is the only way, and it needs both
cases of `Overtaking`, for the two queues.  Two spellings of a port, or of a host,
make two keys for one endpoint, so `max_connections_per_host_` is a limit for each
spelling.  A fragment is sent as a part of the target; a query that
follows the host at once becomes a part of the host name.  Once `url_regex` has
matched, `deduce_scheme` is never called without a scheme and neither deduction throws.

## The proofs

Every theorem is about the specification without fairness and holds for all values
of the constants, given the named assumptions: the set of calls is finite and both
limits are at least one (`CacheAssumption`; `ImplAssumption` for one object), the watched object is one of the
cache's (`WatchedAssumption`), a name has at most `MaxEndpoints` ≥ 1
endpoints (`EndpointsAssumption`), `NoState` is not a state (`StopAssumption`), and the
strings that URLs are made of are sequences of character codes, the data is made of values
of a `char`, and the first `://` of a URL is the one behind its protocol (`UrlsAssumption`).

*ConnectionCache.*  The invariants are proved one after the other, each from those
before it, which together are the inductive invariant: types; the queues
(`QueuesMatchSuspensions`, which shows that the call a timer wakes is suspended
there and that taking it off its queue leaves the others listed); exclusiveness
(`NoSharedConnection`); the count of requests, by the cardinality of the set of
admitted calls; then `NoLostRequestWakeup`.  `SlotsConserved` counts: an empty
slot corresponds to exactly one holder, so a step moves one element between the
sets it counts.  `NoLostHostWakeup` is inductive with the queues: a connection
comes back to the pool together with a posted waiter, and a waiter leaves
`host_ready` either with a connection or because there is none.  From the counts and
wakeups together follows `NoStandstill`, the safety that liveness rests on: while calls
wait another moves, or exceptions have lost what they wait for.  Fairness has to add
only that what can move does, and that a waiter is not overtaken for ever.  The refinement
needs exclusiveness (the slot taken is free in the pool's sense) and
`RequestsConserved` (the number of occupied connections is below the limit when a
call begins to be served).

*VariantStream.*  `ResolveDecides` says that the handlers, in whatever order, leave an error or
an endpoint, and not an error beside an endpoint without a stop.  Frame safety needs what resolve knows while it waits: with
the resolver's handler behind it and no error there is an endpoint, and with the
timer's handler before the resolver's there is an error (`ResolveInv`).  The three
action properties follow from the same invariant, action by action.  The refinement of
`Stream` needs `AbortInv`: what has been aborted was so by a stop, or it is a query that
the timer's handler cancelled, after which `ResolveError` stores nothing.

*StopSource.*  `SlotsAreHeld`, `ConnectedIsHeard` and `NoneKeptByStop` are inductive
together, with the fact that the keys of a state are at most `next_key_`: it makes
the key of a new slot new.

*HttpClient.*  The steps of the cache are those of `ConnectionCache`, so that its
invariants hold as lemmas of a step, except that `CallAgain` is new and is shown to
keep them.  To these comes what an exchange has to do with its object
(`ExchangeInv`, `ObjectInv`): a call serves only while it is in `rest_call`, its
object is then in no other's hands, and an object that threw belongs to the slot
of a call that has unwound or is about to.  With that the refinement of `Exchange` by each object goes
step by step: a step of a call on another object, or of the queues, is a stutter
of the watched one.  The counts and wakeups of the cache (`RequestsConserved`,
`SlotsConserved`, `NoLostHostWakeup`, `NoLostRequestWakeup`) are proved for these callers
too (`CountInv`), and with them `NoStandstill`: there a call is made once, here for ever,
and nothing drifts.

*Tools.*  A step of the tools is one of the cache or leaves it alone
(`ToolsUseTheCache`), so all that is proved of the cache holds while they run.
`ProgramInv` counts: `pending_count` is the number of visits spawned and not ended, so
it is zero after the last of them alone; and a call that is over stays over
(`FinishedStays`).

*Urls.*  `ParsedUrl` gives what `parse_url` makes of every URL, of any length and over
any characters, with no regular expression in it.  `FirstMatch` is a `CHOOSE`, so it is
shown that one match is tried before all others: the protocol ends at the only `://`
that the expression can take, the host, being greedy, at the first colon or slash, and
the port, if there is one, at the first slash.  With it `ParseAgrees` and
`KeyLeadsToEndpoint` are matters of cases, and the type invariant is inductive enough.
`ParseAgrees` speaks of URLs of the form `protocol://host[:port]/path[?query]`, which generic syntax
divides in the same way; of those without a path or with a fragment it says only that they
are accepted or refused as invalid (finding 4, and what is said behind the findings).
For the data, `urlencode` is shown to be a concatenation that grows by one piece for each
char (`WrittenByUrlencode`), each piece gives its byte back (`EncodedByteIsDecoded`), and so the places
where the pieces begin are the cuts that `Decodes` asks for (`UrlencodeIsDecoded`).  What is
inductive here is shown by a shortest counterexample (`Least`, from the well-foundedness
of the natural numbers), which needs no induction theorem.

*ConnectionImpl.*  `CoreInv` is types, what `pc` says of the rest (`Control`), and a
count: no more connections than calls that may have connected.  A transfer can end in three
ways only (`TransferSteps`): the attempt fails, the call is answered, or the parser waits
for more; everything that does not look into the buffers is proved from these.
`SentInv` adds what an open stream remembers, namely that it is the connection of the
last request, which makes a second sending one after a reuse.  The refinement of
`Exchange` follows action by action from `CoreInv`.  `WireInv` says what is on its way:
what is in `buf_`, on the wire and owed is, in this order, part of the one response to
the request under way, and nothing when none is.  A step keeps it (`FreshStep`) if
`ClosedIsDrained` holds behind it, and with it `AnswersOwnRequest`; `FreshInvariant`
makes of this that the premise for the whole of a behaviour gives the conclusion for
the whole of it, from which `AnsweredUnlessStale` and `DrainedStreams` follow.  The run
`impl_stale` shows that without the premise the former fails.

With `ImplKeepsPromise` and `ObjectsInTurn` both halves of the composition are proved:
a connection object keeps the promise of `Exchange` if it is used by one call after
another, and the cache uses it so if it keeps that promise.  There is no circle, since each side is
a statement about steps: what one step demands of the other component was
established by the steps before it.

Only model-checked: every liveness property (`CallsFinishUnlessUnwound`,
`HostsAreIndependent`, `RestCallEnds`, `ConnectEnds`, `ServedUnlessOvertaken`,
`ProgramEnds`), because TLAPS cannot treat liveness under fairness.  Every invariant, every
action property and every refinement that a passing run checks is proved.

## What is not modelled

* The contents of requests and responses: a response matters by whose it is, and
  what its header says of the connection.
* The build with `MULTI_THREADED`, in which the unsynchronised shared state of a
  stop source may be used from several threads.
* Stop slots that call back into their stop source: the library has none.
* `condition_variable_impl`: nothing uses it.  The timers that the code uses the
  same way are in `ConnectionCache`, `VariantStream` and `Tools`.
* `urls_large_data.cpp`, by far the longest file: a list of host names, which are the
  keys of `Tools`, and no behaviour.
* Logging, arguments of the command line, options and their defaults, the SSL context,
  the hash of keys.

## Plan

Done: the cache with `ConnectionPool`, connections, streams and stop sources,
their composition, the tools, URLs and encoding.  Left, in order of importance:

1. *Threads*: the build with `MULTI_THREADED`.  The steps of `stop` and of a slot's
   connect on two strands, with the races on `stopped_` and `signals_` as choices over
   their outcomes, and which use of a token is safe.
2. *Stop through the whole client*: `StopSource` under `HttpClient`, so that a
   connection of a frame that is unwound is seen to go with it.
