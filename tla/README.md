# bunshin in TLA+

bunshin gives every visitor of a web page a shell of their own: the browser talks to nginx, nginx asks
the broker which runner the visitor's session is on, the broker keeps the pool of runners in DynamoDB (AWS) or Firestore (Google Cloud),
and the runner executes commands in persistent bash processes. Four such stacks (`BUNSHIN_STACKS`) take
over from each other when one has no idle runner or cannot be reached. This directory holds TLA+
models of it, the TLC runs that check them and the theorems that TLAPS checks.

## 1. The system

| Component (source) | State | Operations | Talks to |
|---|---|---|---|
| Store (`broker/store`) | one record per runner process: idle, or busy with a session; on DynamoDB two indexes that trail the table | `Register`, `AcquireIdle`, `FindBySessionID`, `Delete` | the database: every operation is one or several requests |
| Broker service and HTTP handlers (`broker/service`, `broker/handler`, `broker/healthcheck`) | none of its own; a request is a goroutine | resolve, close and look up a session; register and deregister a runner | store, `GET /health` of runners, nginx |
| Stack list (`broker/stacklist`, `broker/config`) | the fallback order of this stack | `Parse`, `Split` | handler |
| nginx (`nginx/nginx.conf`, `nginx/lua`) | none of its own; a request waits in it | arrive, resolve, forward to the owner, fall back, reassign | local broker, nginx of other stacks, runner |
| nginx port forward (`nginx/lua/pf_resolve.lua`) | none | find the runner of a preview host | broker, runner |
| Runner process (`runner/main.go`, `register.go`) | registering, serving, stopping | register with retry, serve, deregister on SIGTERM | broker |
| Runner shells (`runner/shell.go`, `shell_manager.go`, `handler.go`) | the shells, and per shell a bash, two readers, a lock, `broken` | create, execute, delete, close all | bash, browser (SSE) |
| Supervisor (`runner/supervisor.go`) | the demo app's process group | start, restart, SIGTERM, SIGKILL | perl app |
| Demo app (`runner/app`) | handler file, forked children | serve, reload, run content under a deadline | browser preview |
| Browser terminal (`front/src/terminal.ts`, `client.ts`) | busy, what `connect` and `run` wait for, two cookies | connect with backoff, run, reconnect | nginx |

What is hard in it, and the properties that make it correct:

* **Store.** Nothing is locked. Brokers assign, runners register and are deleted and indexes catch up between any two requests of one
  `AcquireIdle`. A runner must go to one session, a deleted record must not come back by a late update, and
  `ErrNoIdleRunner`, on which a request leaves the stack, must mean that no runner was idle all along. The walk must end.
* **Service.** Every resolution reads, checks the runner and writes in separate steps. Other requests of the same session, runners that stop, and failures
  fall between. A runner serves one session in its life, or, where queries trail, no more sessions than its record was put; a session stays on its runner; a runner is left busy for nobody only
  by a failure; what the client is told about replacement is true.
* **Routing.** The hops of a request are a call stack across stacks that go down and come back. 503 must mean that every stack was asked, chains must be bounded,
  a session that is well must not be left, and every request must be answered.
* **Shell.** Two goroutines read one bash; a client leaves in the middle of a command; commands end bash, take lines of their own script or leave processes
  behind. An answer must be all of its command's output and nothing of another's, and a session that lost track must be marked broken.
* **Runner process.** Shells are created, used, deleted and swept at shutdown by goroutines that share a map only for an instant. A shell must have
  one who closes it, nothing may run in it afterwards, and a process that leaves in order must leave neither a bash nor an app. A signal may come
  at any time, also while another goroutine listens for it.
* **Demo app.** The file it runs is replaced under it, its code may hang, die, fork or not compile. A page must be of a current version and whole, the
  connection answered, the child reaped.
* **Browser terminal.** The shell it talks to may be gone in many ways, of which it hears or does not; the page before it may still be speaking.
  Whoever can type must have a shell or be told, and the input must come back.

`PROJECT.json` lists every hazard at the line where it bites, with the property that would notice it.

## 2. Modules

```
RunnerPool        what the store promises                     <- RunnerStore implements it, Broker extends it
RunnerStore       the paged two-segment search                MCRunnerStore    RunnerStoreProofs
Broker            service, runner processes, requests         MCBroker         BrokerProofs
StackRouting      nginx, fallback, reassignment               MCStackRouting   StackRoutingProofs, StackChainProofs
ShellSession      what a shell promises                       <- BashShell implements it, ShellManager uses it
BashShell         one bash and the calls that share it        MCBashShell      BashShellProofs
ShellManager      the shells of a runner, and the handlers  \
Supervisor        the process group of the demo app          > extended by RunnerProcess
RunnerProcess     the main goroutine, signals, deadlines      MCRunnerProcess  RunnerProcessProofs
DemoApp           PUT of the module, server, content runner   MCDemoApp        DemoAppProofs
Terminal          the browser page, its cookies, the server   MCTerminal       TerminalProofs
```

`RunnerPool` is the specification two modules meet at: `RunnerStore` implements it (`RefinesPool`), and `Broker` is built on it, so that the
service is checked against every interleaving of atomic pool operations and not against the search's pages again. `ShellSession` is another: `BashShell` implements
it (`RefinesSession`), and `ShellManager` is shown to use each of its shells as one (`ShellsKeepPromise`), so what the handlers assume of a shell is what the protocol with bash gives. `RunnerProcess` composes
`ShellManager` and `Supervisor` with the main goroutine. `StackRouting` reduces a
stack's broker to the number of its idle runners and a session to the stack it is on; `Terminal` sees all of the server as the answers it may give.

### RunnerPool and RunnerStore: `broker/store`

`record[r]` is the table (`Absent`, `Idle`, or the session it is busy with). `indexed` is the set of runners the state-index shows as idle; with `Lagging`
(DynamoDB) it changes by `Reindex` some time after the table, without (Firestore) with it. In Firestore a record is idle if `currentSessionId` is null, in DynamoDB if
`state` is idle. The difference changes nothing above the conditional update. `candidates[s]`
is a history variable: the runners that were idle, and shown as idle, ever since `AcquireIdle(s)` began. `Exhaust` may
return `ErrNoIdleRunner` only when it is empty.

`RunnerStore` has the local variables of `AcquireIdle`: `start`, `segment`, `cursor` (`ExclusiveStartKey`, or the last snapshot's id),
`page`, `more` (`LastEvaluatedKey`, or a full page), `tried`. One action per request to the store: `QueryPage`, and per candidate `AssignSession`,
`ConditionFailed`, `AssignLost` (applied, error returned), `AssignResent` (applied, sent again by the SDK and refused); `Fail`
is any request that fails without effect. Runner ids are `1..N`; the random start is the number of ids up to it,
which is all a comparison can tell.

### Broker: `broker/service`, `broker/handler`, `runner/register.go`, `runner/main.go`

A request's `pc` is the call it waits for: `find`, `check`, `delete`, `acquire`, `acquiring`, `checkNew`, `deleteNew` of
`ResolveSession` and `createSession`, `findToClose`, `deleteToClose` of `CloseSession`, `lookup` of `LookupSession`. Each call is one action, with its error paths. `createSession` draws a
fresh id per call, so the id is identified with the request; a runner process draws a fresh id too, so id, record key and
address are one value. A runner is `registering` (the socket is open, nothing answers), `serving` after 201, `stopping` after SIGTERM, `stopped`. `Faults` selects
what may go wrong: lost register replies, store errors before or after a write, resent writes, cancelled callers, false health-check failures, crashes.

`PostRegister` is the whole of the handler: the record is put or there is one already, and the reply is 201, 409 or 500. A 500 may come after the put took effect, and a put that the client library sends again meets the record it wrote itself, or whatever became of it, so
a runner may go on registering while its record is live, with or without a reply. `puts[r]` is a history variable: how often the record of `r` was put, at most `MaxPuts` times. A put that is under way when its connection breaks is taken to land before the runner posts
again, 3 s later; one that lands later still is not modelled.

### StackRouting: `nginx`, `handler.signalFallback`, `stacklist`

`hops[c]` is the stack of nginx instances the request of browser `c` is in, each with the place in its handling: `arrive` (`decide_arrival`), `resolve` (subrequest `/_resolve`),
`proxy`, `waitOwner` (`@forward_owner`), `waitFallback` (`@forward_fallback`), `resolveAgain` (`@reassign_session`), `proxyAgain`, `waitReassigned`
(`@forward_reassigned_fallback`), `respond`. `resp[c]` is the response on its way back. An answer nginx gives in the runner's place loses the headers of the resolution in `/api/` (`error_page`), and keeps them in `@reassign_session`, which was reached by an `error_page` already (`ProxyRunner`). Stacks go down and come back at any time (`Break`, `Recover`); a hop on a stack
that is down is lost and the hop below gets 502 or 504 (`HopLost`), also after the lost hop acquired a runner. Headers that only outside clients could forge are dropped on arrival in the code and do not occur here.

### BashShell: `runner/shell.go`

`lock` is `mu`. A call of `ExecuteStream` is at `wait`, `scan` (the loop over stdout), `stderr` (`<-s.stderrDone`) or `done`. Its local variables `pendingEmpty`,
`sendErr` and the parsed exit code exist once, as only the holder of the lock has them. `sent[c]` is what went to `stdoutCh`. `stdin`, `stdout`, `stderr` are the pipes; an item says who wrote
it and whether it is a line, an empty line, a line too long for the scanner, a line of the script or a marker. Markers contain the time of the call and are taken as unique.

| Action | Code |
|---|---|
| `Start` | lock, `broken`, `resetStderr`, the new marker, `ctx.Err()`, `WriteString` of the script |
| `PassLine` | one round of the loop: drain, `pendingEmpty`, `sendLine` with its `select` |
| `SeeMarker`, `Finish` | the marker with its exit code; `<-s.stderrDone`, and `broken = nil` after a drain |
| `ScanFails` | the end of the loop: `Err()`, or the end of stdout |
| `ReadStderr` | one chunk for `readStderr`, with `checkStderrMarker` |
| `Close` | lock and write `exit`; `cmd.Wait`, which closes the pipes |
| `Cancel` | the client of `handleExecute` disconnects |

The other actions are bash and what runs in it. `BashLine` takes the next line of the script. `CommandActs`, `CommandEnds` and `StrayEnds` are whatever a command can do to the protocol; the constant `Habits` selects which of it commands do in an
instance: `reads` (takes lines from the stdin it shares with bash), `exits`, `mutes` (redirects the stderr of bash), `strays` (leaves a process behind that writes once more), `overlong`. `bash.out`, `bash.err` and `bash.code` are history variables: what each command
really wrote and returned, which `AnswerComplete` and `AnswerCode` compare with what the caller got. A script is written to stdin in one step, and the lines that reload the environment are left out: they print nothing and save or restore no exit code.

`ShellSession` forgets bash: `state[c]` is where a call is for its caller, `holder` is `lock`. `Start` maps to `Begin` or `Refuse`, the rounds of the loop to stutters or to `Drain`, `Finish`
and `ScanFails` to `End`.

### ShellManager, Supervisor and RunnerProcess: `runner/shell_manager.go`, `handler.go`, `supervisor.go`, `main.go`

A handler (`at[r]`) is between two lockings: `insert` after `newShell` and before the map is locked, `get`, `run` (waiting for the shell or in `ExecuteStream`), `remove`, `close` after the shell
was taken out of the map. A request that ran no command makes room for another; one that ran a command is `done`, so `Sees(r, i)` can map it to a call of shell `i`. `life[i]` follows bash from `newShell` to the end of `Close`, `holder[i]` is the
shell's mutex. `Get` may respond in any case, which stands for the checks of body and address that follow it, too.

`Supervisor` has `supervise` with `superviseOnce` (`sup`), the leader of the process group and one child of it. A process that is `deaf` ignores SIGTERM, as code that a visitor has edited may. `left` is a history variable: a child that outlived a leader that ended on SIGTERM, which
ends the wait in `superviseOnce` without a SIGKILL.

| Action of `RunnerProcess` | Code |
|---|---|
| `Start`, `Resolve` | `start` up to the registration: identity, `BROKER_URL`, the goroutine that listens for the signal |
| `ListenerStep` | that goroutine: takes the signal, cancels, puts it back; or the registration is over |
| `Registered`, `GiveUp` | the end of `register`; `run` starts supervisor and server |
| `Stop`, `Shutdown`, `Expire` | the `select` of `run`, `supCancel`, deregistration, `srv.Shutdown`, and the deadline the last two share |
| `CloseAll` | the swap of the map, then `Close` shell by shell |
| `Exit` | `<-supDone` |

`AcceptRequest` is possible until `srv.Shutdown` returned with nothing left, since open connections still bring requests while it polls, and handlers go on as long as the process lives.

### DemoApp: `runner/app`, `handlePutAppHandler`

`tmp[n]` is the temporary file named after request `n`; `file` is the module. A version is named by the PUT that wrote it. The server process has the version it loaded (`loaded`) and the one
whose `stat` `Module::Refresh` took down (`stamp`); the process of a connection inherits both (`code`, `known`) and loads again when the file's differs. `old[c]` is a history variable: what had been replaced by the time of `accept`. Its child and
pipe are those of `ContentRunner`: `piped` is the tag in the pipe, `held` says that another process keeps it open. A child may close its end and go on, as a plain `exec` does (`ChildCloses`): this is the end of the payload, the child is not killed, and `waitpid` waits for it
without a deadline. `Module::Refresh` is external: two versions are taken to differ in size, inode or time. Not modelled: a process that writes what looks like an answer, and a client that never finishes its request, for which `drain_request` waits.

### Terminal: `front/src/terminal.ts`, `client.ts`

`at` says which `await` the two async functions are in; `sent` and `answer` are the request and the response of each, `deletes` the `keepalive` DELETEs of pages that went away. The cookies are changed by every response that arrives, whoever waits for it. The server
side has what an answer may be: a session is resolved to its runner if the record is there, and to a new one otherwise. The replacement of a lost runner is marked as reassigned if its broker has an idle runner; if not, the request goes on through `@forward_fallback` to a stack that does not know the session, and that one's answer has no mark (`Resolved`). A shell is known to one runner. Names that nothing refers to any more are used again.
`silent` records that the shell went away without a word to this page: its runner left in order and took the record with it, its bash was ended by a command, the replacement came from another stack without a mark, the mark was lost with its answer or used up by a refused request or by a DELETE, or the DELETE of the page before was answered late and
its `Set-Cookie` took the new shell's cookie or session. These are real weaknesses, against what the comment at `terminal.ts:191` wants (no input without a shell), and `InputHasShell` is claimed for all other histories; after a silent loss commands fail until the page is loaded again.

## 3. Runs

| Run | Instance | Shows |
|---|---|---|
| `store_race` | 2 runners, 2 calls, pages of 1, lagging index, 0.24 M states | `ScanCovers`: a candidate is never behind the walk; `ScanInv` is its inductive form. `RefinesPool`: the search is a behaviour of `RunnerPool`. `CallReturns`: the walk ends |
| `broker_firestore` | 2 runners, 3 requests, records put twice, all faults but resent writes, 0.91 M | one-to-one matching and the service's five other properties |
| `broker_dynamo` | 1 runner put twice, 3 requests, lagging, all faults, with fairness, 0.23 M | `OneSessionPerPut` although both indexes trail, writes are resent and registrations take effect unseen; every request is answered |
| `broker_conflict` | violation | a runner is refused with its own registration |
| `broker_read_your_writes` | violation | a session is not found right after it was made |
| `routing_chains` | 3 stacks, 1 browser, all faults, with fairness, 0.11 M | 503 only after all were asked, chains bounded, healthy sessions kept, every request answered |
| `routing_excludes_owner` | violation | a dead owner is asked again as a fallback |
| `shell_in_step` | 2 calls and `Close`, all habits, 4.2 M | a session with anything left over is broken, and stays so; answers are of their own command; `ShellSession` is implemented |
| `shell_progress` | 2 calls and `Close`, commands may end bash, 2 exit codes, pipes of 1 line, with fairness | every call and `Close` return; answers are complete and have the right code |
| `runner_process` | 2 requests, 2 shells, 1 signal, with fairness, 0.59 M | one owner per shell, each used as `ShellSession` allows, nothing left at the exit, the signal is heeded, the app comes back |
| `terminal` | 2 loads, 3 runners, 3 shells, with fairness, 0.66 M | who can type has a shell or is told, but for silent losses; one of `connect` and `run` at a time; the input comes back |
| `demo_app` | 3 PUTs, one broken, 1 connection, with fairness, 0.34 M | whole files, current pages, reaped children; every connection answered, but for a child that closes the pipe and never ends |

Each property of a passing run has a mutant in `PROJECT.json`: an operator defined beside the real one that makes a plausible mistake (a dropped
condition, a released instead of a removed runner, a cursor that stands still, a rotation that forgets its head), with which TLC finds the property violated.

**Bounds.** Ids are used up, never reused, so a run is finite without state constraints. Two calls that race for two runners show every
order of two conditional updates; a third call sees only what the second did to the table. With two runners and pages of one there is a full page, an empty one and a full last page in either segment,
depending on the start; larger pools and pages, and Firestore's consistent queries, are left to the theorems, which hold for all of them. Three requests are one that creates a session and two that use it at the same time, on two runners, of which the first can be
removed. With trailing indexes, what can go wrong with one session per put happens on one runner: `broker_dynamo` gives a runner to one session, takes its record away, puts it again, gives it to another and has a third request meet the index entries of either. Both properties were
checked with two runners and two requests as well, each record put once (1.5 M states); any number of runners, requests and puts is left to the theorem. Three stacks are the least for which a fallback falls back again; the deployment has four (`deploy/aws/stacks.env`), for which the
invariants were checked as well (1.6 M states, an instance of `Order <- Four`), and `MaxIdle` 1 is enough for a pool to be empty or not at each visit; a runner is added by `AddRunner` whenever there is room.
One browser suffices for the routing properties: browsers share only `idle` and `up`, which `AddRunner`, `Break` and `Recover` already change at will, except that nobody else takes a
runner; a pool that is found empty is covered by the initial states.
Two shell calls suffice: what a call leaves for later ones is the state of bash and the pipes, and the second meets every such state. One line per pipe and command already gives an empty line as the end of the output, an unfinished line, and lines of a process left behind at every place between them; `PipeCap` makes bash wait for its reader. `AnswerComplete` was checked with two lines as well (17.8 M states).
Two requests are a command and a DELETE of the same shell, two DELETEs, a DELETE and a shell being created; with two shells one of them is in the map while `CloseAll` waits for the other, and a request makes room for another, so any number follow. A second signal
only finds the channel full: the safety properties and `SignalHeeded` (with one shell) were also checked with two (1.7 M states). Two loads of the page are one DELETE that meets a new page; three runners and shells are those of the cookies, of the request under way and of the DELETE, and names are used again.
Three PUTs give one that publishes while another writes and a third fails to compile; one connection suffices for what its process does, as connections share only the file and the server.

**Deadlock.** `broker_*` set `CHECK_DEADLOCK FALSE`: when all requests are done and all runner processes stopped, nothing is left to do. So do `shell_*`: when all calls have returned and the shell is closed, or waits for a command that muted it, nothing is left; `runner_process`, as the process ends; and `demo_app`, where PUTs and connections are used up. The other models never stop, and TLC checks that.

**Fairness.** Weak fairness of one request's (or call's) own steps, never of its environment. The code justifies it: a goroutine is scheduled, and every wait ends by an answer or a timeout (3 s for a health check, the
SDK's limits for the store, 10 s for `/_resolve`, 300 s for a forward). No runner, index or stack is assumed to make progress. `EveryRequestAnswered` of the broker needs no bound on retries: a round of `createSession`
removes a runner, and there are finitely many registered at any time; a pool that is refilled for ever with runners that fail their checks is outside the instance. In `BashShell` each call's steps, the stderr reader, `Close`, bash and what commands leave behind are weakly fair: the first three are goroutines, and commands are assumed
to end. That a waiting call gets the lock needs no strong fairness, as calls are finite; Go's mutex hands over to a waiter that starves.
In `RunnerProcess` the goroutines, the handlers and the deadline are weakly fair; the broker and the server are not: `Registered`, and a failing `Serve`, may never come, nor is anybody assumed to send a signal. The one strong fairness is `StartApp`, against `StartFails`: an app that can be started is started at some time. In `DemoApp` the process of a connection is weakly fair (its `select` has a timeout), the code of the visitor is not.
In `Terminal` requests are answered and timers fire; the strong fairness of `ServeCreate("connect", TRUE)` and `Connected` says that a shell asked for again and again is created, and that the answer arrives, at some time. `run` is not helped by it: a replacement that fails goes to `connect`.

## 4. Findings

1. **A runner conflicts with itself** (`broker_conflict`). `Register` is refused whenever a record exists, whatever it says, while the error is worded and
   documented as *different attributes*. After a lost 201 the runner's retries get 409 as long as its own record stands. It does not serve, and its record is a dead candidate until it is handed out and a failed health check removes it (`service.go:128`); then a later retry gets 201.
2. **A session is not found right after it was made** (`broker_read_your_writes`). The contract test for both backends finds it at once; DynamoDB's session-index need not.
3. **A lost owner is asked again** (`routing_excludes_owner`). The list without the owner is stored in variables of the parent request, and read in a
   subrequest, where they are empty. The browser can get the dead owner's 502 while another stack has an idle runner.

## 5. Proofs

All theorems hold for every value of the constants, under the named `ASSUME`s of the modules, which say that names differ and sizes are naturals.

* **RunnerStoreProofs.** `InductiveInvariant`: `Spec => []ScanInv`. `ScanCovers` alone is not inductive. It needs that local variables are reset between calls, that the
  page is used up when the next query starts, and that candidates are idle and shown now. Then a step of the walk passes a candidate only by trying it, and a failed condition means that it was not idle. `Refinement`: `Spec => Pool!PoolSpec`: queries and failed conditions
  are stutters, `Exhausted` maps to `Exhaust` because the invariant leaves no place where a candidate could be.
* **BrokerProofs.** `TypeCorrect` needs no assumption on faults. `Matched`: `[]MatchInv` for consistent queries and no resent updates, with any combination of the other faults. `MatchInv` has four named parts: the session-index is exact,
  a request at each `pc` looks at a pair that was delivered, a runner is held by one request at most and can go to no other session, and a busy record belongs to its holder or to a request that failed.
  It is inductive together with `TypeOK`. `Exclusive`, `Sticks`, `LeaksOnlyAfterFailure`, `FindSees` and `ReplacedForGood` follow, the last with a small invariant of its own (`ReplacedGone`).
  `Exclusive` covers registrations that take effect and are answered by 500 or not at all: the runner does not answer health checks before it got a 201, and queries show nothing old.
  `SessionsWithinPuts` is `Spec => []OneSessionPerPut` for both backends and every set of faults. Nothing is exact there, a session may have two records and a record may be put again, so the invariant `PutsCover` counts from the runner's side: `Ties(r)` are the sessions that anything ties to it, be it its record, the index, which may
  show a record that is long gone, or a request that looks at it or was sent to it. Their number, and one more while the record is idle, is at most the number of puts. A tie begins only at an update that found the record idle, and it becomes idle only by a put.
* **StackRoutingProofs.** `RotationComplete`: the rotation of a stack has all the others. `FirstFallbackSpread`: no two stacks fall back to the same one first.
  `TypeCorrect`, and `RefusedByAll`: `Spec => []UnavailableMeansAllAsked`. Its invariant `RefusalInv` adds to the types that every fallback hop is covered: the
  stacks it has not asked and is not at are in its remaining list. `RotationComplete` gives this to the first fallback hop, whether it comes from a plain request or from a reassignment, and each
  hop passes it to the next, so an empty list means that all were asked. What takes most of the proof is that the three ways the hops change (`Goto`, `Forward`, `HandBack`) keep stack and fallback headers of the hops below.
* **StackChainProofs** cites those lemmas. `ChainIsBounded`: `Spec => []ChainBounded`. A bound on the length is not inductive; `ChainInv` says of the `i`-th hop that it has at most `Len(Order) + 1 - i` stacks left if it is under fallback, and else is the
  entry, or the owner right behind it. A fallback takes the next stack off the list, and only a hop that is not under fallback waits for an owner. `SessionIsContinued`: `Spec => []SessionContinuity`. `ContinuityInv` says where a request whose session is well can be: at the entry or at the owner,
  with its cookie, not under fallback, and on the way to the answer of the session's runner or back with it. Whatever fails ends `steady`.
* **BashShellProofs.** `InStep`: `Spec => []InStepOrBroken`, and `StaysBroken`: `Spec => BrokenForGood`, for all habits of commands. `SyncInv` says what may be in the pipes at each place of a call:
  nothing of any call (`Quiet`) while the lock is free and the session not broken, and again once the marker was read; only items of the caller (`OnlyOf`) while it scans, and behind its marker nothing of it. The last part makes it inductive: `Finish` may
  take the broken mark back, since the call drained up to its own marker. A script whose lines are taken by its own command keeps its last line last, so the invariant survives `reads`. `TypeCorrect` needs `LockInv`, as the exit code is known only to the one who has the lock.
  `SessionRefinement`: `Spec => RefinesSession`. The same invariant shows that an answer ends a call whose session is in step, and that whoever begins finds it neither broken nor closed.
  `CodeCorrect`: `Spec => []AnswerCode`. `DoneInv` says that a command ends once and writes nothing afterwards; `CodeInv` follows its code from `$?` to `__ec`, to the marker in the pipe and to `exitCode`, by the number of script lines that bash has not taken yet.
  `AnswersComplete`: `Spec => []AnswerComplete`. For stdout, `OutInv` says that what the call sent, the line it holds back, what is in the pipe and the line that is not finished, one behind the other (`Output`), are what the command wrote: the caller moves items along this chain, bash adds at its end.
  The marker ends it. To know that the line held back when it comes is the script's own and no line of the command, `Parted` follows the `echo ''` through the pipe. That nobody else writes unless a process was left behind (`TidyErrors`, `TidyOutput`, `PendingInv`) and that a call that has not begun has no output (`FreshInv`) are invariants of their own.
  For stderr, `LogInv` says the same of `stderrBuf` and its pipe, and that the marker is behind all of it; `LeftInv` bounds what earlier commands left there, and `ToldInv` carries it over to the answer. `NoneIsNoLine` (a line held back can be told from none) is the only assumption added. Both theorems hold for all habits, and leave out the answers of commands that took lines of their own script; after a command that muted stderr there is no answer to speak of.
* **RunnerProcessProofs.** `ShellInv` has, besides types, `HandlerInv` (a request has a shell exactly while it is handled), `OwnInv` (a shell whose bash runs is in the map, in the sweep of `CloseAll`, or with one handler, and in one place only) and `TurnInv` (who holds the
  mutex of a shell does so to run a command in it while it is open, or to close it). With `DrainInv` (after an orderly drain no request is active) and `LeftInv` (a supervisor that is done left no app) it is inductive, and `OwnersAreUnique` and `NothingIsLeft` follow. `PromiseKept`: `Spec => ShellsKeepPromise`, by one lemma per
  kind of step: for shell `i`, each step of the process is a step of its session or leaves what its callers see alone.
* **DemoAppProofs.** `FileStaysWhole` needs that names of temporary files are not shared and that a file is complete when its writer renames it. `PagesAreCurrent` needs that `known` is a version that was not replaced when the process refreshed, and
  `NothingIsLeft` that a connection that is done has waited for its child.
* **TerminalProofs.** `TakesTurns` needs that a request is under way exactly at the stages that wait for one (`Turn`). `TypistHasShell`: `Spec => []InputHasShell`. Between a command and the next the page relies on a shell that is there and that no DELETE under way is for (`Kept`). `ShellInv` says, as long as nothing was `silent`, what messages may still do to that: a request under way was sent with the session of the cookies (`SentOwn`),
  an answer that brings a shell brings one that is kept (`AnswerKept`), the answer to a command brings neither session nor shell unless it is marked (`AnswerPlain`), and the answer to a DELETE never brings a shell (`DeletePlain`).
  `Spec` holds no fairness there.

Model-checked only: liveness (`CallReturns`, both `EveryRequestAnswered`, `EveryCallReturns`, `CloseReturns`, `SignalHeeded`, `AppComesBack`, `InputComesBack`, `PageAnswered`), since fairness is out of the prover's reach. All safety and action properties of the passing runs, and both refinements of `ShellSession` and that of `RunnerPool`, are theorems. Neither liveness property of the shell is checked with commands that mute stderr or lines that are too long for the scanner, and both are known to fail there (see below).

**Limits that were found and are not claimed.** On DynamoDB, with resent writes, a session can own two records, so `SessionSticks` is not claimed. Nor is
`ExclusiveTenancy`: a runner whose registration took effect unseen, as its reply was lost, or was a 500 after the put, or a 409 against the record its own resent put had written, goes on registering; its record is handed out, removed after the failed health check, and put again, and while the session-index still shows the first session the
runner is given to a second one. `OneSessionPerPut` is what holds there.
`InputHasShell` leaves out the losses that nobody tells the page of, which section 2 lists. `PageAnswered` leaves out one case: a visitor's code that closes the pipe and never ends is waited for in `waitpid` (`ContentRunner.pm:57`) without a deadline, and its connection gets no answer.
Of the shell, `AnswerComplete` and `AnswerCode` are claimed for commands that leave their script and the stderr of bash alone, and not for the others: a command that reads a line (`read x`) takes `__ec=$?`, and the code of the command
before is returned, or none can be parsed; one that takes the `echo ''` line has its last empty line held back for good; and after `exec 2>/dev/null` the stderr marker never comes, and the call waits at `shell.go:299`, with the lock, until the process ends.
`InStepOrBroken` holds for all of them. After a stdout line of more than 1 MiB the scanner has failed for good and nobody reads stdout: if what bash still has to write does not fit in the pipe, bash never reads `exit`, and `Close` (`shell.go:348`) waits for it without closing the pipe, and so does `CloseAll` at shutdown; `CloseReturns` is claimed for instances without such lines.
`ExitLeavesNothing` leaves out a shell that a handler has in hand when the shared deadline passed before `srv.Shutdown` was done; `CloseAll` never sees it.

## 6. Not modelled, and plan

Not modelled: rendering, history and translation in the browser, quiz content, HTTP parsing in perl, header and host validation, client-address
headers, infrastructure and deployment, load and integration tests. They hold no state that the properties could be about. `ListBusyRunners` and `FindByID` change nothing and are used by operators and tests only.

Next, in this order:

1. Partial writes of a script to stdin: a command of many lines that print can fill both pipes (`shell.go:270`).
