---------------------------- MODULE StackRouting ----------------------------
(***************************************************************************)
(* The way of a request through the stacks (nginx/nginx.conf and nginx/lua *)
(* with signalFallback of broker/handler/handler.go and broker/stacklist). *)
(*                                                                         *)
(* A request enters at one stack.  Its nginx forwards it to the stack that *)
(* owns the session of its cookie, asks the local broker, or, if that has  *)
(* no idle runner, forwards it to the next stack of the rotation, which    *)
(* does the same.  If the owner is unreachable, a new session is made      *)
(* instead.  Every nginx on the way waits for the one it forwarded to: the *)
(* hops of a request are a call stack, and statuses travel back along it.  *)
(*                                                                         *)
(* A stack's pool is reduced to the number of its idle runners, and a      *)
(* client's session to the stack it is on and whether it still exists;     *)
(* Broker has the details.  X-Fallback-* headers of outside clients are    *)
(* dropped on arrival (relay_if_internal), so only nginx sends them here.  *)
(***************************************************************************)
EXTENDS Integers, Sequences, FiniteSets

CONSTANTS
    Order,     \* BUNSHIN_STACKS, the same value in every stack
    Client,    \* browsers, one request at a time each
    MaxIdle,   \* bound on the idle runners of a stack
    None,      \* no cookie, no new session
    Retired,   \* a stack of an old cookie that is in BUNSHIN_STACKS no more
    Faults     \* what may go wrong in this instance

Stack == {Order[i] : i \in DOMAIN Order}

FaultKinds == {
    "down",     \* a stack, or the way to it, breaks
    "broker",   \* the subrequest to the broker fails or takes over 10 s
    "runner"}   \* the runner of the session does not answer the request

\* broker/config/stack.go: a list of stack names; operators list each once.
ASSUME OrderAssumption ==
    /\ Order \in Seq(Stack) /\ Order # <<>>
    /\ \A i, j \in DOMAIN Order : Order[i] = Order[j] => i = j

ASSUME ConstantsAssumption ==
    /\ MaxIdle \in Nat
    /\ None \notin Stack \cup {Retired} /\ Retired \notin Stack
    /\ Faults \subseteq FaultKinds

\* A slip: the rotation forgets the stacks listed before this one.
RotationToEnd(s) ==
    LET pivot == CHOOSE i \in DOMAIN Order : Order[i] = s
    IN  SubSeq(Order, pivot + 1, Len(Order))

\* stacklist.Parse: the fallbacks of stack s are those after it in the list,
\* then those before it.
Rotation(s) ==
    LET pivot == CHOOSE i \in DOMAIN Order : Order[i] = s
    IN  SubSeq(Order, pivot + 1, Len(Order)) \o SubSeq(Order, 1, pivot - 1)

VARIABLES
    up,      \* up[s]: stack s can be reached
    idle,    \* idle[s]: idle runners in the pool of s
    home,    \* home[c]: the stack named by the session_id cookie of c, or None
    alive,   \* alive[c]: the session of that cookie exists, with its runner
    hops,    \* hops[c]: the nginx hops the running request of c is on
    resp,    \* resp[c]: the response the last hop gives
    result,  \* result[c]: what the client got for its last request
    asked,   \* stacks whose broker told the request that it has no idle runner
    steady   \* nothing the request depends on failed since it was sent

environment == <<up, idle>>
session == <<home, alive>>
history == <<asked, steady>>
vars == <<environment, session, hops, resp, result, history>>

Status == {200, 500, 502, 503, 504}

\* A hop: the stack, its position in the handling, the cookie that came with
\* the request, and X-Fallback-Stack (which is this stack, or absent) and
\* X-Fallback-Remaining.
Steps == {"arrive", "resolve", "proxy", "waitOwner", "waitFallback", "resolveAgain",
          "proxyAgain", "waitReassigned", "respond"}
Hop == [at : Stack, step : Steps, cookie : BOOLEAN, fallback : BOOLEAN, remaining : Seq(Stack)]

\* A response: its status, the stack of a new session (Set-Cookie), and
\* X-Session-Reassigned.  `by` is the stack whose runner answered.
NoResponse == [status |-> 0, cookie |-> None, told |-> FALSE, by |-> None]
Response == [status : Status \cup {0}, cookie : Stack \cup {None}, told : BOOLEAN,
             by : Stack \cup {None}]

TypeOK ==
    /\ up \in [Stack -> BOOLEAN]
    /\ idle \in [Stack -> 0..MaxIdle]
    /\ home \in [Client -> Stack \cup {None, Retired}]
    /\ alive \in [Client -> BOOLEAN]
    /\ hops \in [Client -> Seq(Hop)]
    /\ resp \in [Client -> Response]
    /\ result \in [Client -> Response]
    /\ asked \in [Client -> SUBSET Stack]
    /\ steady \in [Client -> BOOLEAN]

Init ==
    /\ up = [s \in Stack |-> TRUE]
    /\ idle \in [Stack -> 0..MaxIdle]
    /\ home \in [Client -> {None, Retired}]
    /\ alive = [c \in Client |-> FALSE]
    /\ hops = [c \in Client |-> <<>>]
    /\ resp = [c \in Client |-> NoResponse]
    /\ result = [c \in Client |-> NoResponse]
    /\ asked = [c \in Client |-> {}]
    /\ steady = [c \in Client |-> FALSE]

-----------------------------------------------------------------------------
(* What happens to the stacks meanwhile.                                   *)

Running(c) == hops[c] # <<>>

\* Nothing a running request depends on fails, but for those in `hit`.
Unsettle(hit) == steady' = [c \in Client |-> steady[c] /\ c \notin hit]

Break(s) ==
    /\ "down" \in Faults
    /\ up[s]
    /\ up' = [up EXCEPT ![s] = FALSE]
    /\ Unsettle({c \in Client : s = home[c] \/ \E i \in DOMAIN hops[c] : hops[c][i].at = s})
    /\ UNCHANGED <<idle, session, hops, resp, result, asked>>

Recover(s) ==
    /\ ~up[s]
    /\ up' = [up EXCEPT ![s] = TRUE]
    /\ UNCHANGED <<idle, session, hops, resp, result, history>>

\* A runner registers with the broker of s.
AddRunner(s) ==
    /\ idle[s] < MaxIdle
    /\ idle' = [idle EXCEPT ![s] = @ + 1]
    /\ UNCHANGED <<up, session, hops, resp, result, history>>

\* The runner of the client's session stops, or its record is deleted.
LoseSession(c) ==
    /\ alive[c]
    /\ alive' = [alive EXCEPT ![c] = FALSE]
    /\ Unsettle({c})
    /\ UNCHANGED <<environment, home, hops, resp, result, asked>>

-----------------------------------------------------------------------------
(* A request.                                                              *)

Depth(c) == Len(hops[c])
Top(c) == hops[c][Depth(c)]

\* The last hop of the request goes on to `step`.
Goto(c, step) == hops' = [hops EXCEPT ![c][Depth(c)].step = step]

\* The last hop waits, in `step`, for a hop at stack s.
Forward(c, step, next) ==
    hops' = [hops EXCEPT ![c] = Append([@ EXCEPT ![Depth(c)].step = step], next)]

Respond(c, res) ==
    /\ resp' = [resp EXCEPT ![c] = res]
    /\ Goto(c, "respond")

Failed(status) == [NoResponse EXCEPT !.status = status]

\* The browser sends a request to a stack it reaches.
Send(c, s) ==
    /\ ~Running(c)
    /\ up[s]
    /\ hops' = [hops EXCEPT ![c] = <<[at |-> s, step |-> "arrive", cookie |-> home[c] # None,
                                      fallback |-> FALSE, remaining |-> <<>>]>>]
    /\ result' = [result EXCEPT ![c] = NoResponse]
    /\ asked' = [asked EXCEPT ![c] = {}]
    /\ steady' = [steady EXCEPT ![c] = home[c] \in Stack /\ alive[c] /\ up[home[c]]]
    /\ UNCHANGED <<environment, session, resp>>

\* The foreign owner of the request's session, as its cookie names it.
ForeignOwner(c) == Top(c).cookie /\ home[c] # Top(c).at

\* A slip: a request is resolved where it arrives, whoever owns its session.
ArriveLocally(c) ==
    /\ Running(c) /\ Top(c).step = "arrive"
    /\ Goto(c, "resolve")
    /\ UNCHANGED <<environment, session, resp, result, history>>

\* decide_arrival: a request under fallback, or without a foreign owner, is
\* resolved here; another goes to its owner; an unknown owner is an error.
Arrive(c) ==
    /\ Running(c) /\ Top(c).step = "arrive"
    /\ \/ /\ Top(c).fallback \/ ~ForeignOwner(c)
          /\ Goto(c, "resolve")
          /\ UNCHANGED resp
       \/ /\ ~Top(c).fallback /\ ForeignOwner(c)
          /\ home[c] = Retired
          /\ Respond(c, Failed(500))
       \/ /\ ~Top(c).fallback /\ ForeignOwner(c)
          /\ home[c] \in Stack
          /\ Forward(c, "waitOwner", [at |-> home[c], step |-> "arrive", cookie |-> TRUE,
                                      fallback |-> FALSE, remaining |-> <<>>])
          /\ UNCHANGED resp
    /\ UNCHANGED <<environment, session, result, history>>

\* A slip: every stack on the way offers its whole rotation.
PoolOfStack(c) == Rotation(Top(c).at)

\* signalFallback: the stacks still to try.  reassign.lua asks the broker in
\* a subrequest that has variables of its own, where $fwd_fallback_* are
\* empty: the broker sees a request that is not under fallback.
Pool(c) == IF Top(c).fallback /\ Top(c).step = "resolve"
           THEN Top(c).remaining
           ELSE Rotation(Top(c).at)

\* The session of the request is found by the local broker, and healthy.
Found(c) == Top(c).cookie /\ home[c] = Top(c).at /\ alive[c] /\ Top(c).step = "resolve"

\* ResolveSession finds the session ...
ResolveFound(c) ==
    /\ Running(c) /\ Found(c)
    /\ Goto(c, "proxy")
    /\ resp' = [resp EXCEPT ![c] = [NoResponse EXCEPT !.by = home[c]]]
    /\ UNCHANGED <<environment, session, result, history>>

\* A slip: a runner is handed out without asking for an idle one.
ResolveNewUnchecked(c) ==
    /\ Running(c) /\ Top(c).step \in {"resolve", "resolveAgain"} /\ ~Found(c)
    /\ idle' = [idle EXCEPT ![Top(c).at] = @ - 1]
    /\ Goto(c, IF Top(c).step = "resolve" THEN "proxy" ELSE "proxyAgain")
    /\ resp' = [resp EXCEPT ![c] = [NoResponse EXCEPT !.cookie = Top(c).at, !.by = Top(c).at]]
    /\ UNCHANGED <<up, session, result, history>>

\* ... or makes a new one (and may know that it replaces a dead one), ...
ResolveNew(c) ==
    /\ Running(c) /\ Top(c).step \in {"resolve", "resolveAgain"} /\ ~Found(c)
    /\ idle[Top(c).at] > 0
    /\ idle' = [idle EXCEPT ![Top(c).at] = @ - 1]
    /\ Goto(c, IF Top(c).step = "resolve" THEN "proxy" ELSE "proxyAgain")
    /\ \E told \in BOOLEAN :
        /\ told => Top(c).step = "resolveAgain" \/ (Top(c).cookie /\ home[c] = Top(c).at)
        /\ Top(c).step = "resolveAgain" => told
        /\ resp' = [resp EXCEPT ![c] = [NoResponse EXCEPT !.cookie = Top(c).at, !.told = told,
                                                          !.by = Top(c).at]]
    /\ UNCHANGED <<up, session, result, history>>

\* ... or the pool is empty: the request goes to the next stack, if one is
\* left.  reassign.lua drops the cookie on the way.
ResolveEmpty(c) ==
    /\ Running(c) /\ Top(c).step \in {"resolve", "resolveAgain"} /\ ~Found(c)
    /\ idle[Top(c).at] = 0
    /\ asked' = [asked EXCEPT ![c] = @ \cup {Top(c).at}]
    /\ \/ Pool(c) = <<>> /\ Respond(c, Failed(503))
       \/ /\ Pool(c) # <<>>
          /\ Forward(c, IF Top(c).step = "resolve" THEN "waitFallback" ELSE "waitReassigned",
                     [at |-> Head(Pool(c)), step |-> "arrive",
                      cookie |-> Top(c).cookie /\ Top(c).step = "resolve",
                      fallback |-> TRUE, remaining |-> Tail(Pool(c))])
          /\ UNCHANGED resp
    /\ UNCHANGED <<environment, session, result, steady>>

\* The broker fails (500), is away (502) or too slow (504).
ResolveFails(c, status) ==
    /\ "broker" \in Faults
    /\ Running(c) /\ Top(c).step \in {"resolve", "resolveAgain"}
    /\ status \in {500, 502, 504}
    /\ Respond(c, Failed(status))
    /\ Unsettle({c})
    /\ UNCHANGED <<environment, session, result, asked>>

\* The runner answers, with the headers of the resolution, or nginx answers in
\* its place.  In /api/ that goes through error_page to a location without
\* these headers: the new session is not delivered.  @reassign_session was
\* reached by an error_page, nginx takes no second one, and the headers are added.
ProxyRunner(c, status) ==
    /\ Running(c) /\ Top(c).step \in {"proxy", "proxyAgain"}
    /\ status \in IF "runner" \in Faults THEN {200, 502, 504} ELSE {200}
    /\ Respond(c, IF status = 200 \/ Top(c).step = "proxyAgain"
                  THEN [resp[c] EXCEPT !.status = status] ELSE Failed(status))
    /\ Unsettle(IF status = 200 THEN {} ELSE {c})
    /\ UNCHANGED <<environment, session, result, asked>>

\* The first hop hands the response to the browser, which keeps its cookie.
Answer(c) ==
    /\ Depth(c) = 1 /\ Top(c).step = "respond"
    /\ result' = [result EXCEPT ![c] = resp[c]]
    /\ \/ resp[c].cookie = None /\ UNCHANGED session
       \/ /\ resp[c].cookie # None
          /\ home' = [home EXCEPT ![c] = resp[c].cookie]
          /\ alive' = [alive EXCEPT ![c] = TRUE]
    /\ hops' = [hops EXCEPT ![c] = <<>>]
    /\ resp' = [resp EXCEPT ![c] = NoResponse]
    /\ UNCHANGED <<environment, history>>

\* A slip: a failed fallback of a reassigned request is reassigned again.
\* The hop below hop i gets response res.
HandBackRetrying(c, i, res) ==
    LET below == hops[c][i - 1]
        step == IF below.step \in {"waitOwner", "waitReassigned"} /\ res.status \in {502, 504}
                THEN "resolveAgain" ELSE "respond"
    IN  /\ hops' = [hops EXCEPT ![c] = Append(SubSeq(@, 1, i - 2), [below EXCEPT !.step = step])]
        /\ resp' = [resp EXCEPT ![c] =
               IF step = "resolveAgain" THEN NoResponse
               ELSE [res EXCEPT !.told = @ \/ below.step = "waitReassigned"]]

\* The hop below hop i gets response res: @forward_owner takes a 502 or 504
\* for a lost owner and makes a new session; the others pass the response on
\* (@forward_reassigned_fallback adds X-Session-Reassigned).
HandBack(c, i, res) ==
    LET below == hops[c][i - 1]
        step == IF below.step = "waitOwner" /\ res.status \in {502, 504}
                THEN "resolveAgain" ELSE "respond"
    IN  /\ hops' = [hops EXCEPT ![c] = Append(SubSeq(@, 1, i - 2), [below EXCEPT !.step = step])]
        /\ resp' = [resp EXCEPT ![c] =
               IF step = "resolveAgain" THEN NoResponse
               ELSE [res EXCEPT !.told = @ \/ below.step = "waitReassigned"]]

Return(c) ==
    /\ Depth(c) > 1 /\ Top(c).step = "respond"
    /\ HandBack(c, Depth(c), resp[c])
    /\ UNCHANGED <<environment, session, result, history>>

\* A hop on a stack that is down: the hop below it gets 502 or 504, and the
\* browser, if it is the first hop, an error of its connection.
HopLost(c, i) ==
    /\ i \in DOMAIN hops[c]
    /\ ~up[hops[c][i].at]
    /\ \/ /\ i > 1
          /\ \E status \in {502, 504} : HandBack(c, i, Failed(status))
          /\ UNCHANGED result
       \/ /\ i = 1
          /\ hops' = [hops EXCEPT ![c] = <<>>]
          /\ resp' = [resp EXCEPT ![c] = NoResponse]
          /\ result' = [result EXCEPT ![c] = Failed(502)]
    /\ UNCHANGED <<environment, session, history>>

-----------------------------------------------------------------------------
RequestStep(c) ==
    \/ Arrive(c) \/ ResolveFound(c) \/ ResolveNew(c) \/ ResolveEmpty(c)
    \/ \E status \in Status : ResolveFails(c, status) \/ ProxyRunner(c, status)
    \/ Answer(c) \/ Return(c)
    \/ \E i \in DOMAIN hops[c] : HopLost(c, i)

Next ==
    \/ \E s \in Stack : Break(s) \/ Recover(s) \/ AddRunner(s)
    \/ \E c \in Client :
        \/ LoseSession(c) \/ RequestStep(c)
        \/ \E s \in Stack : Send(c, s)

Spec == Init /\ [][Next]_vars

\* nginx handles its events, and every wait ends: with an answer or with the
\* timeout of the proxy_pass (10 s for the broker, 300 s for a forward).
FairSpec == Spec /\ \A c \in Client : WF_vars(RequestStep(c))
-----------------------------------------------------------------------------
(* Properties.                                                             *)

\* The browser is told that there is no runner (503) only after the broker of
\* every stack said so to this request, wherever it entered and whatever
\* stacks were down, skipped to or reassigned from on the way.
UnavailableMeansAllAsked ==
    \A c \in Client : result[c].status = 503 => asked[c] = Stack

\* The chain of forwards is bounded: a request that goes from its owner
\* around the rotation holds one connection per stack and one at the entry.
ChainBounded == \A c \in Client : Len(hops[c]) <= Len(Order) + 1

\* A session is left only if something failed: a request that is answered
\* while its session, the stack of that and the entry are well is answered
\* by the session's runner, and the browser keeps its cookie.
SessionContinuity ==
    \A c \in Client : steady[c] /\ ~Running(c) /\ result[c].status # 0 =>
        /\ result[c].status = 200
        /\ result[c].by = home[c]
        /\ result[c].cookie = None /\ ~result[c].told

\* Every request is answered.
EveryRequestAnswered == \A c \in Client : Running(c) ~> ~Running(c)

\* Once the owner of a session was given up, the request is not forwarded to
\* it again: the fallback excludes the attempted owner.
FallbackExcludesOwner ==
    \A c \in Client : \A i, j \in DOMAIN hops[c] :
        i < j /\ hops[c][i].step = "waitReassigned" => hops[c][j].at # home[c]
=============================================================================
