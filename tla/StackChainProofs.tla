---------------------------- MODULE StackChainProofs ----------------------------
(***************************************************************************)
(* For any list of stacks: the chain of forwards of a request is bounded,  *)
(* and a session is left only if something failed.                         *)
(***************************************************************************)
EXTENDS StackRoutingProofs

-----------------------------------------------------------------------------
(* The bound of the chain.  A hop under fallback has at most as many       *)
(* stacks left to try as the bound leaves hops; a hop that is not is the   *)
(* entry, or the owner of the session right behind it; and only such a hop *)
(* waits for an owner or gives it up.                                      *)

OwnerSteps == {"waitOwner", "resolveAgain"}

\* hop may be the i-th of the request of c.
Placed(c, i, hop) ==
    /\ hop.fallback => i + Len(hop.remaining) <= Len(Order) + 1
    /\ ~hop.fallback => i = 1 \/ (i = 2 /\ hop.at = home[c])
    /\ hop.step \in OwnerSteps => ~hop.fallback

Chain(c) == \A i \in DOMAIN hops[c] : Placed(c, i, hops[c][i])

ChainInv == TypeOK /\ \A c \in Client : Chain(c)

LEMMA ChainImplies == ChainInv => ChainBounded
<1> SUFFICES ASSUME ChainInv, NEW c \in Client PROVE Len(hops[c]) <= Len(Order) + 1
    BY DEF ChainBounded
<1>1. hops[c] \in Seq(Hop) /\ Len(hops[c]) \in Nat /\ Len(Order) \in Nat \ {0}
    BY OrderAssumption DEF ChainInv, TypeOK
<1>2. CASE hops[c] = <<>>
    BY <1>1, <1>2
<1>3. CASE hops[c] # <<>>
    <2>1. PICK n : n = Len(hops[c])
        OBVIOUS
    <2>2. n \in DOMAIN hops[c] /\ n \in Nat \ {0}
        BY <1>1, <1>3, <2>1
    <2>3. PICK hop \in Hop : hop = hops[c][n]
        BY <1>1, <2>2
    <2>4. Placed(c, n, hop)
        BY <2>2, <2>3 DEF ChainInv, Chain
    <2>5. Len(hop.remaining) \in Nat /\ hop.fallback \in BOOLEAN
        BY DEF Hop
    <2>6. CASE hop.fallback
        <3>1. n + Len(hop.remaining) <= Len(Order) + 1
            BY <2>4, <2>6 DEF Placed
        <3>2. n <= Len(Order) + 1
            BY <1>1, <2>2, <2>5, <3>1
        <3> QED BY <2>1, <3>2
    <2>7. CASE ~hop.fallback
        BY <1>1, <2>1, <2>2, <2>4, <2>7 DEF Placed
    <2> QED BY <2>6, <2>7
<1> QED BY <1>2, <1>3

\* Hops that keep their headers keep their places.
LEMMA ChainKept ==
    ASSUME NEW c \in Client, Chain(c), home'[c] = home[c], NEW hs, SameHeaders(hs, c),
           NEW n, NEW step, GoesTo(hs, c, n, step),
           step \in OwnerSteps => ~hops[c][n].fallback
    PROVE  \A i \in DOMAIN hs : Placed(c, i, hs[i])'
<1> SUFFICES ASSUME NEW i \in DOMAIN hs PROVE Placed(c, i, hs[i])'
    OBVIOUS
<1>1. i \in DOMAIN hops[c] /\ Headers(hs[i]) = Headers(hops[c][i])
    BY DEF SameHeaders
<1>2. /\ hs[i].at = hops[c][i].at /\ hs[i].fallback = hops[c][i].fallback
      /\ hs[i].remaining = hops[c][i].remaining
    BY <1>1 DEF Headers
<1>3. Placed(c, i, hops[c][i])
    BY <1>1 DEF Chain
<1>4. hs[i].step \in OwnerSteps => ~hs[i].fallback
    BY <1>2, <1>3 DEF GoesTo, Placed
<1> QED BY <1>2, <1>3, <1>4 DEF Placed

\* A step of one request leaves the chains of the others as they are.
LEMMA OneChain ==
    ASSUME ChainInv, NEW c \in Client, Chain(c)',
           \A d \in Client \ {c} : hops'[d] = hops[d] /\ home'[d] = home[d]
    PROVE  \A d \in Client : Chain(d)'
<1> SUFFICES ASSUME NEW d \in Client, d # c PROVE Chain(d)'
    OBVIOUS
<1>1. hops'[d] = hops[d] /\ home'[d] = home[d]
    OBVIOUS
<1> QED BY <1>1 DEF ChainInv, Chain, Placed

LEMMA GotoChain ==
    ASSUME ChainInv, NEW c \in Client, Running(c), NEW step \in Steps \ OwnerSteps,
           Goto(c, step), UNCHANGED home
    PROVE  \A d \in Client : Chain(d)'
<1>1. TypeOK /\ Chain(c) /\ step \in Steps
    BY DEF ChainInv
<1>2. PICK hs : HopsBecome(c, hs) /\ SameHeaders(hs, c) /\ GoesTo(hs, c, Depth(c), step)
    BY <1>1, GotoHops
<1>3. \A i \in DOMAIN hs : Placed(c, i, hs[i])'
    BY <1>1, <1>2, ChainKept
<1>4. Chain(c)'
    BY <1>2, <1>3 DEF Chain, HopsBecome
<1> QED BY <1>2, <1>4, OneChain DEF HopsBecome

LEMMA ForwardChain ==
    ASSUME ChainInv, NEW c \in Client, Running(c), NEW step \in Steps, NEW next \in Hop,
           Forward(c, step, next), UNCHANGED home, next.step \notin OwnerSteps,
           step \in OwnerSteps => ~Top(c).fallback,
           Placed(c, Depth(c) + 1, next)
    PROVE  \A d \in Client : Chain(d)'
<1>1. TypeOK /\ Chain(c)
    BY DEF ChainInv
<1>2. PICK hs : /\ HopsBecome(c, Append(hs, next)) /\ SameHeaders(hs, c)
                /\ GoesTo(hs, c, Depth(c), step)
    BY <1>1, ForwardHops
<1>3. \A i \in DOMAIN hs : Placed(c, i, hs[i])'
    BY <1>1, <1>2, TopIsHop, ChainKept
<1>4. hs \in Seq(Hop) /\ DOMAIN hs = 1..Depth(c) /\ Depth(c) \in Nat \ {0} /\ Len(hs) = Depth(c)
    <2>1. hs \in Seq(Hop) /\ DOMAIN hs = 1..Depth(c) /\ Depth(c) \in Nat \ {0}
        BY <1>1, <1>2, TopIsHop DEF SameHeaders, GoesTo
    <2> QED BY <2>1
<1>5. ASSUME NEW i \in DOMAIN Append(hs, next) PROVE Placed(c, i, Append(hs, next)[i])'
    <2>1. CASE i \in DOMAIN hs
        <3>1. Append(hs, next)[i] = hs[i]
            BY <1>4, <2>1
        <3> QED BY <1>3, <2>1, <3>1
    <2>2. CASE i \notin DOMAIN hs
        <3>1. i = Depth(c) + 1 /\ Append(hs, next)[i] = next
            BY <1>4, <1>5, <2>2
        <3> QED BY <3>1 DEF Placed
    <2> QED BY <2>1, <2>2
<1>6. Chain(c)'
    BY <1>2, <1>5 DEF Chain, HopsBecome
<1> QED BY <1>2, <1>6, OneChain DEF HopsBecome

LEMMA ArriveChain ==
    ASSUME ChainInv, NEW c \in Client, Arrive(c)
    PROVE  \A d \in Client : Chain(d)'
<1>1. TypeOK /\ Chain(c) /\ Running(c) /\ UNCHANGED home
    BY DEF ChainInv, Arrive, session
<1>2. CASE Goto(c, "resolve") \/ Respond(c, Failed(500))
    BY <1>1, <1>2, GotoChain DEF Respond, Steps, OwnerSteps
<1>3. CASE /\ ~Top(c).fallback /\ ForeignOwner(c) /\ home[c] \in Stack
           /\ Forward(c, "waitOwner", [at |-> home[c], step |-> "arrive", cookie |-> TRUE,
                                       fallback |-> FALSE, remaining |-> <<>>])
    <2> DEFINE next == [at |-> home[c], step |-> "arrive", cookie |-> TRUE,
                        fallback |-> FALSE, remaining |-> <<>>]
    <2>1. next \in Hop /\ "waitOwner" \in Steps
        BY <1>3, EmptySeq, HopType DEF Steps
    <2>2. next.step = "arrive" /\ next.at = home[c] /\ ~next.fallback
        OBVIOUS
    <2>3. Forward(c, "waitOwner", next)
        BY <1>3
    <2> HIDE DEF next
    <2>4. Depth(c) \in DOMAIN hops[c] /\ Depth(c) \in Nat \ {0} /\ Top(c) = hops[c][Depth(c)]
        BY <1>1, TopIsHop
    <2>5. Placed(c, Depth(c), Top(c))
        BY <1>1, <2>4 DEF Chain
    <2>6. Depth(c) = 1
        BY <1>3, <2>5 DEF Placed, ForeignOwner
    <2>7. Placed(c, Depth(c) + 1, next)
        BY <2>2, <2>6 DEF Placed, OwnerSteps
    <2> QED BY <1>1, <1>3, <2>1, <2>2, <2>3, <2>7, ForwardChain DEF OwnerSteps
<1> QED BY <1>2, <1>3, Zenon DEF Arrive

\* The pool of a request leaves room for the stacks it names.
LEMMA PoolBound ==
    ASSUME ChainInv, NEW c \in Client, Running(c), Top(c).step \in {"resolve", "resolveAgain"}
    PROVE  Pool(c) \in Seq(Stack) /\ Depth(c) + Len(Pool(c)) <= Len(Order) + 1
<1>1. /\ TypeOK /\ Depth(c) \in DOMAIN hops[c] /\ Depth(c) \in Nat \ {0}
      /\ Top(c) = hops[c][Depth(c)] /\ Top(c) \in Hop
    BY TopIsHop DEF ChainInv
<1>2. Placed(c, Depth(c), Top(c)) /\ Pool(c) \in Seq(Stack)
    BY <1>1, PoolType DEF ChainInv, Chain
<1>3. CASE Top(c).fallback
    <2>1. Pool(c) = Top(c).remaining
        BY <1>2, <1>3 DEF Placed, Pool, OwnerSteps
    <2> QED BY <1>2, <1>3, <2>1 DEF Placed
<1>4. CASE ~Top(c).fallback
    <2>1. Pool(c) = Rotation(Top(c).at) /\ Depth(c) <= 2
        BY <1>1, <1>2, <1>4 DEF Placed, Pool
    <2>2. PICK k \in DOMAIN Order : Top(c).at = Order[k]
        BY <1>1 DEF Hop, Stack
    <2>3. PICK n \in Nat : n = Len(Order)
        BY PivotLemma, <2>2
    <2>4. Len(Pool(c)) = n - 1
        BY <2>1, <2>2, <2>3, RotationElement
    <2> QED BY <1>1, <1>2, <2>1, <2>3, <2>4
<1> QED BY <1>3, <1>4

LEMMA EmptyChain ==
    ASSUME ChainInv, NEW c \in Client, ResolveEmpty(c)
    PROVE  \A d \in Client : Chain(d)'
<1>1. /\ TypeOK /\ Running(c) /\ UNCHANGED home
      /\ Top(c).step \in {"resolve", "resolveAgain"}
    BY DEF ChainInv, ResolveEmpty, session
<1>2. Pool(c) \in Seq(Stack) /\ Depth(c) + Len(Pool(c)) <= Len(Order) + 1
    BY <1>1, PoolBound
<1>3. CASE Respond(c, Failed(503))
    BY <1>1, <1>3, GotoChain DEF Respond, Steps, OwnerSteps
<1>4. CASE /\ Pool(c) # <<>>
           /\ Forward(c, IF Top(c).step = "resolve" THEN "waitFallback" ELSE "waitReassigned",
                      [at |-> Head(Pool(c)), step |-> "arrive",
                       cookie |-> Top(c).cookie /\ Top(c).step = "resolve",
                       fallback |-> TRUE, remaining |-> Tail(Pool(c))])
    <2> DEFINE next == [at |-> Head(Pool(c)), step |-> "arrive",
                        cookie |-> Top(c).cookie /\ Top(c).step = "resolve",
                        fallback |-> TRUE, remaining |-> Tail(Pool(c))]
    <2>1. next \in Hop
        <3>1. (Top(c).cookie /\ Top(c).step = "resolve") \in BOOLEAN
            BY Zenon
        <3> QED BY <1>1, <1>4, <3>1, PoolType, HopType
    <2>2. next.step = "arrive" /\ next.fallback /\ next.remaining = Tail(Pool(c))
        BY Zenon
    <2>3. PICK step \in Steps \ OwnerSteps : Forward(c, step, next)
        <3>1. Forward(c, IF Top(c).step = "resolve" THEN "waitFallback" ELSE "waitReassigned", next)
            BY <1>4, Zenon
        <3> HIDE DEF next
        <3> QED BY <3>1 DEF Steps, OwnerSteps
    <2> HIDE DEF next
    <2>4. /\ Len(Tail(Pool(c))) = Len(Pool(c)) - 1 /\ Len(Pool(c)) \in Nat
          /\ Depth(c) \in Nat /\ Len(Order) \in Nat
        BY <1>1, <1>2, <1>4, TopIsHop, OrderAssumption
    <2>5. Depth(c) + 1 + Len(next.remaining) <= Len(Order) + 1
        <3>1. Len(next.remaining) = Len(Pool(c)) - 1
            BY <2>2, <2>4, Zenon
        <3> QED BY <1>2, <2>4, <3>1
    <2>6. Placed(c, Depth(c) + 1, next)
        BY <2>2, <2>5, Zenon DEF Placed, OwnerSteps
    <2> QED BY <1>1, <2>1, <2>2, <2>3, <2>6, ForwardChain DEF OwnerSteps
<1> QED BY <1>3, <1>4, Zenon DEF ResolveEmpty

LEMMA GoChain ==
    ASSUME ChainInv, NEW c \in Client,
           \/ ResolveFound(c) \/ ResolveNew(c)
           \/ \E status \in Status : ResolveFails(c, status) \/ ProxyRunner(c, status)
    PROVE  \A d \in Client : Chain(d)'
<1>1. Running(c) /\ UNCHANGED home
    BY DEF ResolveFound, ResolveNew, ResolveFails, ProxyRunner, session
<1>2. PICK step \in Steps \ OwnerSteps : Goto(c, step)
    BY DEF ResolveFound, ResolveNew, ResolveFails, ProxyRunner, Respond, Steps, OwnerSteps
<1> QED BY <1>1, <1>2, GotoChain

LEMMA HandBackChain ==
    ASSUME ChainInv, NEW c \in Client, NEW i \in DOMAIN hops[c], i > 1, NEW res \in Response,
           HandBack(c, i, res), UNCHANGED home
    PROVE  \A d \in Client : Chain(d)'
<1>1. TypeOK /\ Chain(c) /\ hops[c] \in Seq(Hop)
    BY DEF ChainInv, TypeOK
<1>2. PICK hs : /\ HopsBecome(c, hs) /\ SameHeaders(hs, c)
                /\ GoesTo(hs, c, i - 1, BackStep(c, i, res))
    BY <1>1, HandBackHops
<1>3. BackStep(c, i, res) \in OwnerSteps => ~hops[c][i - 1].fallback
    <2>1. i - 1 \in DOMAIN hops[c]
        BY <1>1
    <2>2. Placed(c, i - 1, hops[c][i - 1])
        BY <1>1, <2>1 DEF Chain
    <2> QED BY <2>2 DEF Placed, BackStep, OwnerSteps
<1>4. \A j \in DOMAIN hs : Placed(c, j, hs[j])'
    BY <1>1, <1>2, <1>3, ChainKept
<1>5. Chain(c)'
    BY <1>2, <1>4 DEF Chain, HopsBecome
<1> QED BY <1>2, <1>5, OneChain DEF HopsBecome

LEMMA EndChain ==
    ASSUME ChainInv, NEW c \in Client, hops' = [hops EXCEPT ![c] = <<>>],
           \A d \in Client \ {c} : home'[d] = home[d]
    PROVE  \A d \in Client : Chain(d)'
<1>1. hops'[c] = <<>> /\ \A d \in Client \ {c} : hops'[d] = hops[d]
    BY DEF ChainInv, TypeOK
<1>2. Chain(c)'
    BY <1>1 DEF Chain
<1> QED BY <1>1, <1>2, OneChain

LEMMA BackChain ==
    ASSUME ChainInv, NEW c \in Client,
           Answer(c) \/ Return(c) \/ \E i \in DOMAIN hops[c] : HopLost(c, i)
    PROVE  \A d \in Client : Chain(d)'
<1>1. /\ TypeOK /\ resp[c] \in Response /\ hops[c] \in Seq(Hop)
      /\ home \in [Client -> Stack \cup {None, Retired}]
    BY DEF ChainInv, TypeOK
<1>2. CASE Answer(c)
    <2>1. \A d \in Client \ {c} : home'[d] = home[d]
        BY <1>1, <1>2 DEF Answer, session
    <2> QED BY <1>2, <2>1, EndChain DEF Answer
<1>3. CASE Return(c)
    <2>1. Depth(c) \in DOMAIN hops[c] /\ Depth(c) > 1
        BY <1>1, <1>3 DEF Return, Depth
    <2> QED BY <1>1, <1>3, <2>1, HandBackChain DEF Return, session
<1>4. ASSUME NEW i \in DOMAIN hops[c], HopLost(c, i) PROVE \A d \in Client : Chain(d)'
    <2>1. UNCHANGED home
        BY <1>4 DEF HopLost, session
    <2>2. CASE i > 1 /\ \E status \in {502, 504} : HandBack(c, i, Failed(status))
        <3>1. PICK status \in {502, 504} : HandBack(c, i, Failed(status))
            BY <2>2
        <3>2. Failed(status) \in Response
            BY FailedType DEF Status
        <3> QED BY <2>1, <2>2, <3>1, <3>2, HandBackChain
    <2>3. CASE hops' = [hops EXCEPT ![c] = <<>>]
        BY <2>1, <2>3, EndChain
    <2> QED BY <1>4, <2>2, <2>3 DEF HopLost
<1> QED BY <1>2, <1>3, <1>4

LEMMA SendChain ==
    ASSUME ChainInv, NEW c \in Client, NEW s \in Stack, Send(c, s)
    PROVE  \A d \in Client : Chain(d)'
<1> DEFINE first == [at |-> s, step |-> "arrive", cookie |-> home[c] # None,
                     fallback |-> FALSE, remaining |-> <<>>]
<1>1. hops' = [hops EXCEPT ![c] = <<first>>] /\ UNCHANGED home
    BY Zenon DEF Send, session
<1>2. ~first.fallback /\ first.step = "arrive"
    BY Zenon
<1> HIDE DEF first
<1>3. /\ hops'[c] = <<first>>
      /\ \A d \in Client \ {c} : hops'[d] = hops[d]
    BY <1>1 DEF ChainInv, TypeOK
<1>4. \A i \in DOMAIN <<first>> : i = 1 /\ <<first>>[i] = first
    OBVIOUS
<1>5. Chain(c)'
    BY <1>2, <1>3, <1>4 DEF Chain, Placed, OwnerSteps
<1> QED BY <1>1, <1>3, <1>5, OneChain

LEMMA ChainStep == ChainInv /\ [Next]_vars => ChainInv'
<1> SUFFICES ASSUME ChainInv, [Next]_vars PROVE ChainInv'
    OBVIOUS
<1>1. TypeOK'
    BY TypeStep DEF ChainInv
<1>2. CASE UNCHANGED <<hops, home>>
    BY <1>1, <1>2 DEF ChainInv, Chain, Placed
<1>3. CASE UNCHANGED vars
    BY <1>2, <1>3 DEF vars, session
<1>4. ASSUME NEW s \in Stack, Break(s) \/ Recover(s) \/ AddRunner(s) PROVE ChainInv'
    BY <1>2, <1>4 DEF Break, Recover, AddRunner, session
<1>5. ASSUME NEW c \in Client, LoseSession(c) PROVE ChainInv'
    BY <1>2, <1>5 DEF LoseSession
<1>6. ASSUME NEW c \in Client, RequestStep(c) PROVE \A d \in Client : Chain(d)'
    BY <1>6, ArriveChain, EmptyChain, GoChain, BackChain DEF RequestStep
<1>7. ASSUME NEW c \in Client, NEW s \in Stack, Send(c, s) PROVE \A d \in Client : Chain(d)'
    BY <1>7, SendChain
<1> QED BY <1>1, <1>3, <1>4, <1>5, <1>6, <1>7 DEF Next, ChainInv

\* A request never holds more connections than one per stack and one at the
\* entry: nginx never sends it around, for any list of stacks.
THEOREM ChainIsBounded == Spec => []ChainBounded
<1>1. Init => ChainInv
    BY TypeInit DEF ChainInv, Chain, Init
<1> QED BY <1>1, ChainStep, ChainImplies, PTL DEF Spec

-----------------------------------------------------------------------------
(* Continuity of a session.  While nothing fails, a request is at its      *)
(* entry, or behind it at the owner, or on its way back, with the answer   *)
(* of the session's runner.                                                *)

\* What the session's runner answers.
OwnAnswer(c, res) ==
    /\ res.status = 200 /\ res.by = home[c]
    /\ res.cookie = None /\ ~res.told

\* The hop is of a request with a session, on a stack that can be reached.
SoundHop(hop) == up[hop.at] /\ hop.cookie /\ ~hop.fallback

\* The request of c is at hop `top`.
OnTheWay(c, top) ==
    /\ top.step \in {"arrive", "resolve", "proxy", "respond"}
    /\ top.step = "resolve" => top.at = home[c]
    /\ top.step = "proxy" =>
         resp[c].by = home[c] /\ resp[c].cookie = None /\ ~resp[c].told
    /\ top.step = "respond" => OwnAnswer(c, resp[c])

Continuous(c) ==
    steady[c] =>
      /\ home[c] \in Stack /\ alive[c] /\ up[home[c]]
      /\ ~Running(c) /\ result[c].status # 0 => OwnAnswer(c, result[c])
      /\ Running(c) =>
           /\ \A i \in DOMAIN hops[c] : SoundHop(hops[c][i])
           /\ Depth(c) = 1 \/ (Depth(c) = 2 /\ hops[c][1].step = "waitOwner" /\ Top(c).at = home[c])
           /\ OnTheWay(c, Top(c))

ContinuityInv == TypeOK /\ \A c \in Client : Continuous(c)

LEMMA ContinuityImplies == ContinuityInv => SessionContinuity
BY DEF ContinuityInv, Continuous, SessionContinuity, OwnAnswer

\* A step of one request leaves the sessions of the others as they are.
LEMMA OneSession ==
    ASSUME ContinuityInv, NEW c \in Client, Continuous(c)', UNCHANGED up,
           \A d \in Client \ {c} : /\ hops'[d] = hops[d] /\ resp'[d] = resp[d]
                                   /\ result'[d] = result[d] /\ home'[d] = home[d]
                                   /\ alive'[d] = alive[d] /\ (steady'[d] => steady[d])
    PROVE  \A d \in Client : Continuous(d)'
<1> SUFFICES ASSUME NEW d \in Client, d # c PROVE Continuous(d)'
    OBVIOUS
<1>1. /\ hops'[d] = hops[d] /\ resp'[d] = resp[d] /\ result'[d] = result[d]
      /\ home'[d] = home[d] /\ alive'[d] = alive[d] /\ (steady'[d] => steady[d]) /\ up' = up
    OBVIOUS
<1>2. Continuous(d)
    BY DEF ContinuityInv
<1> QED BY <1>1, <1>2 DEF Continuous, Running, Depth, Top, SoundHop, OnTheWay, OwnAnswer

\* A step that gives the request up, or that fails, promises nothing.
LEMMA UnsteadySession ==
    ASSUME ContinuityInv, NEW c \in Client, ~steady'[c], UNCHANGED up,
           \A d \in Client \ {c} : /\ hops'[d] = hops[d] /\ resp'[d] = resp[d]
                                   /\ result'[d] = result[d] /\ home'[d] = home[d]
                                   /\ alive'[d] = alive[d] /\ (steady'[d] => steady[d])
    PROVE  \A d \in Client : Continuous(d)'
<1>1. Continuous(c)'
    BY DEF Continuous
<1> QED BY <1>1, OneSession

\* Where the running request of a session is, by the depth of its chain.
LEMMA RunningSession ==
    ASSUME ContinuityInv, NEW c \in Client, Running(c), steady[c]
    PROVE  /\ TypeOK /\ hops[c] \in Seq(Hop) /\ home[c] \in Stack /\ alive[c] /\ up[home[c]]
           /\ Depth(c) \in DOMAIN hops[c] /\ DOMAIN hops[c] = 1..Depth(c)
           /\ Top(c) = hops[c][Depth(c)] /\ Top(c) \in Hop
           /\ SoundHop(Top(c)) /\ OnTheWay(c, Top(c))
           /\ \A i \in DOMAIN hops[c] : SoundHop(hops[c][i])
           /\ Depth(c) = 1 \/ (Depth(c) = 2 /\ hops[c][1].step = "waitOwner" /\ Top(c).at = home[c])
<1>1. TypeOK /\ Continuous(c)
    BY DEF ContinuityInv
<1>2. /\ hops[c] \in Seq(Hop) /\ Depth(c) \in DOMAIN hops[c]
      /\ Top(c) = hops[c][Depth(c)] /\ Top(c) \in Hop
    BY <1>1, TopIsHop
<1>3. DOMAIN hops[c] = 1..Depth(c)
    BY <1>2 DEF Depth
<1> QED BY <1>1, <1>2, <1>3 DEF Continuous

\* The last hop goes on, and stays on the way.
LEMMA GotoSession ==
    ASSUME ContinuityInv, NEW c \in Client, Running(c), NEW step \in Steps, Goto(c, step),
           UNCHANGED <<up, home, alive, result>>,
           \A d \in Client \ {c} : resp'[d] = resp[d],
           \A d \in Client : steady'[d] => steady[d],
           steady[c] => \A hop \in Hop :
               Headers(hop) = Headers(Top(c)) /\ hop.step = step => OnTheWay(c, hop)'
    PROVE  \A d \in Client : Continuous(d)'
<1>1. TypeOK
    BY DEF ContinuityInv
<1>2. PICK hs : /\ HopsBecome(c, hs) /\ SameHeaders(hs, c) /\ hs # <<>>
                /\ GoesTo(hs, c, Depth(c), step)
    BY <1>1, GotoHops
<1>3. ASSUME steady[c] PROVE Continuous(c)'
    <2>1. /\ DOMAIN hops[c] = 1..Depth(c) /\ home[c] \in Stack /\ alive[c] /\ up[home[c]]
          /\ Depth(c) \in 1..Depth(c) /\ Top(c) = hops[c][Depth(c)]
          /\ \A i \in DOMAIN hops[c] : SoundHop(hops[c][i])
          /\ Depth(c) = 1 \/ (Depth(c) = 2 /\ hops[c][1].step = "waitOwner" /\ Top(c).at = home[c])
        BY <1>3, RunningSession
    <2>2. /\ hops'[c] = hs /\ Len(hs) = Depth(c) /\ hs \in Seq(Hop) /\ DOMAIN hs = DOMAIN hops[c]
          /\ hs[Depth(c)] \in Hop /\ hs[Depth(c)].step = step
        BY <1>2, <2>1 DEF HopsBecome, SameHeaders, GoesTo
    <2>3. Running(c)' /\ Depth(c)' = Depth(c) /\ Top(c)' = hs[Depth(c)]
        BY <1>2, <2>2 DEF Running, Depth, Top
    <2>4. ASSUME NEW i \in DOMAIN hs
          PROVE  hs[i].cookie /\ hs[i].at = hops[c][i].at /\ hs[i].fallback = hops[c][i].fallback
        <3>1. Headers(hs[i]) = Headers(hops[c][i]) /\ i \in DOMAIN hops[c]
            BY <1>2, <2>2 DEF SameHeaders
        <3>2. hs[i].cookie = hops[c][i].cookie
            BY <1>2, <2>1, <2>2 DEF GoesTo
        <3> QED BY <2>1, <3>1, <3>2 DEF Headers, SoundHop
    <2>5. (\A i \in DOMAIN hops[c] : SoundHop(hops[c][i]))'
        BY <2>1, <2>2, <2>4 DEF SoundHop
    <2>6. PICK top \in Hop : top = hs[Depth(c)]
        BY <2>2
    <2>7. OnTheWay(c, top)'
        <3>1. Headers(top) = Headers(Top(c)) /\ top.step = step
            BY <1>2, <2>1, <2>2, <2>6 DEF SameHeaders
        <3> QED BY <1>3, <3>1
    <2>8. OnTheWay(c, Top(c))'
        BY <2>3, <2>6, <2>7 DEF OnTheWay
    <2>9. (Depth(c) = 1 \/ (Depth(c) = 2 /\ hops[c][1].step = "waitOwner" /\ Top(c).at = home[c]))'
        <3>1. CASE Depth(c) = 1
            BY <2>3, <3>1
        <3>2. CASE Depth(c) = 2
            <4>1. hs[1] = hops[c][1]
                BY <1>2, <2>1, <2>2, <3>2 DEF GoesTo
            <4>2. hs[Depth(c)].at = Top(c).at
                BY <2>1, <2>2, <2>4
            <4> QED BY <2>1, <2>2, <2>3, <3>2, <4>1, <4>2
        <3> QED BY <2>1, <3>1, <3>2
    <2>10. home'[c] \in Stack /\ alive'[c] /\ up'[home'[c]]
        BY <2>1
    <2> QED BY <2>3, <2>5, <2>8, <2>9, <2>10 DEF Continuous
<1>4. Continuous(c)'
    BY <1>3 DEF Continuous
<1> QED BY <1>2, <1>4, OneSession DEF HopsBecome

LEMMA ArriveSession ==
    ASSUME ContinuityInv, NEW c \in Client, Arrive(c)
    PROVE  \A d \in Client : Continuous(d)'
<1>1. /\ TypeOK /\ Running(c) /\ Top(c).step = "arrive" /\ resp \in [Client -> Response]
      /\ UNCHANGED <<up, home, alive, result, steady>>
    BY DEF ContinuityInv, TypeOK, Arrive, environment, session, history
<1>2. CASE ~steady[c]
    <2>1. PICK hs : HopsBecome(c, hs)
        <3>1. CASE Goto(c, "resolve") \/ Goto(c, "respond")
            BY <1>1, <3>1, GotoHops DEF Steps
        <3>2. CASE /\ home[c] \in Stack
                   /\ Forward(c, "waitOwner", [at |-> home[c], step |-> "arrive", cookie |-> TRUE,
                                               fallback |-> FALSE, remaining |-> <<>>])
            BY <1>1, <3>2, ForwardHops, HopType, EmptySeq DEF Steps
        <3> QED BY <3>1, <3>2, Zenon DEF Arrive, Respond
    <2>2. \A d \in Client \ {c} : resp'[d] = resp[d]
        BY <1>1 DEF Arrive, Respond
    <2> QED BY <1>1, <1>2, <2>1, <2>2, UnsteadySession DEF HopsBecome
<1>3. CASE steady[c]
    <2>1. /\ home[c] \in Stack /\ up[home[c]] /\ alive[c] /\ SoundHop(Top(c)) /\ hops[c] \in Seq(Hop)
          /\ Depth(c) \in DOMAIN hops[c] /\ DOMAIN hops[c] = 1..Depth(c)
          /\ Top(c) = hops[c][Depth(c)]
          /\ \A i \in DOMAIN hops[c] : SoundHop(hops[c][i])
          /\ Depth(c) = 1 \/ (Depth(c) = 2 /\ Top(c).at = home[c])
        BY <1>1, <1>3, RunningSession
    <2>2. home[c] # Retired
        BY <2>1, ConstantsAssumption
    <2>3. CASE ~ForeignOwner(c) /\ Goto(c, "resolve") /\ UNCHANGED resp
        <3>1. Top(c).at = home[c]
            BY <2>1, <2>3 DEF ForeignOwner, SoundHop
        <3>2. ASSUME NEW hop \in Hop, Headers(hop) = Headers(Top(c)), hop.step = "resolve"
              PROVE  OnTheWay(c, hop)'
            BY <1>1, <3>1, <3>2 DEF OnTheWay, Headers
        <3> QED BY <1>1, <2>3, <3>2, GotoSession DEF Steps
    <2>4. CASE /\ ForeignOwner(c) /\ UNCHANGED resp
               /\ Forward(c, "waitOwner", [at |-> home[c], step |-> "arrive", cookie |-> TRUE,
                                           fallback |-> FALSE, remaining |-> <<>>])
        <3> DEFINE next == [at |-> home[c], step |-> "arrive", cookie |-> TRUE,
                            fallback |-> FALSE, remaining |-> <<>>]
        <3>1. next \in Hop /\ "waitOwner" \in Steps
            BY <2>1, EmptySeq, HopType DEF Steps
        <3>2. next.step = "arrive" /\ next.at = home[c] /\ next.cookie /\ ~next.fallback
            OBVIOUS
        <3>3. Forward(c, "waitOwner", next)
            BY <2>4
        <3> HIDE DEF next
        <3>4. PICK hs : /\ SameHeaders(hs, c) /\ HopsBecome(c, Append(hs, next))
                        /\ GoesTo(hs, c, Depth(c), "waitOwner")
            BY <1>1, <3>1, <3>3, ForwardHops
        <3>5. Depth(c) = 1
            BY <2>1, <2>4 DEF ForeignOwner
        <3>6. /\ hs \in Seq(Hop) /\ DOMAIN hs = 1..1 /\ Len(hs) = 1
              /\ hs[1].step = "waitOwner" /\ SoundHop(hs[1])
            <4>1. hs \in Seq(Hop) /\ DOMAIN hs = 1..1
                BY <3>4, <3>5 DEF SameHeaders, GoesTo
            <4>2. 1 \in DOMAIN hs /\ Headers(hs[1]) = Headers(hops[c][1]) /\ SoundHop(hops[c][1])
                BY <2>1, <3>4, <4>1 DEF SameHeaders
            <4>3. hs[1].step = "waitOwner" /\ hs[1].cookie = hops[c][1].cookie
                BY <3>4, <3>5 DEF GoesTo
            <4>4. SoundHop(hs[1])
                BY <4>2, <4>3 DEF SoundHop, Headers
            <4> QED BY <4>1, <4>3, <4>4
        <3>7. PICK grown : grown = Append(hs, next)
            OBVIOUS
        <3>8. /\ grown \in Seq(Hop) /\ Len(grown) = 2 /\ DOMAIN grown = 1..2
              /\ grown[1] = hs[1] /\ grown[2] = next
            <4>1. /\ grown \in Seq(Hop) /\ Len(grown) = Len(hs) + 1
                  /\ \A i \in 1..Len(hs) : grown[i] = hs[i]
                  /\ grown[Len(hs) + 1] = next
                <5>1. next \in Hop /\ hs \in Seq(Hop)
                    BY <3>1, <3>6
                <5>2. /\ Append(hs, next) \in Seq(Hop) /\ Len(Append(hs, next)) = Len(hs) + 1
                      /\ \A i \in 1..Len(hs) : Append(hs, next)[i] = hs[i]
                      /\ Append(hs, next)[Len(hs) + 1] = next
                    BY <5>1, SMT
                <5> QED BY <3>7, <5>2, Zenon
            <4>2. 1 \in 1..Len(hs) /\ Len(hs) + 1 = 2
                BY <3>6
            <4>3. grown[1] = hs[1] /\ grown[2] = next
                BY <4>1, <4>2, Zenon
            <4> QED BY <3>6, <4>1, <4>3
        <3>9. hops'[c] = grown
            BY <3>4, <3>7 DEF HopsBecome
        <3>10. Running(c)' /\ Depth(c)' = 2 /\ Top(c)' = next
            <4>1. Running(c)' /\ Depth(c)' = 2
                BY <3>8, <3>9 DEF Running, Depth
            <4> QED BY <3>8, <3>9, <4>1 DEF Top
        <3>11. (\A i \in DOMAIN hops[c] : SoundHop(hops[c][i]))'
            <4>1. ASSUME NEW i \in 1..2 PROVE SoundHop(grown[i])
                <5>1. SoundHop(next)
                    BY <2>1, <3>2 DEF SoundHop
                <5>2. i = 1 \/ i = 2
                    OBVIOUS
                <5> QED BY <3>6, <3>8, <5>1, <5>2
            <4> QED BY <1>1, <3>8, <3>9, <4>1 DEF SoundHop
        <3>12. OnTheWay(c, Top(c))'
            BY <3>2, <3>10 DEF OnTheWay
        <3>13. (Depth(c) = 2 /\ hops[c][1].step = "waitOwner" /\ Top(c).at = home[c])'
            BY <1>1, <3>2, <3>6, <3>8, <3>9, <3>10
        <3>14. Continuous(c)'
            BY <1>1, <2>1, <3>10, <3>11, <3>12, <3>13 DEF Continuous
        <3> QED BY <1>1, <2>4, <3>4, <3>14, OneSession DEF HopsBecome
    <2> QED BY <2>2, <2>3, <2>4, <2>1, Zenon DEF Arrive, SoundHop
<1> QED BY <1>2, <1>3

\* A request that is not steady may do what it likes.
LEMMA AnySession ==
    ASSUME ContinuityInv, NEW c \in Client, ~steady'[c], NEW hs, HopsBecome(c, hs),
           UNCHANGED <<up, home, alive, result>>,
           \A d \in Client \ {c} : resp'[d] = resp[d],
           \A d \in Client : steady'[d] => steady[d]
    PROVE  \A d \in Client : Continuous(d)'
BY UnsteadySession DEF HopsBecome

\* What a failure unsettles, and that it settles nothing.
LEMMA Unsettled ==
    ASSUME TypeOK, NEW hit, Unsettle(hit)
    PROVE  \A d \in Client : steady'[d] => steady[d] /\ d \notin hit
<1> SUFFICES ASSUME NEW d \in Client, steady'[d] PROVE steady[d] /\ d \notin hit
    OBVIOUS
<1>1. steady'[d] = (steady[d] /\ d \notin hit)
    BY Zenon DEF Unsettle
<1> QED BY <1>1

LEMMA ResolveSession ==
    ASSUME ContinuityInv, NEW c \in Client, ResolveFound(c) \/ ResolveNew(c) \/ ResolveEmpty(c)
    PROVE  \A d \in Client : Continuous(d)'
<1>1. /\ TypeOK /\ Running(c) /\ resp \in [Client -> Response]
      /\ UNCHANGED <<up, home, alive, result, steady>>
    BY DEF ContinuityInv, TypeOK, ResolveFound, ResolveNew, ResolveEmpty,
           environment, session, history
<1>2. CASE ResolveFound(c) /\ steady[c]
    <2>1. Goto(c, "proxy") /\ resp' = [resp EXCEPT ![c] = [NoResponse EXCEPT !.by = home[c]]]
        BY <1>2 DEF ResolveFound
    <2>2. ASSUME NEW hop \in Hop, hop.step = "proxy" PROVE OnTheWay(c, hop)'
        <3>1. resp'[c] = [NoResponse EXCEPT !.by = home[c]] /\ home' = home
            BY <1>1, <2>1
        <3>2. resp'[c].by = home[c] /\ resp'[c].cookie = None /\ ~resp'[c].told
            BY <3>1 DEF NoResponse
        <3> QED BY <2>2, <3>1, <3>2 DEF OnTheWay
    <2>3. \A d \in Client \ {c} : resp'[d] = resp[d]
        BY <1>1, <2>1
    <2> QED BY <1>1, <2>1, <2>2, <2>3, GotoSession DEF Steps
<1>3. CASE ~ResolveFound(c)
    <2>1. Top(c).step \in {"resolve", "resolveAgain"} /\ ~Found(c)
        BY <1>3 DEF ResolveNew, ResolveEmpty
    <2>2. ~steady[c]
        <3> SUFFICES ASSUME steady[c] PROVE FALSE
            OBVIOUS
        <3>1. OnTheWay(c, Top(c)) /\ SoundHop(Top(c)) /\ alive[c]
            BY <1>1, RunningSession
        <3>2. Top(c).step = "resolve" /\ Top(c).at = home[c] /\ Top(c).cookie
            BY <2>1, <3>1 DEF OnTheWay, SoundHop
        <3> QED BY <2>1, <3>1, <3>2 DEF Found
    <2>3. \E hs : HopsBecome(c, hs)
        <3>1. CASE ResolveNew(c)
            BY <1>1, <3>1, GotoHops DEF ResolveNew, Steps
        <3>2. CASE ResolveEmpty(c)
            <4>1. CASE Respond(c, Failed(503))
                BY <1>1, <4>1, GotoHops DEF Respond, Steps
            <4>2. ASSUME NEW step, NEW next, Forward(c, step, next) PROVE \E hs : HopsBecome(c, hs)
                <5>1. /\ hops \in [Client -> Seq(Hop)]
                      /\ hops' = [hops EXCEPT ![c] =
                            Append([hops[c] EXCEPT ![Depth(c)].step = step], next)]
                    BY <1>1, <4>2 DEF TypeOK, Forward
                <5> QED BY <5>1 DEF HopsBecome
            <4> QED BY <3>2, <4>1, <4>2, Zenon DEF ResolveEmpty
        <3> QED BY <1>3, <3>1, <3>2
    <2>4. \A d \in Client \ {c} : resp'[d] = resp[d]
        BY <1>1, <1>3 DEF ResolveNew, ResolveEmpty, Respond
    <2> QED BY <1>1, <2>2, <2>3, <2>4, AnySession
<1>4. CASE ResolveFound(c) /\ ~steady[c]
    <2>1. \A d \in Client \ {c} : resp'[d] = resp[d]
        BY <1>1, <1>4 DEF ResolveFound
    <2>2. \E hs : HopsBecome(c, hs)
        BY <1>1, <1>4, GotoHops DEF ResolveFound, Steps
    <2> QED BY <1>1, <1>4, <2>1, <2>2, AnySession
<1> QED BY <1>2, <1>3, <1>4

LEMMA FailSession ==
    ASSUME ContinuityInv, NEW c \in Client, NEW status \in Status,
           ResolveFails(c, status) \/ ProxyRunner(c, status)
    PROVE  \A d \in Client : Continuous(d)'
<1>1. /\ TypeOK /\ Running(c) /\ resp \in [Client -> Response]
      /\ UNCHANGED <<up, home, alive, result>>
    BY DEF ContinuityInv, TypeOK, ResolveFails, ProxyRunner, environment, session
<1>2. Goto(c, "respond") /\ \A d \in Client \ {c} : resp'[d] = resp[d]
    BY <1>1 DEF ResolveFails, ProxyRunner, Respond
<1>3. \E hs : HopsBecome(c, hs)
    BY <1>1, <1>2, GotoHops DEF Steps
<1>4. CASE ProxyRunner(c, status) /\ status = 200 /\ steady[c]
    <2>1. resp' = [resp EXCEPT ![c] = [resp[c] EXCEPT !.status = 200]] /\ Unsettle({})
        BY <1>4 DEF ProxyRunner, Respond
    <2>2. \A d \in Client : steady'[d] => steady[d]
        BY <1>1, <2>1, Unsettled
    <2>3. OnTheWay(c, Top(c))
        BY <1>1, <1>4, RunningSession
    <2>4. CASE Top(c).step = "proxy"
        <3>1. resp'[c] = [resp[c] EXCEPT !.status = 200] /\ resp[c] \in Response
            BY <1>1, <2>1
        <3>2. /\ resp'[c].status = 200 /\ resp'[c].by = home[c]
              /\ resp'[c].cookie = None /\ ~resp'[c].told
            BY <2>3, <2>4, <3>1 DEF OnTheWay, Response
        <3>3. ASSUME NEW hop \in Hop, hop.step = "respond" PROVE OnTheWay(c, hop)'
            BY <1>1, <3>2, <3>3 DEF OnTheWay, OwnAnswer
        <3> QED BY <1>1, <1>2, <2>2, <3>3, GotoSession DEF Steps
    <2> QED BY <1>4, <2>3, <2>4 DEF ProxyRunner, OnTheWay
<1>5. CASE ~(ProxyRunner(c, status) /\ status = 200) \/ ~steady[c]
    <2>1. PICK hit \in {{}, {c}} : /\ Unsettle(hit)
                                   /\ hit = {} => ProxyRunner(c, status) /\ status = 200
        BY DEF ResolveFails, ProxyRunner
    <2>2. \A d \in Client : steady'[d] => steady[d] /\ d \notin hit
        BY <1>1, <2>1, Unsettled
    <2>3. ~steady'[c]
        BY <1>5, <2>1, <2>2
    <2> QED BY <1>1, <1>2, <1>3, <2>2, <2>3, AnySession
<1> QED BY <1>4, <1>5

\* The request ends, and its session is as it was, or not steady.
LEMMA EndSession ==
    ASSUME ContinuityInv, NEW c \in Client, NEW res \in Response,
           hops' = [hops EXCEPT ![c] = <<>>], resp' = [resp EXCEPT ![c] = NoResponse],
           result' = [result EXCEPT ![c] = res], UNCHANGED <<up, steady>>,
           steady[c] => OwnAnswer(c, res) /\ UNCHANGED <<home, alive>>,
           \A d \in Client \ {c} : home'[d] = home[d] /\ alive'[d] = alive[d]
    PROVE  \A d \in Client : Continuous(d)'
<1>1. /\ hops'[c] = <<>> /\ result'[c] = res
      /\ \A d \in Client \ {c} : hops'[d] = hops[d] /\ resp'[d] = resp[d] /\ result'[d] = result[d]
    BY DEF ContinuityInv, TypeOK
<1>2. ASSUME steady[c] PROVE Continuous(c)'
    <2>1. home[c] \in Stack /\ alive[c] /\ up[home[c]]
        BY <1>2 DEF ContinuityInv, Continuous
    <2>2. ~Running(c)'
        BY <1>1 DEF Running
    <2>3. OwnAnswer(c, result[c])'
        BY <1>1, <1>2 DEF OwnAnswer
    <2> QED BY <1>2, <2>1, <2>2, <2>3 DEF Continuous
<1>3. Continuous(c)'
    BY <1>2 DEF Continuous
<1> QED BY <1>1, <1>3, OneSession

LEMMA AnswerSession ==
    ASSUME ContinuityInv, NEW c \in Client, Answer(c)
    PROVE  \A d \in Client : Continuous(d)'
<1>1. /\ TypeOK /\ resp[c] \in Response /\ UNCHANGED <<up, steady>>
      /\ home \in [Client -> Stack \cup {None, Retired}] /\ alive \in [Client -> BOOLEAN]
    BY DEF ContinuityInv, TypeOK, Answer, environment, history
<1>2. Running(c)
    <2>1. Depth(c) = 1
        BY DEF Answer
    <2>2. CASE hops[c] = <<>>
        BY <2>1, <2>2 DEF Depth
    <2> QED BY <2>2 DEF Running
<1>3. ASSUME steady[c] PROVE OwnAnswer(c, resp[c]) /\ UNCHANGED <<home, alive>>
    <2>1. OwnAnswer(c, resp[c])
        BY <1>2, <1>3, RunningSession DEF Answer, OnTheWay
    <2> QED BY <2>1 DEF Answer, OwnAnswer, session
<1>4. \A d \in Client \ {c} : home'[d] = home[d] /\ alive'[d] = alive[d]
    BY <1>1 DEF Answer, session
<1> QED BY <1>1, <1>3, <1>4, EndSession DEF Answer

LEMMA ReturnSession ==
    ASSUME ContinuityInv, NEW c \in Client, Return(c)
    PROVE  \A d \in Client : Continuous(d)'
<1>1. /\ TypeOK /\ resp[c] \in Response /\ hops[c] \in Seq(Hop) /\ resp \in [Client -> Response]
      /\ UNCHANGED <<up, home, alive, result, steady>>
    BY DEF ContinuityInv, TypeOK, Return, environment, session, history
<1>2. /\ Depth(c) \in DOMAIN hops[c] /\ Depth(c) > 1 /\ Running(c)
      /\ HandBack(c, Depth(c), resp[c])
    BY <1>1 DEF Return, Depth, Running
<1>3. PICK hs : /\ HopsBecome(c, hs) /\ SameHeaders(hs, c) /\ hs # <<>>
                /\ GoesTo(hs, c, Depth(c) - 1, BackStep(c, Depth(c), resp[c]))
    BY <1>1, <1>2, HandBackHops
<1>4. /\ \A d \in Client \ {c} : resp'[d] = resp[d]
      /\ BackStep(c, Depth(c), resp[c]) = "respond" =>
           resp'[c] = [resp[c] EXCEPT !.told = @ \/ hops[c][Depth(c) - 1].step = "waitReassigned"]
    BY <1>1, <1>2, HandBackHops
<1>5. ASSUME steady[c] PROVE Continuous(c)'
    <2>1. /\ home[c] \in Stack /\ alive[c] /\ up[home[c]]
          /\ Depth(c) = 2 /\ hops[c][1].step = "waitOwner"
          /\ DOMAIN hops[c] = 1..2 /\ SoundHop(hops[c][1])
          /\ OnTheWay(c, Top(c))
        BY <1>2, <1>5, RunningSession
    <2>2. OwnAnswer(c, resp[c])
        BY <2>1 DEF OnTheWay, Return
    <2>3. BackStep(c, 2, resp[c]) = "respond"
        BY <2>1, <2>2 DEF BackStep, OwnAnswer
    <2>4. resp'[c] = [resp[c] EXCEPT !.told = @ \/ hops[c][1].step = "waitReassigned"]
        BY <1>4, <2>1, <2>3
    <2>5. /\ resp'[c].status = 200 /\ resp'[c].by = home[c]
          /\ resp'[c].cookie = None /\ ~resp'[c].told
        <3>1. /\ resp[c].status = 200 /\ resp[c].by = home[c]
              /\ resp[c].cookie = None /\ ~resp[c].told
            BY <2>2 DEF OwnAnswer
        <3> QED BY <1>1, <2>1, <2>4, <3>1 DEF Response
    <2>6. DOMAIN hs = 1..1 /\ hs[1].step = "respond" /\ hs[1].cookie = hops[c][1].cookie
        BY <1>3, <2>1, <2>3 DEF GoesTo
    <2>7. hs \in Seq(Hop) /\ Len(hs) = 1 /\ Headers(hs[1]) = Headers(hops[c][1])
        BY <1>3, <2>6 DEF SameHeaders
    <2>8. hops'[c] = hs /\ Running(c)' /\ Depth(c)' = 1 /\ Top(c)' = hs[1]
        BY <1>3, <2>7 DEF HopsBecome, Running, Depth, Top
    <2>9. (\A i \in DOMAIN hops[c] : SoundHop(hops[c][i]))'
        <3>1. SoundHop(hs[1])
            BY <2>1, <2>6, <2>7 DEF SoundHop, Headers
        <3> QED BY <1>1, <2>6, <2>8, <3>1 DEF SoundHop
    <2>10. OnTheWay(c, Top(c))'
        BY <1>1, <2>5, <2>6, <2>8 DEF OnTheWay, OwnAnswer
    <2> QED BY <1>1, <2>1, <2>8, <2>9, <2>10 DEF Continuous
<1>6. Continuous(c)'
    BY <1>1, <1>5 DEF Continuous
<1> QED BY <1>1, <1>3, <1>4, <1>6, OneSession DEF HopsBecome

\* A hop that is lost is of a request that is not steady.
LEMMA LostSession ==
    ASSUME ContinuityInv, NEW c \in Client, NEW i \in DOMAIN hops[c], HopLost(c, i)
    PROVE  \A d \in Client : Continuous(d)'
<1>1. /\ TypeOK /\ hops[c] \in Seq(Hop) /\ hops \in [Client -> Seq(Hop)]
      /\ result \in [Client -> Response] /\ resp \in [Client -> Response]
      /\ UNCHANGED <<up, home, alive, steady>> /\ ~up[hops[c][i].at]
    BY DEF ContinuityInv, TypeOK, HopLost, environment, session, history
<1>2. ~steady[c]
    <2> SUFFICES ASSUME steady[c] PROVE FALSE
        OBVIOUS
    <2>1. Running(c)
        BY <1>1 DEF Running
    <2>2. SoundHop(hops[c][i])
        BY <2>1, RunningSession
    <2> QED BY <1>1, <2>2 DEF SoundHop
<1>3. /\ \A d \in Client \ {c} : hops'[d] = hops[d] /\ resp'[d] = resp[d]
      /\ \A d \in Client \ {c} : result'[d] = result[d]
    <2>1. CASE i > 1 /\ UNCHANGED result /\ \E status \in {502, 504} : HandBack(c, i, Failed(status))
        <3>1. PICK status \in {502, 504} : HandBack(c, i, Failed(status))
            BY <2>1
        <3>2. Failed(status) \in Response
            BY FailedType DEF Status
        <3>3. PICK res \in Response : res = Failed(status)
            BY <3>2
        <3>4. HandBack(c, i, res)
            BY <3>1, <3>3
        <3>5. PICK hs : /\ HopsBecome(c, hs) /\ SameHeaders(hs, c) /\ hs # <<>>
                        /\ GoesTo(hs, c, i - 1, BackStep(c, i, res))
            BY <1>1, <2>1, <3>4, HandBackHops
        <3>6. \A d \in Client \ {c} : resp'[d] = resp[d]
            BY <1>1, <3>4 DEF HandBack
        <3> QED BY <2>1, <3>5, <3>6 DEF HopsBecome
    <2>2. CASE /\ hops' = [hops EXCEPT ![c] = <<>>]
               /\ resp' = [resp EXCEPT ![c] = NoResponse]
               /\ result' = [result EXCEPT ![c] = Failed(502)]
        BY <1>1, <2>2
    <2> QED BY <2>1, <2>2 DEF HopLost
<1> QED BY <1>1, <1>2, <1>3, UnsteadySession

LEMMA SendSession ==
    ASSUME ContinuityInv, NEW c \in Client, NEW s \in Stack, Send(c, s)
    PROVE  \A d \in Client : Continuous(d)'
<1> DEFINE first == [at |-> s, step |-> "arrive", cookie |-> home[c] # None,
                     fallback |-> FALSE, remaining |-> <<>>]
<1>1. /\ hops' = [hops EXCEPT ![c] = <<first>>] /\ UNCHANGED <<up, home, alive, resp>> /\ up[s]
      /\ result' = [result EXCEPT ![c] = NoResponse]
      /\ steady' = [steady EXCEPT ![c] = home[c] \in Stack /\ alive[c] /\ up[home[c]]]
    BY Zenon DEF Send, session, environment
<1>2. /\ ~first.fallback /\ first.step = "arrive" /\ first.at = s
      /\ first.cookie = (home[c] # None)
    BY Zenon
<1> HIDE DEF first
<1>3. /\ hops'[c] = <<first>> /\ hops'[c] # <<>>
      /\ \A d \in Client \ {c} : hops'[d] = hops[d] /\ result'[d] = result[d] /\ steady'[d] = steady[d]
    BY <1>1 DEF ContinuityInv, TypeOK
<1>4. steady'[c] = (home[c] \in Stack /\ alive[c] /\ up[home[c]])
    BY <1>1, Zenon DEF ContinuityInv, TypeOK
<1>5. ASSUME steady'[c] PROVE Continuous(c)'
    <2>1. home[c] \in Stack /\ alive[c] /\ up[home[c]] /\ home[c] # None
        BY <1>4, <1>5, ConstantsAssumption
    <2>2. Len(<<first>>) = 1 /\ DOMAIN <<first>> = 1..1 /\ <<first>>[1] = first
        OBVIOUS
    <2>3. Running(c)' /\ Depth(c)' = 1
        BY <1>3, <2>2 DEF Running, Depth
    <2>4. Top(c)' = first
        BY <1>3, <2>2, <2>3 DEF Top
    <2>5. (\A i \in DOMAIN hops[c] : SoundHop(hops[c][i]))'
        <3>1. SoundHop(first)
            BY <1>1, <1>2, <2>1 DEF SoundHop
        <3> QED BY <1>1, <1>3, <2>2, <3>1 DEF SoundHop
    <2>6. OnTheWay(c, Top(c))'
        BY <1>2, <2>4 DEF OnTheWay
    <2> QED BY <1>1, <2>1, <2>3, <2>5, <2>6 DEF Continuous
<1>6. Continuous(c)'
    BY <1>5 DEF Continuous
<1> QED BY <1>1, <1>3, <1>6, OneSession

\* What a stack that breaks unsettles, and only what does not depend on it
\* stays steady.
LEMMA BreakSession ==
    ASSUME ContinuityInv, NEW s \in Stack, Break(s)
    PROVE  \A d \in Client : Continuous(d)'
<1> SUFFICES ASSUME NEW c \in Client, steady'[c] PROVE Continuous(c)'
    BY DEF Continuous
<1>1. /\ UNCHANGED <<home, alive, hops, resp, result>> /\ up' = [up EXCEPT ![s] = FALSE]
      /\ Unsettle({d \in Client : s = home[d] \/ \E i \in DOMAIN hops[d] : hops[d][i].at = s})
      /\ up \in [Stack -> BOOLEAN]
    BY DEF ContinuityInv, TypeOK, Break, session
<1>2. steady[c] /\ s # home[c] /\ \A i \in DOMAIN hops[c] : hops[c][i].at # s
    <2>1. steady[c] /\ c \notin {d \in Client : s = home[d] \/ \E i \in DOMAIN hops[d] : hops[d][i].at = s}
        BY <1>1, Unsettled DEF ContinuityInv
    <2> QED BY <2>1
<1>3. Continuous(c)
    BY DEF ContinuityInv
<1>4. home[c] \in Stack /\ up'[home[c]]
    BY <1>1, <1>2, <1>3 DEF Continuous
<1>5. ASSUME Running(c), NEW i \in DOMAIN hops[c] PROVE SoundHop(hops[c][i])'
    <2>1. SoundHop(hops[c][i]) /\ hops[c][i].at # s /\ hops[c][i].at \in Stack
        <3>1. hops[c] \in Seq(Hop)
            BY DEF ContinuityInv, TypeOK
        <3>2. hops[c][i] \in Hop
            BY <1>5, <3>1
        <3> QED BY <1>2, <1>3, <1>5, <3>2 DEF Continuous, Hop
    <2>2. up'[hops[c][i].at] = up[hops[c][i].at]
        BY <1>1, <2>1
    <2> QED BY <1>1, <2>1, <2>2 DEF SoundHop
<1> QED BY <1>1, <1>2, <1>3, <1>4, <1>5
       DEF Continuous, Running, Depth, Top, OnTheWay, OwnAnswer

LEMMA OtherSession ==
    ASSUME ContinuityInv,
           \/ UNCHANGED vars
           \/ \E s \in Stack : Recover(s) \/ AddRunner(s)
           \/ \E c \in Client : LoseSession(c)
    PROVE  \A d \in Client : Continuous(d)'
<1>1. CASE UNCHANGED <<up, session, hops, resp, result, history>>
    BY <1>1 DEF ContinuityInv, Continuous, Running, Depth, Top, SoundHop, OnTheWay, OwnAnswer,
               session, history
<1>2. CASE UNCHANGED vars
    BY <1>1, <1>2 DEF vars, environment
<1>3. ASSUME NEW s \in Stack, AddRunner(s) PROVE \A d \in Client : Continuous(d)'
    BY <1>1, <1>3 DEF AddRunner
<1>4. ASSUME NEW s \in Stack, Recover(s) PROVE \A d \in Client : Continuous(d)'
    <2>1. /\ UNCHANGED <<session, hops, resp, result, history>>
          /\ \A t \in Stack : up[t] => up'[t]
        BY <1>4 DEF ContinuityInv, TypeOK, Recover
    <2> SUFFICES ASSUME NEW c \in Client, steady[c] PROVE Continuous(c)'
        BY <2>1 DEF Continuous, history
    <2>2. Continuous(c)
        BY DEF ContinuityInv
    <2>3. home[c] \in Stack /\ up'[home[c]]
        BY <2>1, <2>2 DEF Continuous
    <2>4. ASSUME Running(c), NEW i \in DOMAIN hops[c] PROVE SoundHop(hops[c][i])'
        <3>1. hops[c] \in Seq(Hop)
            BY DEF ContinuityInv, TypeOK
        <3>2. hops[c][i].at \in Stack
            <4>1. hops[c][i] \in Hop
                BY <2>4, <3>1
            <4> QED BY <4>1 DEF Hop
        <3>3. SoundHop(hops[c][i])
            BY <2>2, <2>4 DEF Continuous
        <3> QED BY <2>1, <3>2, <3>3 DEF SoundHop
    <2> QED BY <2>1, <2>2, <2>3, <2>4
           DEF Continuous, Running, Depth, Top, OnTheWay, OwnAnswer, session, history
<1>5. ASSUME NEW c \in Client, LoseSession(c) PROVE \A d \in Client : Continuous(d)'
    <2>1. /\ UNCHANGED <<up, home, hops, resp, result>> /\ Unsettle({c})
          /\ \A d \in Client \ {c} : alive'[d] = alive[d]
        BY <1>5 DEF ContinuityInv, TypeOK, LoseSession, environment
    <2>2. ~steady'[c] /\ \A d \in Client : steady'[d] => steady[d]
        BY <2>1, Unsettled DEF ContinuityInv
    <2> QED BY <2>1, <2>2, UnsteadySession
<1> QED BY <1>2, <1>3, <1>4, <1>5

LEMMA ContinuityStep == ContinuityInv /\ [Next]_vars => ContinuityInv'
<1> SUFFICES ASSUME ContinuityInv, [Next]_vars PROVE \A d \in Client : Continuous(d)'
    BY TypeStep DEF ContinuityInv
<1>1. ASSUME NEW c \in Client, RequestStep(c) PROVE \A d \in Client : Continuous(d)'
    BY <1>1, ArriveSession, ResolveSession, FailSession, AnswerSession, ReturnSession, LostSession
       DEF RequestStep
<1> QED BY <1>1, SendSession, BreakSession, OtherSession DEF Next

\* A session is left only if something failed: for any list of stacks, a
\* request that is answered while its session, that session's stack and the
\* entry are well was answered by the session's runner, wherever it entered.
THEOREM SessionIsContinued == Spec => []SessionContinuity
<1>1. Init => ContinuityInv
    BY TypeInit DEF ContinuityInv, Continuous, Init
<1> QED BY <1>1, ContinuityStep, ContinuityImplies, PTL DEF Spec
=============================================================================
