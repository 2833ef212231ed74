------------------------- MODULE StackRoutingProofs -------------------------
(***************************************************************************)
(* For any list of stacks: the rotation of a stack names every other stack *)
(* once, no two stacks fall back to the same one first, and a request that *)
(* is refused was refused by all of them.                                  *)
(***************************************************************************)
EXTENDS StackRouting, SequenceTheorems, TLAPS

\* The elements of a sequence.
Elements(seq) == {seq[i] : i \in DOMAIN seq}

\* Each stack has one place in BUNSHIN_STACKS.
LEMMA PivotLemma ==
    ASSUME NEW k \in DOMAIN Order
    PROVE  /\ Len(Order) \in Nat /\ DOMAIN Order = 1..Len(Order)
           /\ (CHOOSE i \in DOMAIN Order : Order[i] = Order[k]) = k
BY OrderAssumption

\* A sequence cut at k and put together the other way round, by index.
LEMMA CutElement ==
    ASSUME NEW S, NEW seq \in Seq(S), NEW n \in Nat, n = Len(seq), NEW k \in 1..n
    PROVE  LET R == SubSeq(seq, k + 1, n) \o SubSeq(seq, 1, k - 1)
           IN  /\ R \in Seq(S)
               /\ Len(R) = n - 1
               /\ \A i \in 1..(n - k) : R[i] = seq[k + i]
               /\ \A i \in 1..(k - 1) : R[i + (n - k)] = seq[i]
<1> DEFINE After == SubSeq(seq, k + 1, n)
           Before == SubSeq(seq, 1, k - 1)
<1>1. \A i \in 1..n : seq[i] \in S
    OBVIOUS
<1>2. k + 1 \in Int /\ k - 1 \in Int /\ n \in Int
    OBVIOUS
<1>3. After \in Seq(S) /\ Len(After) = n - k
    <2>1. \A i \in (k + 1)..n : seq[i] \in S
        BY <1>1
    <2>2. After \in Seq(S) /\ Len(After) = IF k + 1 <= n THEN n - (k + 1) + 1 ELSE 0
        BY <1>2, <2>1, SubSeqProperties
    <2> QED BY <2>2
<1>4. \A i \in 1..(n - k) : After[i] = seq[k + i]
    <2>1. \A i \in (k + 1)..n : seq[i] \in S
        BY <1>1
    <2>2. \A i \in 1..(n - (k + 1) + 1) : After[i] = seq[(k + 1) + i - 1]
        BY <1>2, <2>1, SubSeqProperties
    <2>3. ASSUME NEW i \in 1..(n - k) PROVE After[i] = seq[k + i]
        <3>1. i \in 1..(n - (k + 1) + 1) /\ (k + 1) + i - 1 = k + i
            OBVIOUS
        <3>2. After[i] = seq[(k + 1) + i - 1]
            BY <2>2, <3>1
        <3> QED BY <3>1, <3>2, Zenon
    <2> QED BY <2>3
<1>5. Before \in Seq(S) /\ Len(Before) = k - 1
    <2>1. \A i \in 1..(k - 1) : seq[i] \in S
        BY <1>1
    <2>2. Before \in Seq(S) /\ Len(Before) = IF 1 <= k - 1 THEN (k - 1) - 1 + 1 ELSE 0
        BY <1>2, <2>1, SubSeqProperties
    <2> QED BY <2>2
<1>6. \A i \in 1..(k - 1) : Before[i] = seq[i]
    <2>1. \A i \in 1..(k - 1) : seq[i] \in S
        BY <1>1
    <2>2. \A i \in 1..((k - 1) - 1 + 1) : Before[i] = seq[1 + i - 1]
        BY <1>2, <2>1, SubSeqProperties
    <2>3. ASSUME NEW i \in 1..(k - 1) PROVE Before[i] = seq[i]
        <3>1. i \in 1..((k - 1) - 1 + 1) /\ 1 + i - 1 = i
            OBVIOUS
        <3>2. Before[i] = seq[1 + i - 1]
            BY <2>2, <3>1
        <3> QED BY <3>1, <3>2, Zenon
    <2> QED BY <2>3
<1>10. n - k \in Nat /\ k - 1 \in Nat
    OBVIOUS
<1> HIDE DEF After, Before
<1>7. After \o Before \in Seq(S) /\ Len(After \o Before) = n - 1
    BY <1>3, <1>5
<1>8. ASSUME NEW i \in 1..(n - k) PROVE (After \o Before)[i] = seq[k + i]
    <2>1. (After \o Before)[i] = After[i]
        BY <1>3, <1>5
    <2> QED BY <1>4, <2>1
<1>9. ASSUME NEW i \in 1..(k - 1) PROVE (After \o Before)[i + (n - k)] = seq[i]
    <2>2. /\ i + (n - k) \in 1..((n - k) + (k - 1)) /\ ~(i + (n - k) <= n - k)
          /\ (i + (n - k)) - (n - k) = i
        BY <1>10
    <2>1. (After \o Before)[i + (n - k)] = Before[i]
        BY <1>3, <1>5, <2>2, ConcatProperties
    <2> QED BY <1>6, <2>1
<1> QED BY <1>7, <1>8, <1>9 DEF After, Before

\* Where each fallback of stack k stands in BUNSHIN_STACKS.
LEMMA RotationElement ==
    ASSUME NEW k \in DOMAIN Order, NEW n \in Nat, n = Len(Order)
    PROVE  /\ Rotation(Order[k]) \in Seq(Stack)
           /\ Len(Rotation(Order[k])) = n - 1
           /\ \A i \in 1..(n - k) : Rotation(Order[k])[i] = Order[k + i]
           /\ \A i \in 1..(k - 1) : Rotation(Order[k])[i + (n - k)] = Order[i]
<1>1. k \in 1..n /\ Order \in Seq(Stack)
    BY OrderAssumption
<1>2. Rotation(Order[k]) = SubSeq(Order, k + 1, n) \o SubSeq(Order, 1, k - 1)
    BY PivotLemma, Zenon DEF Rotation
<1> DEFINE R == SubSeq(Order, k + 1, n) \o SubSeq(Order, 1, k - 1)
<1>3. /\ R \in Seq(Stack)
      /\ Len(R) = n - 1
      /\ \A i \in 1..(n - k) : R[i] = Order[k + i]
      /\ \A i \in 1..(k - 1) : R[i + (n - k)] = Order[i]
    BY <1>1, CutElement, Zenon
<1> QED BY <1>2, <1>3, Zenon

\* stacklist.Parse leaves no stack out but the stack itself.
LEMMA RotationComplete ==
    ASSUME NEW s \in Stack
    PROVE  Rotation(s) \in Seq(Stack) /\ Elements(Rotation(s)) = Stack \ {s}
<1>1. PICK k \in DOMAIN Order : s = Order[k]
    BY DEF Stack
<1>2. PICK n \in Nat : n = Len(Order)
    BY PivotLemma
<1>3. PICK R : R = Rotation(s)
    OBVIOUS
<1>4. k \in 1..n /\ DOMAIN Order = 1..n /\ Order \in Seq(Stack)
    BY <1>2, OrderAssumption
<1>5. /\ R \in Seq(Stack) /\ Len(R) = n - 1 /\ DOMAIN R = 1..(n - 1)
      /\ \A i \in 1..(n - k) : R[i] = Order[k + i]
      /\ \A i \in 1..(k - 1) : R[i + (n - k)] = Order[i]
    BY <1>1, <1>2, <1>3, <1>4, RotationElement
<1>6. ASSUME NEW i \in 1..n, i # k PROVE Order[i] # s /\ Order[i] \in Stack
    BY <1>1, <1>4, <1>6, OrderAssumption DEF Stack
<1>7. ASSUME NEW i \in DOMAIN R PROVE R[i] \in Stack \ {s}
    <2>1. CASE i <= n - k
        <3>1. k + i \in 1..n /\ k + i # k /\ i \in 1..(n - k)
            BY <1>4, <1>5, <2>1
        <3> QED BY <1>5, <1>6, <3>1
    <2>2. CASE i > n - k
        <3>1. PICK m \in 1..(k - 1) : i = m + (n - k)
            <4>1. i - (n - k) \in 1..(k - 1) /\ i = (i - (n - k)) + (n - k)
                BY <1>4, <1>5, <2>2
            <4> QED BY <4>1
        <3>2. m \in 1..n /\ m # k
            BY <1>4, <3>1
        <3> QED BY <1>5, <1>6, <3>1, <3>2
    <2> QED BY <1>4, <1>5, <2>1, <2>2
<1>8. ASSUME NEW t \in Stack \ {s} PROVE \E i \in DOMAIN R : R[i] = t
    <2>1. PICK j \in 1..n : t = Order[j]
        BY <1>4 DEF Stack
    <2>2. j # k
        BY <1>1, <2>1
    <2>3. CASE j > k
        <3>1. PICK m \in 1..(n - k) : j = k + m
            <4>1. j - k \in 1..(n - k) /\ j = k + (j - k)
                BY <1>4, <2>3
            <4> QED BY <4>1
        <3>2. m \in 1..(n - 1)
            BY <1>4, <3>1
        <3> QED BY <1>5, <2>1, <3>1, <3>2
    <2>4. CASE j < k
        <3>1. j \in 1..(k - 1) /\ j + (n - k) \in 1..(n - 1)
            BY <1>4, <2>4
        <3> QED BY <1>5, <2>1, <3>1
    <2> QED BY <1>4, <2>2, <2>3, <2>4
<1> QED BY <1>3, <1>5, <1>7, <1>8 DEF Elements

\* The reason the rotation exists (stacklist.go:24-26): where all stacks share
\* one list, no two of them fall back to the same stack first.
THEOREM FirstFallbackSpread ==
    \A s, t \in Stack : s # t => Rotation(s) # <<>> /\ Rotation(s)[1] # Rotation(t)[1]
<1> SUFFICES ASSUME NEW s \in Stack, NEW t \in Stack, s # t
    PROVE Rotation(s) # <<>> /\ Rotation(s)[1] # Rotation(t)[1]
    OBVIOUS
<1>1. PICK k \in DOMAIN Order : s = Order[k]
    BY DEF Stack
<1>2. PICK j \in DOMAIN Order : t = Order[j]
    BY DEF Stack
<1>3. PICK n \in Nat : n = Len(Order)
    BY PivotLemma
<1>4. DOMAIN Order = 1..n /\ k # j /\ n > 1
    BY <1>1, <1>2, <1>3, OrderAssumption
<1>5. ASSUME NEW i \in 1..n
      PROVE /\ Rotation(Order[i]) \in Seq(Stack) /\ Len(Rotation(Order[i])) > 0
            /\ i < n => Rotation(Order[i])[1] = Order[i + 1]
            /\ i = n => Rotation(Order[i])[1] = Order[1]
    <2>1. Rotation(Order[i]) \in Seq(Stack) /\ Len(Rotation(Order[i])) = n - 1
        BY <1>3, <1>4, RotationElement
    <2>2. CASE i < n
        <3>1. 1 \in 1..(n - i)
            BY <2>2
        <3>2. Rotation(Order[i])[1] = Order[i + 1]
            BY <1>3, <1>4, <3>1, RotationElement
        <3> QED BY <1>4, <2>1, <2>2, <3>2
    <2>3. CASE i = n
        <3>1. 1 \in 1..(i - 1) /\ 1 + (n - i) = 1
            BY <1>4, <2>3
        <3>2. Rotation(Order[i])[1 + (n - i)] = Order[1]
            BY <1>3, <1>4, <3>1, RotationElement
        <3>3. Rotation(Order[i])[1] = Order[1]
            BY <3>1, <3>2, Zenon
        <3> QED BY <1>4, <2>1, <2>3, <3>3
    <2> QED BY <1>4, <2>2, <2>3
<1>6. ASSUME NEW p \in 1..n, NEW q \in 1..n, Order[p] = Order[q] PROVE p = q
    BY <1>4, <1>6, OrderAssumption
<1>7. Rotation(s)[1] # Rotation(t)[1]
    <2>1. CASE k < n /\ j < n
        <3>1. k + 1 \in 1..n /\ j + 1 \in 1..n /\ k + 1 # j + 1
            BY <1>4, <2>1
        <3> QED BY <1>1, <1>2, <1>4, <1>5, <1>6, <2>1, <3>1
    <2>2. CASE k = n /\ j < n
        <3>1. 1 \in 1..n /\ j + 1 \in 1..n /\ j + 1 # 1
            BY <1>4, <2>2
        <3> QED BY <1>1, <1>2, <1>4, <1>5, <1>6, <2>2, <3>1
    <2>3. CASE k < n /\ j = n
        <3>1. 1 \in 1..n /\ k + 1 \in 1..n /\ k + 1 # 1
            BY <1>4, <2>3
        <3> QED BY <1>1, <1>2, <1>4, <1>5, <1>6, <2>3, <3>1
    <2> QED BY <1>4, <2>1, <2>2, <2>3
<1>8. Rotation(s) # <<>>
    BY <1>1, <1>4, <1>5
<1> QED BY <1>7, <1>8

-----------------------------------------------------------------------------
(* The hops of a request, which three operators change: Goto, Forward and  *)
(* HandBack.  Each leaves stack and fallback headers of a hop as they are. *)

\* What the headers of a hop say of the request.
Headers(hop) == <<hop.at, hop.fallback, hop.remaining>>

\* hs and the hops of c, as far as hs goes, have the same headers.
SameHeaders(hs, c) ==
    /\ hs \in Seq(Hop)
    /\ \A i \in DOMAIN hs : i \in DOMAIN hops[c] /\ Headers(hs[i]) = Headers(hops[c][i])

\* hs are the first n hops of c, the last of them in another step.
GoesTo(hs, c, n, step) ==
    /\ DOMAIN hs = 1..n
    /\ hs[n].step = step /\ hs[n].cookie = hops[c][n].cookie
    /\ \A i \in 1..n : i # n => hs[i] = hops[c][i]

\* Only the hops of request c change, to hs.
HopsBecome(c, hs) ==
    /\ hops'[c] = hs
    /\ \A d \in Client \ {c} : hops'[d] = hops[d]
    /\ hops' = [d \in Client |-> hops'[d]]

LEMMA ReplaceHop ==
    ASSUME NEW hs \in Seq(Hop), NEW i \in DOMAIN hs, NEW hop \in Hop
    PROVE  /\ [hs EXCEPT ![i] = hop] \in Seq(Hop)
           /\ Len([hs EXCEPT ![i] = hop]) = Len(hs)
           /\ DOMAIN [hs EXCEPT ![i] = hop] = DOMAIN hs
           /\ [hs EXCEPT ![i] = hop][i] = hop
           /\ \A j \in DOMAIN hs : j # i => [hs EXCEPT ![i] = hop][j] = hs[j]
OBVIOUS

LEMMA TopIsHop ==
    ASSUME TypeOK, NEW c \in Client, Running(c)
    PROVE  /\ Depth(c) \in DOMAIN hops[c] /\ Depth(c) \in Nat \ {0}
           /\ Top(c) = hops[c][Depth(c)] /\ Top(c) \in Hop
           /\ hops[c] \in Seq(Hop)
BY DEF TypeOK, Running, Depth, Top

\* The last hop in another step.
LEMMA StepHop ==
    ASSUME NEW hop \in Hop, NEW step \in Steps
    PROVE  /\ [hop EXCEPT !.step = step] \in Hop
           /\ [hop EXCEPT !.step = step].step = step
           /\ [hop EXCEPT !.step = step].cookie = hop.cookie
           /\ Headers([hop EXCEPT !.step = step]) = Headers(hop)
BY DEF Hop, Headers

LEMMA GotoHops ==
    ASSUME TypeOK, NEW c \in Client, Running(c), NEW step \in Steps, Goto(c, step)
    PROVE  \E hs : /\ HopsBecome(c, hs) /\ SameHeaders(hs, c) /\ hs # <<>>
                  /\ GoesTo(hs, c, Depth(c), step)
<1> DEFINE hs == [hops[c] EXCEPT ![Depth(c)] = [Top(c) EXCEPT !.step = step]]
<1>1. hops \in [Client -> Seq(Hop)] /\ hops[c] \in Seq(Hop) /\ Depth(c) \in DOMAIN hops[c]
    BY TopIsHop DEF TypeOK
<1>2. hops' = [hops EXCEPT ![c] = hs]
    BY <1>1 DEF Goto, Top
<1>3. HopsBecome(c, hs)
    BY <1>1, <1>2 DEF HopsBecome
<1>4. [Top(c) EXCEPT !.step = step] \in Hop /\ Headers([Top(c) EXCEPT !.step = step]) = Headers(Top(c))
    BY TopIsHop, StepHop
<1>5. /\ hs \in Seq(Hop) /\ DOMAIN hs = DOMAIN hops[c]
      /\ hs[Depth(c)] = [Top(c) EXCEPT !.step = step]
      /\ \A j \in DOMAIN hops[c] : j # Depth(c) => hs[j] = hops[c][j]
    BY <1>1, <1>4, ReplaceHop
<1> HIDE DEF hs
<1>6. SameHeaders(hs, c)
    BY <1>1, <1>4, <1>5, TopIsHop DEF SameHeaders
<1>7. hs # <<>>
    BY <1>1, <1>5
<1>8. GoesTo(hs, c, Depth(c), step)
    BY <1>4, <1>5, TopIsHop DEF GoesTo, Depth
<1> QED BY <1>3, <1>6, <1>7, <1>8

LEMMA ForwardHops ==
    ASSUME TypeOK, NEW c \in Client, Running(c), NEW step \in Steps, NEW next \in Hop,
           Forward(c, step, next)
    PROVE  \E hs : /\ SameHeaders(hs, c) /\ HopsBecome(c, Append(hs, next))
                  /\ GoesTo(hs, c, Depth(c), step)
<1> DEFINE hs == [hops[c] EXCEPT ![Depth(c)] = [Top(c) EXCEPT !.step = step]]
<1>1. hops \in [Client -> Seq(Hop)] /\ hops[c] \in Seq(Hop) /\ Depth(c) \in DOMAIN hops[c]
    BY TopIsHop DEF TypeOK
<1>2. hops' = [hops EXCEPT ![c] = Append(hs, next)]
    BY <1>1 DEF Forward, Top
<1>3. HopsBecome(c, Append(hs, next))
    BY <1>1, <1>2 DEF HopsBecome
<1>4. [Top(c) EXCEPT !.step = step] \in Hop /\ Headers([Top(c) EXCEPT !.step = step]) = Headers(Top(c))
    BY TopIsHop, StepHop
<1>5. /\ hs \in Seq(Hop) /\ DOMAIN hs = DOMAIN hops[c]
      /\ hs[Depth(c)] = [Top(c) EXCEPT !.step = step]
      /\ \A j \in DOMAIN hops[c] : j # Depth(c) => hs[j] = hops[c][j]
    BY <1>1, <1>4, ReplaceHop
<1> HIDE DEF hs
<1>6. SameHeaders(hs, c)
    BY <1>1, <1>4, <1>5, TopIsHop DEF SameHeaders
<1>7. GoesTo(hs, c, Depth(c), step)
    BY <1>4, <1>5, TopIsHop DEF GoesTo, Depth
<1> QED BY <1>3, <1>6, <1>7

\* Where the hop below hop i goes on, if it gets response res.
BackStep(c, i, res) ==
    IF hops[c][i - 1].step = "waitOwner" /\ res.status \in {502, 504}
    THEN "resolveAgain" ELSE "respond"

LEMMA HandBackHops ==
    ASSUME TypeOK, NEW c \in Client, NEW i \in DOMAIN hops[c], i > 1,
           NEW res \in Response, HandBack(c, i, res)
    PROVE  /\ \E hs : /\ HopsBecome(c, hs) /\ SameHeaders(hs, c) /\ hs # <<>>
                     /\ GoesTo(hs, c, i - 1, BackStep(c, i, res))
           /\ resp' \in [Client -> Response]
           /\ \A d \in Client \ {c} : resp'[d] = resp[d]
           /\ resp'[c].status \in {0, res.status}
           /\ BackStep(c, i, res) = "respond" =>
                resp'[c] = [res EXCEPT !.told = @ \/ hops[c][i - 1].step = "waitReassigned"]
<1>1. /\ hops \in [Client -> Seq(Hop)] /\ hops[c] \in Seq(Hop)
      /\ i \in 1..Len(hops[c]) /\ i - 1 \in 1..Len(hops[c]) /\ Len(hops[c]) \in Nat
      /\ resp \in [Client -> Response]
    BY DEF TypeOK
<1>2. PICK below : below = hops[c][i - 1]
    OBVIOUS
<1>3. below \in Hop
    BY <1>1, <1>2
<1>4. PICK step \in Steps :
        /\ step = BackStep(c, i, res)
        /\ hops' = [hops EXCEPT ![c] = Append(SubSeq(@, 1, i - 2), [below EXCEPT !.step = step])]
        /\ resp' = [resp EXCEPT ![c] =
               IF step = "resolveAgain" THEN NoResponse
               ELSE [res EXCEPT !.told = @ \/ below.step = "waitReassigned"]]
    <2> DEFINE next == IF below.step = "waitOwner" /\ res.status \in {502, 504}
                       THEN "resolveAgain" ELSE "respond"
    <2>1. next \in Steps
        BY DEF Steps
    <2>2. /\ next = BackStep(c, i, res)
          /\ hops' = [hops EXCEPT ![c] = Append(SubSeq(@, 1, i - 2), [below EXCEPT !.step = next])]
          /\ resp' = [resp EXCEPT ![c] =
                 IF next = "resolveAgain" THEN NoResponse
                 ELSE [res EXCEPT !.told = @ \/ below.step = "waitReassigned"]]
        BY <1>2 DEF HandBack, BackStep
    <2> HIDE DEF next
    <2> QED BY <2>1, <2>2
<1> DEFINE front == SubSeq(hops[c], 1, i - 2)
           last == [below EXCEPT !.step = step]
           hs == Append(front, last)
<1>5. /\ last \in Hop /\ Headers(last) = Headers(below)
      /\ last.step = step /\ last.cookie = below.cookie
    BY <1>3, <1>4, StepHop
<1>6. front \in Seq(Hop) /\ Len(front) = i - 2 /\ \A j \in 1..(i - 2) : front[j] = hops[c][j]
    <2>1. \A j \in 1..(i - 2) : hops[c][j] \in Hop
        BY <1>1
    <2>2. 1 \in Int /\ i - 2 \in Int
        BY <1>1
    <2>3. /\ front \in Seq(Hop)
          /\ Len(front) = IF 1 <= i - 2 THEN (i - 2) - 1 + 1 ELSE 0
          /\ \A j \in 1..((i - 2) - 1 + 1) : front[j] = hops[c][1 + j - 1]
        BY <2>1, <2>2, SubSeqProperties
    <2>4. Len(front) = i - 2
        BY <1>1, <2>3
    <2>5. ASSUME NEW j \in 1..(i - 2) PROVE front[j] = hops[c][j]
        <3>1. j \in 1..((i - 2) - 1 + 1) /\ 1 + j - 1 = j
            BY <1>1
        <3>2. front[j] = hops[c][1 + j - 1]
            BY <2>3, <3>1
        <3> QED BY <3>1, <3>2, Zenon
    <2> QED BY <2>3, <2>4, <2>5
<1> HIDE DEF front, last
<1>7. HopsBecome(c, hs)
    BY <1>1, <1>4 DEF HopsBecome, front, last
<1>8. hs \in Seq(Hop) /\ Len(hs) = i - 1 /\ hs # <<>>
    BY <1>1, <1>5, <1>6
<1>9. ASSUME NEW j \in DOMAIN hs
      PROVE  j \in DOMAIN hops[c] /\ Headers(hs[j]) = Headers(hops[c][j])
    <2>1. CASE j = i - 1
        <3>1. hs[j] = last
            BY <1>1, <1>5, <1>6, <2>1
        <3> QED BY <1>1, <1>2, <1>5, <2>1, <3>1
    <2>2. CASE j # i - 1
        <3>1. j \in 1..(i - 2)
            BY <1>1, <1>8, <2>2
        <3>2. hs[j] = front[j]
            BY <1>5, <1>6, <3>1
        <3> QED BY <1>1, <1>6, <3>1, <3>2
    <2> QED BY <2>1, <2>2
<1>10. SameHeaders(hs, c)
    BY <1>8, <1>9 DEF SameHeaders
<1>11. GoesTo(hs, c, i - 1, step)
    <2>1. hs[i - 1] = last /\ DOMAIN hs = 1..(i - 1)
        BY <1>1, <1>5, <1>6
    <2>2. ASSUME NEW j \in 1..(i - 1), j # i - 1 PROVE hs[j] = hops[c][j]
        <3>1. j \in 1..(i - 2)
            BY <1>1, <2>2
        <3>2. hs[j] = front[j]
            BY <1>5, <1>6, <3>1
        <3> QED BY <1>6, <3>1, <3>2
    <2> QED BY <1>2, <1>5, <2>1, <2>2 DEF GoesTo
<1>12. /\ resp' \in [Client -> Response]
       /\ \A d \in Client \ {c} : resp'[d] = resp[d]
       /\ resp'[c].status \in {0, res.status}
    BY <1>1, <1>3, <1>4 DEF Response, NoResponse, Hop
<1>13. step = "respond" =>
         resp'[c] = [res EXCEPT !.told = @ \/ below.step = "waitReassigned"]
    BY <1>1, <1>4
<1> QED BY <1>2, <1>4, <1>7, <1>8, <1>10, <1>11, <1>12, <1>13

-----------------------------------------------------------------------------
(* Types.                                                                  *)

LEMMA BecomeType ==
    ASSUME TypeOK, NEW c \in Client, NEW hs \in Seq(Hop), HopsBecome(c, hs)
    PROVE  hops' \in [Client -> Seq(Hop)]
<1>1. \A d \in Client : hops'[d] \in Seq(Hop)
    BY DEF TypeOK, HopsBecome
<1> QED BY <1>1 DEF HopsBecome

LEMMA GotoType ==
    ASSUME TypeOK, NEW c \in Client, Running(c), NEW step \in Steps, Goto(c, step)
    PROVE  hops' \in [Client -> Seq(Hop)]
BY GotoHops, BecomeType DEF SameHeaders

LEMMA ForwardType ==
    ASSUME TypeOK, NEW c \in Client, Running(c), NEW step \in Steps, NEW next \in Hop,
           Forward(c, step, next)
    PROVE  hops' \in [Client -> Seq(Hop)]
<1>1. PICK hs : SameHeaders(hs, c) /\ HopsBecome(c, Append(hs, next))
    BY ForwardHops
<1>2. Append(hs, next) \in Seq(Hop)
    BY <1>1 DEF SameHeaders
<1> QED BY <1>1, <1>2, BecomeType

LEMMA UnsettleType == ASSUME NEW hit, Unsettle(hit) PROVE steady' \in [Client -> BOOLEAN]
<1>1. \A c \in Client : (steady[c] /\ c \notin hit) \in BOOLEAN
    BY Zenon
<1> QED BY <1>1, Zenon DEF Unsettle

\* A response with another status.
LEMMA StatusType ==
    ASSUME NEW res \in Response, NEW status \in Status
    PROVE  /\ [res EXCEPT !.status = status] \in Response
           /\ [res EXCEPT !.status = status].status = status
<1>1. status \in Status \cup {0}
    OBVIOUS
<1> QED BY <1>1 DEF Response

LEMMA FailedType ==
    ASSUME NEW status \in Status
    PROVE  Failed(status) \in Response /\ Failed(status).status = status
<1>1. NoResponse \in Response
    BY DEF NoResponse, Response
<1> QED BY <1>1, StatusType DEF Failed

\* A new hop of a request.
LEMMA HopType ==
    ASSUME NEW s \in Stack, NEW k \in BOOLEAN, NEW f \in BOOLEAN, NEW remaining \in Seq(Stack)
    PROVE  [at |-> s, step |-> "arrive", cookie |-> k, fallback |-> f, remaining |-> remaining] \in Hop
BY DEF Hop, Steps

\* The stacks offered to a request that finds an empty pool, split as nginx
\* does: the first is tried, the rest goes along.
LEMMA PoolType ==
    ASSUME TypeOK, NEW c \in Client, Running(c)
    PROVE  /\ Pool(c) \in Seq(Stack)
           /\ Pool(c) # <<>> =>
                /\ Head(Pool(c)) \in Stack /\ Tail(Pool(c)) \in Seq(Stack)
                /\ Elements(Pool(c)) = {Head(Pool(c))} \cup Elements(Tail(Pool(c)))
<1>1. Top(c) \in Hop
    BY TopIsHop
<1>2. Rotation(Top(c).at) \in Seq(Stack) /\ Top(c).remaining \in Seq(Stack)
    BY <1>1, RotationComplete DEF Hop
<1>3. Pool(c) \in Seq(Stack)
    BY <1>2 DEF Pool
<1>4. PICK p : p = Pool(c)
    OBVIOUS
<1>5. ASSUME p # <<>>
      PROVE  /\ Head(p) \in Stack /\ Tail(p) \in Seq(Stack)
             /\ Elements(p) = {Head(p)} \cup Elements(Tail(p))
    <2>1. /\ Head(p) \in Stack /\ Tail(p) \in Seq(Stack) /\ Len(p) \in Nat \ {0}
          /\ Len(Tail(p)) = Len(p) - 1
          /\ \A i \in 1..Len(Tail(p)) : Tail(p)[i] = p[i + 1]
          /\ Head(p) = p[1]
        BY <1>3, <1>4, <1>5, HeadTailProperties
    <2>2. ASSUME NEW t \in Elements(p) PROVE t \in {Head(p)} \cup Elements(Tail(p))
        <3>1. PICK i \in 1..Len(p) : t = p[i]
            BY <1>3, <1>4 DEF Elements
        <3>2. CASE i = 1
            BY <2>1, <3>1, <3>2
        <3>3. CASE i # 1
            <4>1. i - 1 \in 1..Len(Tail(p)) /\ (i - 1) + 1 = i
                BY <2>1, <3>3
            <4>2. Tail(p)[i - 1] = t
                BY <2>1, <3>1, <4>1
            <4>3. i - 1 \in DOMAIN Tail(p)
                BY <2>1, <4>1
            <4> QED BY <4>2, <4>3 DEF Elements
        <3> QED BY <3>2, <3>3
    <2>3. ASSUME NEW t \in {Head(p)} \cup Elements(Tail(p)) PROVE t \in Elements(p)
        <3>1. CASE t = Head(p)
            BY <1>3, <1>4, <2>1, <3>1 DEF Elements
        <3>2. CASE t \in Elements(Tail(p))
            <4>1. PICK i \in 1..Len(Tail(p)) : t = Tail(p)[i]
                BY <2>1, <3>2 DEF Elements
            <4>2. i + 1 \in 1..Len(p) /\ t = p[i + 1]
                BY <2>1, <4>1
            <4> QED BY <1>3, <1>4, <4>2 DEF Elements
        <3> QED BY <2>3, <3>1, <3>2
    <2> QED BY <2>1, <2>2, <2>3
<1> QED BY <1>3, <1>4, <1>5

LEMMA TypeInit == Init => TypeOK
<1> SUFFICES ASSUME Init PROVE TypeOK
    OBVIOUS
<1>1. NoResponse \in Response /\ <<>> \in Seq(Hop)
    BY DEF NoResponse, Response
<1> QED BY <1>1 DEF Init, TypeOK

\* A request is sent, and reaches the first hop.
LEMMA SendType == ASSUME TypeOK, NEW c \in Client, NEW s \in Stack, Send(c, s) PROVE TypeOK'
<1> DEFINE first == [at |-> s, step |-> "arrive", cookie |-> home[c] # None,
                     fallback |-> FALSE, remaining |-> <<>>]
<1>1. first \in Hop
    <2>1. (home[c] # None) \in BOOLEAN /\ FALSE \in BOOLEAN /\ <<>> \in Seq(Stack)
        BY Zenon, EmptySeq
    <2> QED BY <2>1, HopType
<1> HIDE DEF first
<1>2. <<first>> \in Seq(Hop)
    BY <1>1
<1>3. hops' = [hops EXCEPT ![c] = <<first>>]
    BY Zenon DEF Send, first
<1>4. hops' \in [Client -> Seq(Hop)]
    BY <1>2, <1>3 DEF TypeOK
<1>5. NoResponse \in Response
    BY DEF NoResponse, Response
<1>6. result' \in [Client -> Response] /\ asked' \in [Client -> SUBSET Stack]
    BY <1>5 DEF TypeOK, Send
<1>7. steady' \in [Client -> BOOLEAN]
    <2>1. (home[c] \in Stack /\ alive[c] /\ up[home[c]]) \in BOOLEAN
        BY Zenon
    <2>2. steady' = [steady EXCEPT ![c] = (home[c] \in Stack /\ alive[c] /\ up[home[c]])]
        BY Zenon DEF Send
    <2>3. steady \in [Client -> BOOLEAN]
        BY DEF TypeOK
    <2> QED BY <2>1, <2>2, <2>3, Zenon
<1> QED BY <1>4, <1>6, <1>7, Zenon DEF TypeOK, Send, environment, session

LEMMA ArriveType == ASSUME TypeOK, NEW c \in Client, Arrive(c) PROVE TypeOK'
<1>1. Running(c) /\ UNCHANGED <<environment, session, result, history>>
    BY DEF Arrive
<1>2. hops' \in [Client -> Seq(Hop)] /\ resp' \in [Client -> Response]
    <2>1. CASE Goto(c, "resolve") /\ UNCHANGED resp
        BY <1>1, <2>1, GotoType DEF TypeOK, Steps
    <2>2. CASE Respond(c, Failed(500))
        <3>1. hops' \in [Client -> Seq(Hop)]
            BY <1>1, <2>2, GotoType DEF Respond, Steps
        <3>2. Failed(500) \in Response
            BY FailedType DEF Status
        <3> QED BY <2>2, <3>1, <3>2 DEF TypeOK, Respond
    <2>3. CASE /\ home[c] \in Stack /\ UNCHANGED resp
               /\ Forward(c, "waitOwner", [at |-> home[c], step |-> "arrive", cookie |-> TRUE,
                                           fallback |-> FALSE, remaining |-> <<>>])
        <3>1. [at |-> home[c], step |-> "arrive", cookie |-> TRUE,
               fallback |-> FALSE, remaining |-> <<>>] \in Hop
            BY <2>3, EmptySeq, HopType
        <3>2. "waitOwner" \in Steps
            BY DEF Steps
        <3>3. hops' \in [Client -> Seq(Hop)]
            BY <1>1, <2>3, <3>1, <3>2, ForwardType
        <3> QED BY <2>3, <3>3 DEF TypeOK
    <2> QED BY <2>1, <2>2, <2>3, Zenon DEF Arrive
<1> QED BY <1>1, <1>2 DEF TypeOK, environment, session, history

LEMMA ResolveType ==
    ASSUME TypeOK, NEW c \in Client, ResolveFound(c) \/ ResolveNew(c) PROVE TypeOK'
<1>1. CASE ResolveFound(c)
    <2>1. Top(c).at \in Stack
        BY <1>1, TopIsHop DEF ResolveFound, Hop
    <2>2. hops' \in [Client -> Seq(Hop)]
        BY <1>1, GotoType DEF ResolveFound, Steps
    <2>3. resp' \in [Client -> Response]
        BY <1>1, <2>1 DEF ResolveFound, Found, TypeOK, Response, NoResponse
    <2> QED BY <1>1, <2>2, <2>3 DEF TypeOK, ResolveFound, environment, session, history
<1>2. CASE ResolveNew(c)
    <2>1. Top(c).at \in Stack /\ Running(c)
        BY <1>2, TopIsHop DEF ResolveNew, Hop
    <2>2. PICK step \in Steps : Goto(c, step)
        BY <1>2 DEF ResolveNew, Steps
    <2>3. hops' \in [Client -> Seq(Hop)]
        BY <2>1, <2>2, GotoType
    <2>4. PICK told \in BOOLEAN :
            resp' = [resp EXCEPT ![c] = [NoResponse EXCEPT !.cookie = Top(c).at, !.told = told,
                                                          !.by = Top(c).at]]
        BY <1>2, Zenon DEF ResolveNew
    <2>5. [NoResponse EXCEPT !.cookie = Top(c).at, !.told = told, !.by = Top(c).at] \in Response
        BY <2>1 DEF NoResponse, Response
    <2>6. resp' \in [Client -> Response]
        BY <2>4, <2>5 DEF TypeOK
    <2>7. idle' \in [Stack -> 0..MaxIdle]
        <3>1. /\ idle \in [Stack -> 0..MaxIdle] /\ idle[Top(c).at] > 0
              /\ idle' = [idle EXCEPT ![Top(c).at] = @ - 1]
            BY <1>2 DEF TypeOK, ResolveNew
        <3>2. MaxIdle \in Nat /\ idle[Top(c).at] - 1 \in 0..MaxIdle
            BY <2>1, <3>1, ConstantsAssumption
        <3> QED BY <2>1, <3>1, <3>2
    <2> QED BY <1>2, <2>3, <2>6, <2>7 DEF TypeOK, ResolveNew, session, history
<1> QED BY <1>1, <1>2

LEMMA EmptyType == ASSUME TypeOK, NEW c \in Client, ResolveEmpty(c) PROVE TypeOK'
<1>1. Running(c) /\ Top(c) \in Hop /\ Top(c).at \in Stack
    BY TopIsHop DEF ResolveEmpty, Hop
<1>2. asked' \in [Client -> SUBSET Stack]
    BY <1>1 DEF TypeOK, ResolveEmpty
<1>3. hops' \in [Client -> Seq(Hop)] /\ resp' \in [Client -> Response]
    <2>1. CASE Respond(c, Failed(503))
        <3>1. hops' \in [Client -> Seq(Hop)]
            BY <1>1, <2>1, GotoType DEF Respond, Steps
        <3>2. Failed(503) \in Response
            BY FailedType DEF Status
        <3> QED BY <2>1, <3>1, <3>2 DEF TypeOK, Respond
    <2>2. CASE Pool(c) # <<>> /\ UNCHANGED resp
        <3> DEFINE next == [at |-> Head(Pool(c)), step |-> "arrive",
                            cookie |-> Top(c).cookie /\ Top(c).step = "resolve",
                            fallback |-> TRUE, remaining |-> Tail(Pool(c))]
        <3>1. next \in Hop
            <4>1. (Top(c).cookie /\ Top(c).step = "resolve") \in BOOLEAN
                BY Zenon
            <4> QED BY <1>1, <2>2, <4>1, PoolType, HopType
        <3> HIDE DEF next
        <3>2. PICK step \in Steps : Forward(c, step, next)
            <4>1. Forward(c, IF Top(c).step = "resolve" THEN "waitFallback" ELSE "waitReassigned", next)
                BY <2>2, Zenon DEF ResolveEmpty, next
            <4> QED BY <4>1 DEF Steps
        <3>3. hops' \in [Client -> Seq(Hop)]
            BY <1>1, <3>1, <3>2, ForwardType
        <3> QED BY <2>2, <3>3 DEF TypeOK
    <2> QED BY <2>1, <2>2, Zenon DEF ResolveEmpty
<1> QED BY <1>2, <1>3 DEF TypeOK, ResolveEmpty, environment, session

\* The broker fails, or the runner or nginx answers, with the headers or without.
LEMMA RunnerAnswer ==
    ASSUME NEW c \in Client, NEW status \in Status,
           ResolveFails(c, status) \/ ProxyRunner(c, status)
    PROVE  Respond(c, Failed(status)) \/ Respond(c, [resp[c] EXCEPT !.status = status])
<1>1. CASE ResolveFails(c, status)
    BY <1>1, Zenon DEF ResolveFails
<1>2. CASE ProxyRunner(c, status)
    <2>1. Respond(c, IF status = 200 \/ Top(c).step = "proxyAgain"
                     THEN [resp[c] EXCEPT !.status = status] ELSE Failed(status))
        BY <1>2, Zenon DEF ProxyRunner
    <2>2. CASE status = 200 \/ Top(c).step = "proxyAgain"
        BY <2>1, <2>2, Zenon
    <2>3. CASE ~(status = 200 \/ Top(c).step = "proxyAgain")
        BY <2>1, <2>3, Zenon
    <2> QED BY <2>2, <2>3
<1> QED BY <1>1, <1>2

LEMMA FailType ==
    ASSUME TypeOK, NEW c \in Client, NEW status \in Status,
           ResolveFails(c, status) \/ ProxyRunner(c, status)
    PROVE  TypeOK'
<1>1. Running(c)
    BY DEF ResolveFails, ProxyRunner
<1>2. PICK res \in Response : Respond(c, res)
    <2>1. Failed(status) \in Response /\ [resp[c] EXCEPT !.status = status] \in Response
        BY FailedType, StatusType DEF TypeOK
    <2>2. Respond(c, Failed(status)) \/ Respond(c, [resp[c] EXCEPT !.status = status])
        BY RunnerAnswer
    <2> QED BY <2>1, <2>2, Zenon
<1>3. hops' \in [Client -> Seq(Hop)]
    BY <1>1, <1>2, GotoType DEF Respond, Steps
<1>4. resp' \in [Client -> Response]
    BY <1>2 DEF TypeOK, Respond
<1>5. PICK hit : Unsettle(hit)
    <2>1. CASE ResolveFails(c, status)
        BY <2>1, Zenon DEF ResolveFails
    <2>2. CASE ProxyRunner(c, status)
        <3>1. Unsettle(IF status = 200 THEN {} ELSE {c})
            BY <2>2, Zenon DEF ProxyRunner
        <3>2. WITNESS IF status = 200 THEN {} ELSE {c}
        <3> QED BY <3>1
    <2> QED BY <2>1, <2>2
<1>6. steady' \in [Client -> BOOLEAN]
    BY <1>5, UnsettleType
<1>7. UNCHANGED <<environment, session, result, asked>>
    BY DEF ResolveFails, ProxyRunner
<1> QED BY <1>3, <1>4, <1>6, <1>7 DEF TypeOK, environment, session

\* The response travels back: to the browser, or a hop down.
LEMMA BackType ==
    ASSUME TypeOK, NEW c \in Client,
           Answer(c) \/ Return(c) \/ \E i \in DOMAIN hops[c] : HopLost(c, i)
    PROVE  TypeOK'
<1>1. /\ NoResponse \in Response /\ <<>> \in Seq(Hop) /\ resp[c] \in Response
      /\ hops[c] \in Seq(Hop)
    BY DEF TypeOK, NoResponse, Response
<1>2. CASE Answer(c)
    <2>1. hops' \in [Client -> Seq(Hop)] /\ resp' \in [Client -> Response]
          /\ result' \in [Client -> Response]
        BY <1>1, <1>2 DEF TypeOK, Answer
    <2>2. home' \in [Client -> Stack \cup {None, Retired}] /\ alive' \in [Client -> BOOLEAN]
        BY <1>1, <1>2 DEF TypeOK, Answer, Response, session
    <2> QED BY <1>2, <2>1, <2>2 DEF TypeOK, Answer, environment, history
<1>3. ASSUME NEW i \in DOMAIN hops[c], i > 1, NEW res \in Response, HandBack(c, i, res)
      PROVE  hops' \in [Client -> Seq(Hop)] /\ resp' \in [Client -> Response]
    BY <1>3, HandBackHops, BecomeType DEF SameHeaders
<1>4. CASE Return(c)
    <2>1. Depth(c) \in DOMAIN hops[c] /\ Depth(c) > 1
        BY <1>1, <1>4 DEF Return, Depth
    <2>2. HandBack(c, Depth(c), resp[c])
        BY <1>4 DEF Return
    <2>3. hops' \in [Client -> Seq(Hop)] /\ resp' \in [Client -> Response]
        BY <1>1, <1>3, <2>1, <2>2
    <2> QED BY <1>4, <2>3 DEF TypeOK, Return, environment, session, history
<1>5. ASSUME NEW i \in DOMAIN hops[c], HopLost(c, i) PROVE TypeOK'
    <2>1. UNCHANGED <<environment, session, history>>
        BY <1>5 DEF HopLost
    <2>2. CASE i > 1 /\ UNCHANGED result /\ \E status \in {502, 504} : HandBack(c, i, Failed(status))
        <3>1. PICK status \in {502, 504} : HandBack(c, i, Failed(status))
            BY <2>2
        <3>2. Failed(status) \in Response
            BY FailedType DEF Status
        <3>3. hops' \in [Client -> Seq(Hop)] /\ resp' \in [Client -> Response]
            BY <1>3, <2>2, <3>1, <3>2
        <3> QED BY <2>1, <2>2, <3>3 DEF TypeOK, environment, session, history
    <2>3. CASE /\ hops' = [hops EXCEPT ![c] = <<>>]
               /\ resp' = [resp EXCEPT ![c] = NoResponse]
               /\ result' = [result EXCEPT ![c] = Failed(502)]
        <3>1. Failed(502) \in Response
            BY FailedType DEF Status
        <3> QED BY <1>1, <2>1, <2>3, <3>1 DEF TypeOK, environment, session, history
    <2> QED BY <1>5, <2>2, <2>3 DEF HopLost
<1> QED BY <1>2, <1>4, <1>5

\* What happens to the stacks.
LEMMA EnvironmentType ==
    ASSUME TypeOK,
           \/ \E s \in Stack : Break(s) \/ Recover(s) \/ AddRunner(s)
           \/ \E c \in Client : LoseSession(c)
    PROVE  TypeOK'
<1>1. ASSUME NEW s \in Stack, Break(s) PROVE TypeOK'
    <2>1. steady' \in [Client -> BOOLEAN]
        <3>1. PICK hit : Unsettle(hit)
            BY <1>1, Zenon DEF Break
        <3> QED BY <3>1, UnsettleType
    <2>2. up' \in [Stack -> BOOLEAN]
        BY <1>1 DEF TypeOK, Break
    <2> QED BY <1>1, <2>1, <2>2 DEF TypeOK, Break, session
<1>2. ASSUME NEW s \in Stack, Recover(s) \/ AddRunner(s) PROVE TypeOK'
    <2>1. up' \in [Stack -> BOOLEAN]
        BY <1>2 DEF TypeOK, Recover, AddRunner
    <2>2. idle' \in [Stack -> 0..MaxIdle]
        <3>1. CASE Recover(s)
            BY <3>1 DEF TypeOK, Recover
        <3>2. CASE AddRunner(s)
            <4>1. /\ idle \in [Stack -> 0..MaxIdle] /\ idle[s] < MaxIdle
                  /\ idle' = [idle EXCEPT ![s] = @ + 1]
                BY <3>2 DEF TypeOK, AddRunner
            <4>2. MaxIdle \in Nat /\ idle[s] + 1 \in 0..MaxIdle
                BY <4>1, ConstantsAssumption
            <4> QED BY <4>1, <4>2
        <3> QED BY <1>2, <3>1, <3>2
    <2> QED BY <1>2, <2>1, <2>2 DEF TypeOK, Recover, AddRunner, session, history
<1>3. ASSUME NEW c \in Client, LoseSession(c) PROVE TypeOK'
    <2>1. steady' \in [Client -> BOOLEAN]
        BY <1>3, UnsettleType DEF LoseSession
    <2>2. alive' \in [Client -> BOOLEAN]
        BY <1>3 DEF TypeOK, LoseSession
    <2> QED BY <1>3, <2>1, <2>2 DEF TypeOK, LoseSession, environment
<1> QED BY <1>1, <1>2, <1>3

LEMMA TypeStep == TypeOK /\ [Next]_vars => TypeOK'
<1> SUFFICES ASSUME TypeOK, [Next]_vars PROVE TypeOK'
    OBVIOUS
<1>1. CASE UNCHANGED vars
    BY <1>1 DEF TypeOK, vars, environment, session, history
<1>2. CASE Next
    BY <1>2, EnvironmentType, SendType, ArriveType, ResolveType, EmptyType, FailType, BackType
       DEF Next, RequestStep
<1> QED BY <1>1, <1>2

\* The variables of the routing have their types, for any list of stacks,
\* number of browsers and kinds of failure.
THEOREM TypeCorrect == Spec => []TypeOK
BY TypeInit, TypeStep, PTL DEF Spec

-----------------------------------------------------------------------------
(* A refusal of the whole system.  What makes it inductive is Covered: of  *)
(* every fallback hop, the stacks that are neither asked nor this one are  *)
(* still to try.                                                           *)

Covered(c) ==
    \A i \in DOMAIN hops[c] :
        hops[c][i].fallback =>
            Stack \subseteq asked[c] \cup {hops[c][i].at} \cup Elements(hops[c][i].remaining)

Settled(c) ==
    /\ Covered(c)
    /\ resp[c].status = 503 => asked[c] = Stack
    /\ hops[c] = <<>> => resp[c] = NoResponse
    /\ result[c].status = 503 => asked[c] = Stack

RefusalInv == TypeOK /\ \A c \in Client : Settled(c)

\* A step of one request leaves the others as they are.
OnlyRequest(c) ==
    \A d \in Client \ {c} : /\ hops'[d] = hops[d] /\ resp'[d] = resp[d]
                            /\ result'[d] = result[d] /\ asked'[d] = asked[d]

LEMMA OneRequest ==
    ASSUME \A d \in Client : Settled(d), NEW c \in Client, OnlyRequest(c), Settled(c)'
    PROVE  \A d \in Client : Settled(d)'
<1> SUFFICES ASSUME NEW d \in Client, d # c PROVE Settled(d)'
    OBVIOUS
<1>1. hops'[d] = hops[d] /\ resp'[d] = resp[d] /\ result'[d] = result[d] /\ asked'[d] = asked[d]
    BY DEF OnlyRequest
<1> QED BY <1>1 DEF Settled, Covered

\* Hops that keep their headers stay covered.
LEMMA HopsKept ==
    ASSUME TypeOK, NEW c \in Client, Covered(c), NEW hs, SameHeaders(hs, c), HopsBecome(c, hs),
           asked[c] \subseteq asked'[c]
    PROVE  Covered(c)'
<1> SUFFICES ASSUME NEW i \in DOMAIN hs, hs[i].fallback
             PROVE  Stack \subseteq asked'[c] \cup {hs[i].at} \cup Elements(hs[i].remaining)
    BY DEF Covered, HopsBecome
<1>1. i \in DOMAIN hops[c] /\ Headers(hs[i]) = Headers(hops[c][i])
    BY DEF SameHeaders
<1>2. /\ hs[i].at = hops[c][i].at /\ hs[i].fallback = hops[c][i].fallback
      /\ hs[i].remaining = hops[c][i].remaining
    BY <1>1 DEF Headers
<1>3. Stack \subseteq asked[c] \cup {hops[c][i].at} \cup Elements(hops[c][i].remaining)
    BY <1>1, <1>2 DEF Covered
<1> QED BY <1>2, <1>3

\* So do hops that forward to a covered one.
LEMMA HopsGrown ==
    ASSUME TypeOK, NEW c \in Client, Covered(c), NEW hs, SameHeaders(hs, c),
           NEW next \in Hop, HopsBecome(c, Append(hs, next)), asked[c] \subseteq asked'[c],
           next.fallback => Stack \subseteq asked'[c] \cup {next.at} \cup Elements(next.remaining)
    PROVE  Covered(c)'
<1>1. hs \in Seq(Hop) /\ Len(hs) \in Nat
    BY DEF SameHeaders
<1>2. ASSUME NEW i \in DOMAIN Append(hs, next), Append(hs, next)[i].fallback
      PROVE  Stack \subseteq asked'[c] \cup {Append(hs, next)[i].at}
                              \cup Elements(Append(hs, next)[i].remaining)
    <2>1. CASE i = Len(hs) + 1
        <3>1. Append(hs, next)[i] = next
            BY <1>1, <2>1
        <3> QED BY <1>2, <3>1
    <2>2. CASE i # Len(hs) + 1
        <3>1. i \in DOMAIN hs /\ Append(hs, next)[i] = hs[i]
            BY <1>1, <1>2, <2>2
        <3>2. i \in DOMAIN hops[c] /\ Headers(hs[i]) = Headers(hops[c][i])
            BY <3>1 DEF SameHeaders
        <3>3. /\ hs[i].at = hops[c][i].at /\ hs[i].fallback = hops[c][i].fallback
              /\ hs[i].remaining = hops[c][i].remaining
            BY <3>2 DEF Headers
        <3>4. Stack \subseteq asked[c] \cup {hops[c][i].at} \cup Elements(hops[c][i].remaining)
            BY <1>2, <3>1, <3>2, <3>3 DEF Covered
        <3> QED BY <3>1, <3>3, <3>4
    <2> QED BY <2>1, <2>2
<1>3. hops'[c] = Append(hs, next)
    BY DEF HopsBecome
<1> QED BY <1>2, <1>3 DEF Covered

\* A step within the last hop that gives no refusal.
LEMMA GotoSettled ==
    ASSUME RefusalInv, NEW c \in Client, Running(c), NEW step \in Steps, Goto(c, step),
           UNCHANGED <<result, asked>>,
           \/ UNCHANGED resp
           \/ \E res \in Response : res.status # 503 /\ resp' = [resp EXCEPT ![c] = res]
    PROVE  \A d \in Client : Settled(d)'
<1>1. TypeOK /\ Settled(c) /\ \A d \in Client : Settled(d)
    BY DEF RefusalInv
<1>2. PICK hs : HopsBecome(c, hs) /\ SameHeaders(hs, c) /\ hs # <<>>
    BY <1>1, GotoHops
<1>3. Covered(c)'
    BY <1>1, <1>2, HopsKept DEF Settled
<1>4. hops'[c] # <<>>
    BY <1>2 DEF HopsBecome
<1>5. resp'[c] = resp[c] \/ resp'[c].status # 503
    BY <1>1 DEF TypeOK
<1>6. Settled(c)'
    BY <1>1, <1>3, <1>4, <1>5 DEF Settled
<1>7. OnlyRequest(c)
    BY <1>1, <1>2 DEF OnlyRequest, HopsBecome, TypeOK
<1> QED BY <1>1, <1>6, <1>7, OneRequest

LEMMA SendSettled ==
    ASSUME RefusalInv, NEW c \in Client, NEW s \in Stack, Send(c, s)
    PROVE  \A d \in Client : Settled(d)'
<1>1. TypeOK /\ Settled(c) /\ \A d \in Client : Settled(d)
    BY DEF RefusalInv
<1> DEFINE first == [at |-> s, step |-> "arrive", cookie |-> home[c] # None,
                     fallback |-> FALSE, remaining |-> <<>>]
<1>2. hops' = [hops EXCEPT ![c] = <<first>>] /\ ~first.fallback
    BY Zenon DEF Send
<1> HIDE DEF first
<1>3. /\ hops'[c] = <<first>> /\ hops'[c] # <<>>
      /\ \A d \in Client \ {c} : hops'[d] = hops[d]
    BY <1>1, <1>2 DEF TypeOK
<1>4. Covered(c)'
    BY <1>2, <1>3 DEF Covered
<1>5. /\ resp' = resp /\ resp[c] = NoResponse /\ result'[c] = NoResponse
      /\ \A d \in Client \ {c} : result'[d] = result[d] /\ asked'[d] = asked[d]
    BY <1>1 DEF Send, Running, Settled, TypeOK
<1>6. NoResponse.status # 503
    BY DEF NoResponse
<1>7. Settled(c)'
    BY <1>3, <1>4, <1>5, <1>6 DEF Settled
<1>8. OnlyRequest(c)
    BY <1>3, <1>5 DEF OnlyRequest
<1> QED BY <1>1, <1>7, <1>8, OneRequest

LEMMA ArriveSettled ==
    ASSUME RefusalInv, NEW c \in Client, Arrive(c)
    PROVE  \A d \in Client : Settled(d)'
<1>1. /\ TypeOK /\ Settled(c) /\ \A d \in Client : Settled(d)
      /\ Running(c) /\ UNCHANGED <<result, asked>>
    BY DEF RefusalInv, Arrive, history
<1>2. CASE Goto(c, "resolve") /\ UNCHANGED resp
    BY <1>1, <1>2, GotoSettled DEF Steps
<1>3. CASE Respond(c, Failed(500))
    <2>1. Failed(500) \in Response /\ Failed(500).status # 503
        BY FailedType DEF Status
    <2> QED BY <1>1, <1>3, <2>1, GotoSettled DEF Respond, Steps
<1>4. CASE /\ home[c] \in Stack /\ UNCHANGED resp
           /\ Forward(c, "waitOwner", [at |-> home[c], step |-> "arrive", cookie |-> TRUE,
                                       fallback |-> FALSE, remaining |-> <<>>])
    <2> DEFINE next == [at |-> home[c], step |-> "arrive", cookie |-> TRUE,
                        fallback |-> FALSE, remaining |-> <<>>]
    <2>1. next \in Hop /\ ~next.fallback /\ "waitOwner" \in Steps
        BY <1>4, EmptySeq, HopType DEF Steps
    <2>2. Forward(c, "waitOwner", next)
        BY <1>4
    <2> HIDE DEF next
    <2>3. PICK hs : SameHeaders(hs, c) /\ HopsBecome(c, Append(hs, next))
        BY <1>1, <2>1, <2>2, ForwardHops
    <2>4. Covered(c)'
        BY <1>1, <2>1, <2>3, HopsGrown DEF Settled
    <2>5. hops'[c] # <<>>
        BY <2>3 DEF HopsBecome, SameHeaders
    <2>6. Settled(c)'
        BY <1>1, <1>4, <2>4, <2>5 DEF Settled
    <2>7. OnlyRequest(c)
        BY <1>1, <1>4, <2>3 DEF OnlyRequest, HopsBecome
    <2> QED BY <1>1, <2>6, <2>7, OneRequest
<1> QED BY <1>2, <1>3, <1>4, Zenon DEF Arrive

LEMMA ResolveSettled ==
    ASSUME RefusalInv, NEW c \in Client, ResolveFound(c) \/ ResolveNew(c)
    PROVE  \A d \in Client : Settled(d)'
<1>1. TypeOK /\ Running(c) /\ UNCHANGED <<result, asked>>
    BY DEF RefusalInv, ResolveFound, ResolveNew, history
<1>2. PICK step \in Steps : Goto(c, step)
    BY DEF ResolveFound, ResolveNew, Steps
<1>3. Top(c).at \in Stack
    BY <1>1, TopIsHop DEF Hop
<1>4. \E res \in Response : res.status # 503 /\ resp' = [resp EXCEPT ![c] = res]
    <2>1. CASE ResolveFound(c)
        <3>1. home[c] \in Stack
            BY <1>3, <2>1 DEF ResolveFound, Found
        <3>2. [NoResponse EXCEPT !.by = home[c]] \in Response
            BY <3>1 DEF NoResponse, Response
        <3>3. [NoResponse EXCEPT !.by = home[c]].status # 503
            BY DEF NoResponse
        <3> QED BY <2>1, <3>2, <3>3 DEF ResolveFound
    <2>2. CASE ResolveNew(c)
        <3>1. PICK told \in BOOLEAN :
                resp' = [resp EXCEPT ![c] = [NoResponse EXCEPT !.cookie = Top(c).at, !.told = told,
                                                              !.by = Top(c).at]]
            BY <2>2, Zenon DEF ResolveNew
        <3> DEFINE res == [NoResponse EXCEPT !.cookie = Top(c).at, !.told = told, !.by = Top(c).at]
        <3>2. res \in Response
            BY <1>3 DEF NoResponse, Response
        <3>3. res.status # 503
            BY DEF NoResponse
        <3> QED BY <3>1, <3>2, <3>3
    <2> QED BY <2>1, <2>2
<1> QED BY <1>1, <1>2, <1>4, GotoSettled

\* The stacks of the pool of a request, this one and those asked are all.
LEMMA PoolCovers ==
    ASSUME RefusalInv, NEW c \in Client, Running(c)
    PROVE  Stack \subseteq asked[c] \cup {Top(c).at} \cup Elements(Pool(c))
<1>1. TypeOK /\ Covered(c)
    BY DEF RefusalInv, Settled
<1>2. Depth(c) \in DOMAIN hops[c] /\ Top(c) = hops[c][Depth(c)] /\ Top(c).at \in Stack
    BY <1>1, TopIsHop DEF Hop
<1>3. CASE Top(c).fallback /\ Top(c).step = "resolve"
    <2>1. Pool(c) = Top(c).remaining
        BY <1>3 DEF Pool
    <2> QED BY <1>1, <1>2, <1>3, <2>1 DEF Covered
<1>4. CASE ~(Top(c).fallback /\ Top(c).step = "resolve")
    <2>1. Pool(c) = Rotation(Top(c).at)
        BY <1>4 DEF Pool
    <2>2. Elements(Pool(c)) = Stack \ {Top(c).at}
        BY <1>2, <2>1, RotationComplete
    <2> QED BY <2>2
<1> QED BY <1>3, <1>4

LEMMA EmptySettled ==
    ASSUME RefusalInv, NEW c \in Client, ResolveEmpty(c)
    PROVE  \A d \in Client : Settled(d)'
<1>1. /\ TypeOK /\ Settled(c) /\ \A d \in Client : Settled(d) /\ Running(c)
      /\ UNCHANGED result
    BY DEF RefusalInv, ResolveEmpty
<1>2. Top(c) \in Hop /\ Top(c).at \in Stack
    BY <1>1, TopIsHop DEF Hop
<1>3. /\ asked'[c] = asked[c] \cup {Top(c).at} /\ asked[c] \subseteq Stack
      /\ \A d \in Client \ {c} : asked'[d] = asked[d]
    BY <1>1 DEF TypeOK, ResolveEmpty
<1>4. Stack \subseteq asked'[c] \cup Elements(Pool(c))
    BY <1>1, <1>3, PoolCovers
<1>5. asked[c] = Stack => asked'[c] = Stack
    BY <1>2, <1>3
<1>6. CASE Pool(c) = <<>> /\ Respond(c, Failed(503))
    <2>1. Elements(Pool(c)) = {}
        BY <1>6 DEF Elements
    <2>2. asked'[c] = Stack
        BY <1>2, <1>3, <1>4, <2>1
    <2>3. PICK hs : HopsBecome(c, hs) /\ SameHeaders(hs, c) /\ hs # <<>>
        BY <1>1, <1>6, GotoHops DEF Respond, Steps
    <2>4. Covered(c)'
        BY <1>1, <1>3, <2>3, HopsKept DEF Settled
    <2>5. Settled(c)'
        BY <2>2, <2>3, <2>4 DEF Settled, HopsBecome
    <2>6. OnlyRequest(c)
        BY <1>1, <1>3, <1>6, <2>3 DEF OnlyRequest, HopsBecome, Respond, TypeOK
    <2> QED BY <1>1, <2>5, <2>6, OneRequest
<1>7. CASE /\ Pool(c) # <<>> /\ UNCHANGED resp
           /\ Forward(c, IF Top(c).step = "resolve" THEN "waitFallback" ELSE "waitReassigned",
                      [at |-> Head(Pool(c)), step |-> "arrive",
                       cookie |-> Top(c).cookie /\ Top(c).step = "resolve",
                       fallback |-> TRUE, remaining |-> Tail(Pool(c))])
    <2> DEFINE next == [at |-> Head(Pool(c)), step |-> "arrive",
                        cookie |-> Top(c).cookie /\ Top(c).step = "resolve",
                        fallback |-> TRUE, remaining |-> Tail(Pool(c))]
    <2>1. next \in Hop
        <3>1. (Top(c).cookie /\ Top(c).step = "resolve") \in BOOLEAN
            BY Zenon
        <3> QED BY <1>1, <1>7, <3>1, PoolType, HopType
    <2>2. next.at = Head(Pool(c)) /\ next.remaining = Tail(Pool(c))
        BY Zenon
    <2>3. PICK step \in Steps : Forward(c, step, next)
        <3>1. Forward(c, IF Top(c).step = "resolve" THEN "waitFallback" ELSE "waitReassigned", next)
            BY <1>7, Zenon
        <3> HIDE DEF next
        <3> QED BY <3>1 DEF Steps
    <2> HIDE DEF next
    <2>4. PICK hs : SameHeaders(hs, c) /\ HopsBecome(c, Append(hs, next))
        BY <1>1, <2>1, <2>3, ForwardHops
    <2>5. Stack \subseteq asked'[c] \cup {next.at} \cup Elements(next.remaining)
        <3>1. Elements(Pool(c)) = {Head(Pool(c))} \cup Elements(Tail(Pool(c)))
            BY <1>1, <1>7, PoolType
        <3> QED BY <1>4, <2>2, <3>1
    <2>6. Covered(c)'
        BY <1>1, <1>3, <2>1, <2>4, <2>5, HopsGrown DEF Settled
    <2>7. hops'[c] # <<>>
        BY <2>4 DEF HopsBecome, SameHeaders
    <2>8. Settled(c)'
        BY <1>1, <1>5, <1>7, <2>6, <2>7 DEF Settled
    <2>9. OnlyRequest(c)
        BY <1>1, <1>3, <1>7, <2>4 DEF OnlyRequest, HopsBecome
    <2> QED BY <1>1, <2>8, <2>9, OneRequest
<1> QED BY <1>6, <1>7, Zenon DEF ResolveEmpty

LEMMA FailSettled ==
    ASSUME RefusalInv, NEW c \in Client, NEW status \in Status,
           ResolveFails(c, status) \/ ProxyRunner(c, status)
    PROVE  \A d \in Client : Settled(d)'
<1>1. TypeOK /\ Running(c) /\ UNCHANGED <<result, asked>>
    BY DEF RefusalInv, ResolveFails, ProxyRunner
<1>2. status # 503
    BY DEF ResolveFails, ProxyRunner
<1>3. PICK res \in Response : res.status = status /\ Respond(c, res)
    <2>1. /\ Failed(status) \in Response /\ [resp[c] EXCEPT !.status = status] \in Response
          /\ Failed(status).status = status /\ [resp[c] EXCEPT !.status = status].status = status
        BY <1>1, FailedType, StatusType DEF TypeOK
    <2>2. Respond(c, Failed(status)) \/ Respond(c, [resp[c] EXCEPT !.status = status])
        BY RunnerAnswer
    <2> QED BY <2>1, <2>2, Zenon
<1> QED BY <1>1, <1>2, <1>3, GotoSettled DEF Respond, Steps

\* A response, or the loss of the hop above, reaches a hop of the request.
LEMMA HandBackSettled ==
    ASSUME RefusalInv, NEW c \in Client, NEW i \in DOMAIN hops[c], i > 1, NEW res \in Response,
           HandBack(c, i, res), res.status = 503 => asked[c] = Stack,
           UNCHANGED <<result, asked>>
    PROVE  \A d \in Client : Settled(d)'
<1>1. TypeOK /\ Settled(c) /\ \A d \in Client : Settled(d)
    BY DEF RefusalInv
<1>2. /\ \E hs : HopsBecome(c, hs) /\ SameHeaders(hs, c) /\ hs # <<>>
      /\ \A d \in Client \ {c} : resp'[d] = resp[d]
      /\ resp'[c].status \in {0, res.status}
    BY <1>1, HandBackHops
<1>3. PICK hs : HopsBecome(c, hs) /\ SameHeaders(hs, c) /\ hs # <<>>
    BY <1>2
<1>4. Covered(c)'
    BY <1>1, <1>3, HopsKept DEF Settled
<1>5. Settled(c)'
    BY <1>1, <1>2, <1>3, <1>4 DEF Settled, HopsBecome
<1>6. OnlyRequest(c)
    BY <1>2, <1>3 DEF OnlyRequest, HopsBecome
<1> QED BY <1>1, <1>5, <1>6, OneRequest

\* The request ends, with a result.
LEMMA EndSettled ==
    ASSUME RefusalInv, NEW c \in Client, NEW res \in Response,
           hops' = [hops EXCEPT ![c] = <<>>], resp' = [resp EXCEPT ![c] = NoResponse],
           result' = [result EXCEPT ![c] = res], UNCHANGED asked,
           res.status = 503 => asked[c] = Stack
    PROVE  \A d \in Client : Settled(d)'
<1>1. TypeOK /\ \A d \in Client : Settled(d)
    BY DEF RefusalInv
<1>2. hops'[c] = <<>> /\ resp'[c] = NoResponse /\ result'[c] = res
    BY <1>1 DEF TypeOK
<1>3. Settled(c)'
    BY <1>2 DEF Settled, Covered, NoResponse
<1>4. OnlyRequest(c)
    BY <1>1 DEF OnlyRequest, TypeOK
<1> QED BY <1>1, <1>3, <1>4, OneRequest

LEMMA BackSettled ==
    ASSUME RefusalInv, NEW c \in Client,
           Answer(c) \/ Return(c) \/ \E i \in DOMAIN hops[c] : HopLost(c, i)
    PROVE  \A d \in Client : Settled(d)'
<1>1. /\ TypeOK /\ Settled(c) /\ resp[c] \in Response /\ hops[c] \in Seq(Hop)
      /\ resp[c].status = 503 => asked[c] = Stack
    BY DEF RefusalInv, Settled, TypeOK
<1>2. CASE Answer(c)
    BY <1>1, <1>2, EndSettled DEF Answer, history
<1>3. CASE Return(c)
    <2>1. Depth(c) \in DOMAIN hops[c] /\ Depth(c) > 1
        BY <1>1, <1>3 DEF Return, Depth
    <2>2. HandBack(c, Depth(c), resp[c]) /\ UNCHANGED <<result, asked>>
        BY <1>3 DEF Return, history
    <2> QED BY <1>1, <2>1, <2>2, HandBackSettled
<1>4. ASSUME NEW i \in DOMAIN hops[c], HopLost(c, i) PROVE \A d \in Client : Settled(d)'
    <2>1. UNCHANGED asked
        BY <1>4 DEF HopLost, history
    <2>2. CASE i > 1 /\ UNCHANGED result /\ \E status \in {502, 504} : HandBack(c, i, Failed(status))
        <3>1. PICK status \in {502, 504} : HandBack(c, i, Failed(status))
            BY <2>2
        <3>2. Failed(status) \in Response /\ Failed(status).status # 503
            BY FailedType DEF Status
        <3> QED BY <2>1, <2>2, <3>1, <3>2, HandBackSettled
    <2>3. CASE /\ hops' = [hops EXCEPT ![c] = <<>>]
               /\ resp' = [resp EXCEPT ![c] = NoResponse]
               /\ result' = [result EXCEPT ![c] = Failed(502)]
        <3>1. Failed(502) \in Response /\ Failed(502).status # 503
            BY FailedType DEF Status
        <3> QED BY <2>1, <2>3, <3>1, EndSettled
    <2> QED BY <1>4, <2>2, <2>3 DEF HopLost
<1> QED BY <1>2, <1>3, <1>4

LEMMA RefusalInit == Init => RefusalInv
<1> SUFFICES ASSUME Init PROVE RefusalInv
    OBVIOUS
<1>1. TypeOK
    BY TypeInit
<1>2. ASSUME NEW c \in Client PROVE Settled(c)
    <2>1. hops[c] = <<>> /\ resp[c] = NoResponse /\ result[c] = NoResponse
        BY DEF Init
    <2> QED BY <2>1 DEF Settled, Covered, NoResponse
<1> QED BY <1>1, <1>2 DEF RefusalInv

LEMMA RefusalStep == RefusalInv /\ [Next]_vars => RefusalInv'
<1> SUFFICES ASSUME RefusalInv, [Next]_vars PROVE RefusalInv'
    OBVIOUS
<1>1. TypeOK'
    BY TypeStep DEF RefusalInv
<1>2. CASE UNCHANGED <<hops, resp, result, asked>>
    <2>1. \A c \in Client : Settled(c)'
        BY <1>2 DEF RefusalInv, Settled, Covered
    <2> QED BY <1>1, <2>1 DEF RefusalInv
<1>3. ASSUME NEW c \in Client, NEW s \in Stack, Send(c, s) PROVE RefusalInv'
    BY <1>1, <1>3, SendSettled DEF RefusalInv
<1>4. ASSUME NEW c \in Client, RequestStep(c) PROVE \A d \in Client : Settled(d)'
    BY <1>4, ArriveSettled, ResolveSettled, EmptySettled, FailSettled, BackSettled DEF RequestStep
<1>5. CASE UNCHANGED vars
    BY <1>2, <1>5 DEF vars, history
<1>6. ASSUME NEW s \in Stack, Break(s) \/ Recover(s) \/ AddRunner(s) PROVE RefusalInv'
    BY <1>2, <1>6 DEF Break, Recover, AddRunner, history
<1>7. ASSUME NEW c \in Client, LoseSession(c) PROVE RefusalInv'
    BY <1>2, <1>7 DEF LoseSession
<1>8. ASSUME NEW c \in Client, RequestStep(c) PROVE RefusalInv'
    BY <1>1, <1>4, <1>8 DEF RefusalInv
<1> QED BY <1>3, <1>5, <1>6, <1>7, <1>8 DEF Next

\* The browser is told that there is no runner only after the broker of every
\* stack said so to this request: for any list of stacks, and whatever fails,
\* no way through the rotation, the owner and the reassignment skips one.
THEOREM RefusedByAll == Spec => []UnavailableMeansAllAsked
<1>1. RefusalInv => UnavailableMeansAllAsked
    BY DEF RefusalInv, Settled, UnavailableMeansAllAsked
<1> QED BY <1>1, RefusalInit, RefusalStep, PTL DEF Spec
=============================================================================
