--------------------------- MODULE Client_proofs ---------------------------
(***************************************************************************)
(* Theorems about Client, for any workspaces, number of files, keys and    *)
(* faults, checked by TLAPS: as long as no save of the preferences was     *)
(* refused on a connection, client and hub agree on what was asked, what   *)
(* is answered and which session is open; files that are dropped are       *)
(* answered; what the web terminal saved is kept; and the picker shows the *)
(* workspaces as the user arranged them.                                   *)
(***************************************************************************)
EXTENDS Client, FiniteSetTheorems, SequenceTheorems, TLAPS

-----------------------------------------------------------------------------
(* The two directions of the connection are queues                         *)

\* A sequence, of whatever it holds: frames have no common type.
IsQueue(q) == q \in Seq(ToSet(q))

\* A sequence is one of what it holds.
LEMMA Retyped ==
  ASSUME NEW S, NEW q \in Seq(S)
  PROVE  IsQueue(q)
<1> DEFINE T == ToSet(q)
<1>1. /\ Len(q) \in Nat /\ DOMAIN q = 1 .. Len(q)
      /\ \A i \in 1 .. Len(q) : q[i] \in T
  BY DEF ToSet
<1>2. q \in Seq(T)
  <2> HIDE DEF T
  <2>1. q \in [1 .. Len(q) -> S]
    OBVIOUS
  <2>2. q \in [1 .. Len(q) -> T]
    BY <1>1, <2>1
  <2> QED BY <1>1, <2>2
<1> QED BY <1>2 DEF IsQueue

\* What is in a queue when a frame is appended.
LEMMA QueueAppend ==
  ASSUME NEW q, IsQueue(q), NEW f
  PROVE  /\ IsQueue(Append(q, f)) /\ Len(q) \in Nat /\ DOMAIN q = 1 .. Len(q)
         /\ DOMAIN Append(q, f) = 1 .. Len(q) + 1
         /\ \A i \in 1 .. Len(q) : Append(q, f)[i] = q[i]
         /\ Append(q, f)[Len(q) + 1] = f
         /\ q \o <<f>> = Append(q, f)
<1> DEFINE S == ToSet(q) \cup {f}
<1>1. q \in Seq(S) /\ f \in S
  BY DEF IsQueue
<1>2. /\ Append(q, f) \in Seq(S) /\ Len(q) \in Nat /\ DOMAIN q = 1 .. Len(q)
      /\ DOMAIN Append(q, f) = 1 .. Len(q) + 1
      /\ \A i \in 1 .. Len(q) : Append(q, f)[i] = q[i]
      /\ Append(q, f)[Len(q) + 1] = f
      /\ q \o <<f>> = Append(q, f)
  <2> HIDE DEF S
  <2> QED BY <1>1
<1> QED BY <1>2, Retyped

\* What is left of a queue when its first frame is taken.
LEMMA QueueTail ==
  ASSUME NEW q, IsQueue(q), q # <<>>
  PROVE  /\ IsQueue(Tail(q)) /\ Len(q) \in Nat \ {0} /\ DOMAIN q = 1 .. Len(q)
         /\ DOMAIN Tail(q) = 1 .. Len(q) - 1
         /\ \A i \in 1 .. Len(q) - 1 : Tail(q)[i] = q[i + 1]
         /\ Head(q) = q[1]
<1> DEFINE S == ToSet(q)
<1>1. /\ Tail(q) \in Seq(S) /\ Len(q) \in Nat \ {0} /\ DOMAIN q = 1 .. Len(q)
      /\ Len(Tail(q)) = Len(q) - 1 /\ DOMAIN Tail(q) = 1 .. Len(q) - 1
      /\ \A i \in 1 .. Len(q) - 1 : Tail(q)[i] = q[i + 1]
      /\ Head(q) = q[1]
  <2>1. q \in Seq(S)
    BY DEF IsQueue
  <2> HIDE DEF S
  <2> QED BY <2>1
<1> QED BY <1>1, Retyped

\* What a queue holds when it is cut off.
LEMMA QueuePrefix ==
  ASSUME NEW q, IsQueue(q), NEW n \in 0 .. Len(q)
  PROVE  /\ IsQueue(SubSeq(q, 1, n)) /\ DOMAIN q = 1 .. Len(q) /\ Len(q) \in Nat
         /\ DOMAIN SubSeq(q, 1, n) = 1 .. n
         /\ \A i \in 1 .. n : SubSeq(q, 1, n)[i] = q[i]
<1> DEFINE p == SubSeq(q, 1, n)
           S == ToSet(q)
<1>1. /\ p \in Seq(S) /\ Len(q) \in Nat /\ DOMAIN q = 1 .. Len(q)
      /\ Len(p) = n /\ DOMAIN p = 1 .. n
      /\ \A i \in 1 .. n : p[i] = q[i]
  <2>1. q \in Seq(S)
    BY DEF IsQueue
  <2> HIDE DEF S
  <2> QED BY <2>1
<1> QED BY <1>1, Retyped

\* The short ones.
LEMMA QueueStart ==
  /\ IsQueue(<<>>) /\ DOMAIN <<>> = {}
  /\ \A f : IsQueue(<<f>>) /\ DOMAIN <<f>> = {1} /\ <<f>>[1] = f
<1>1. IsQueue(<<>>) /\ DOMAIN <<>> = {}
  BY DEF IsQueue
<1>2. ASSUME NEW f PROVE IsQueue(<<f>>) /\ DOMAIN <<f>> = {1} /\ <<f>>[1] = f
  <2>1. DOMAIN <<f>> = {1} /\ <<f>>[1] = f
    OBVIOUS
  <2>2. <<f>> \in Seq({f}) /\ ToSet(<<f>>) = {f}
    BY <2>1 DEF ToSet
  <2> QED BY <2>1, <2>2 DEF IsQueue
<1> QED BY <1>1, <1>2

-----------------------------------------------------------------------------
(* Which frames a queue holds                                              *)

Only(q, T) == \A i \in DOMAIN q : q[i].t \in T

\* One frame of T among frames of R
Single(q, T, R) ==
  \E i \in DOMAIN q : /\ q[i].t \in T
                      /\ \A j \in DOMAIN q \ {i} : q[j].t \in R

LEMMA OnlyAppend ==
  ASSUME NEW q, IsQueue(q), NEW T, Only(q, T), NEW f, f.t \in T
  PROVE  Only(Append(q, f), T)
BY QueueAppend DEF Only

LEMMA OnlyTail ==
  ASSUME NEW q, IsQueue(q), NEW T, Only(q, T), q # <<>>
  PROVE  Head(q).t \in T /\ Only(Tail(q), T)
<1>1. /\ Len(q) \in Nat \ {0} /\ DOMAIN q = 1 .. Len(q)
      /\ DOMAIN Tail(q) = 1 .. Len(q) - 1
      /\ \A i \in 1 .. Len(q) - 1 : Tail(q)[i] = q[i + 1]
      /\ Head(q) = q[1]
  BY QueueTail
<1> QED BY <1>1 DEF Only

LEMMA SingleAdded ==
  ASSUME NEW q, IsQueue(q), NEW T, NEW R, Only(q, R), NEW f, f.t \in T
  PROVE  Single(Append(q, f), T, R)
<1>1. /\ Len(q) \in Nat /\ DOMAIN q = 1 .. Len(q)
      /\ DOMAIN Append(q, f) = 1 .. Len(q) + 1
      /\ \A i \in 1 .. Len(q) : Append(q, f)[i] = q[i]
      /\ Append(q, f)[Len(q) + 1] = f
  BY QueueAppend
<1>2. \A j \in DOMAIN Append(q, f) \ {Len(q) + 1} : Append(q, f)[j].t \in R
  BY <1>1 DEF Only
<1> QED BY <1>1, <1>2 DEF Single

LEMMA SingleAppend ==
  ASSUME NEW q, IsQueue(q), NEW T, NEW R, Single(q, T, R), NEW f, f.t \in R
  PROVE  Single(Append(q, f), T, R)
<1>1. /\ Len(q) \in Nat /\ DOMAIN q = 1 .. Len(q)
      /\ DOMAIN Append(q, f) = 1 .. Len(q) + 1
      /\ \A i \in 1 .. Len(q) : Append(q, f)[i] = q[i]
      /\ Append(q, f)[Len(q) + 1] = f
  BY QueueAppend
<1>2. PICK i \in DOMAIN q : /\ q[i].t \in T
                            /\ \A j \in DOMAIN q \ {i} : q[j].t \in R
  BY DEF Single
<1>3. i \in DOMAIN Append(q, f) /\ Append(q, f)[i].t \in T
  BY <1>1, <1>2
<1>4. \A j \in DOMAIN Append(q, f) \ {i} : Append(q, f)[j].t \in R
  BY <1>1, <1>2
<1> QED BY <1>3, <1>4 DEF Single

LEMMA SingleTaken ==
  ASSUME NEW q, IsQueue(q), NEW T, NEW R, Single(q, T, R), q # <<>>,
         Head(q).t \notin R
  PROVE  Head(q).t \in T /\ Only(Tail(q), R)
<1>1. /\ Len(q) \in Nat \ {0} /\ DOMAIN q = 1 .. Len(q)
      /\ DOMAIN Tail(q) = 1 .. Len(q) - 1
      /\ \A i \in 1 .. Len(q) - 1 : Tail(q)[i] = q[i + 1]
      /\ Head(q) = q[1]
  BY QueueTail
<1>2. PICK i \in DOMAIN q : /\ q[i].t \in T
                            /\ \A j \in DOMAIN q \ {i} : q[j].t \in R
  BY DEF Single
<1>3. i = 1
  BY <1>1, <1>2
<1>4. \A j \in 1 .. Len(q) - 1 : Tail(q)[j].t \in R
  BY <1>1, <1>2, <1>3
<1> QED BY <1>1, <1>2, <1>3, <1>4 DEF Only

LEMMA SingleTail ==
  ASSUME NEW q, IsQueue(q), NEW T, NEW R, Single(q, T, R), q # <<>>,
         Head(q).t \notin T
  PROVE  Head(q).t \in R /\ Single(Tail(q), T, R)
<1>1. /\ Len(q) \in Nat \ {0} /\ DOMAIN q = 1 .. Len(q)
      /\ DOMAIN Tail(q) = 1 .. Len(q) - 1
      /\ \A i \in 1 .. Len(q) - 1 : Tail(q)[i] = q[i + 1]
      /\ Head(q) = q[1]
  BY QueueTail
<1>2. PICK i \in DOMAIN q : /\ q[i].t \in T
                            /\ \A j \in DOMAIN q \ {i} : q[j].t \in R
  BY DEF Single
<1>3. i # 1 /\ i \in 1 .. Len(q) /\ q[1].t \in R
  BY <1>1, <1>2
<1>4. i - 1 \in DOMAIN Tail(q) /\ Tail(q)[i - 1].t \in T
  BY <1>1, <1>2, <1>3
<1>5. \A j \in DOMAIN Tail(q) \ {i - 1} : Tail(q)[j].t \in R
  BY <1>1, <1>2, <1>3
<1> QED BY <1>1, <1>3, <1>4, <1>5 DEF Single

-----------------------------------------------------------------------------
(* What is on its way, as long as no save was refused                      *)

Silent == {"save", "upload", "input"}   \* nothing answers these
Noise == {"result"}             \* answers an upload of this session or another
Calls == {"prefs", "list", "agents", "create", "delete", "reset"}

\* u is on its way to the hub, x to the client.  Nothing that a question or
\* an answer to one:
Quiet(u, x) == Only(u, Silent) /\ Only(x, Noise)

\* one question of kind k, or the answer to it:
Asked(u, x, k) ==
  \/ Single(u, {k}, Silent) /\ Only(x, Noise)
  \/ Only(u, Silent) /\ Single(x, {k, "error"}, Noise)

\* an open session s on the workspace w, and possibly its end, with which it
\* is none:
Ended(x) == \E i \in DOMAIN x : x[i].t = "closed"
InSession(u, x, s, w) ==
  /\ Only(u, Silent) /\ Only(x, {"result", "error", "opened", "closed"})
  /\ \A i, j \in DOMAIN x : i < j =>
       /\ x[j].t = "opened" => x[i].t = "result"
       /\ x[i].t = "closed" => x[j].t = "result"
  /\ Ended(x) => s = None
  /\ ~ Ended(x) => s = w

\* the question for a session on w, its refusal, or the session:
Opening(u, x, s, w) ==
  \/ /\ Single(u, {"open"}, Silent) /\ Only(x, Noise) /\ s = None
     /\ \A i \in DOMAIN u : u[i].t = "open" => u[i].ws = w
  \/ Only(u, Silent) /\ Single(x, {"error"}, Noise) /\ s = None
  \/ InSession(u, x, s, w) /\ \E i \in DOMAIN x : x[i].t = "opened"

\* the question for the list, and its answer, are of the number a.
Numbered(q, a) == \A i \in DOMAIN q : q[i].t = "list" => q[i].q = a

\* What is on its way while the client is at p with the goal g.
Fits(p, g, a, u, x, s) ==
  /\ p \in {"picker", "confirm", "message", "agent", "hold"} =>
       Quiet(u, x) /\ s = None
  /\ p \in {"prefs", "list"} => Asked(u, x, p) /\ s = None
  /\ p = "list" => Numbered(u, a) /\ Numbered(x, a)
  /\ p \in {"agents", "recheck"} => Asked(u, x, "agents") /\ s = None
  /\ p = "request" => Asked(u, x, g.op) /\ s = None
  /\ p = "open" => Opening(u, x, s, g.ws)
  /\ p = "relay" => /\ InSession(u, x, s, g.ws)
                    /\ \A i \in DOMAIN x : x[i].t # "opened"

\* On a dead wire an answer for the list is still the one that was asked for.
Left(p, a, x) ==
  p # "over" =>
    \A i \in DOMAIN x : x[i].t = "list" =>
      /\ p = "list" /\ x[i].q = a
      /\ \A j \in DOMAIN x \ {i} : x[j].t = "result"

StepInv ==
  /\ IsQueue(up) /\ IsQueue(text) /\ asked \in Nat /\ refused \in Nat
  /\ ~ alive => up = <<>> /\ session = None
  /\ place \in MenuPlaces \cup {"open", "hold", "relay", "redial", "over"}
  /\ place = "redial" => ~ alive
  /\ place \in {"confirm", "request"} =>
       goal.op \in {"create", "delete", "reset"}
  /\ place \in {"agents", "agent"} /\ goal # NoGoal => goal.op = "create"
  /\ refused = 0 =>
       /\ alive => Fits(place, goal, asked, up, text, session)
       /\ ~ alive => Left(place, asked, text)
       /\ ListCurrent

LEMMA Kinds ==
  /\ Silent = {"save", "upload", "input"} /\ Noise = {"result"}
  /\ Calls = {"prefs", "list", "agents", "create", "delete", "reset"}
BY DEF Silent, Noise, Calls

\* A question and its answer, step by step.
LEMMA AskedSteps ==
  ASSUME NEW u, IsQueue(u), NEW x, IsQueue(x), NEW k \in Calls, Asked(u, x, k)
  PROVE  /\ u # <<>> /\ Head(u).t \in Silent => Asked(Tail(u), x, k)
         /\ \A f : f.t \in Silent => Asked(Append(u, f), x, k)
         /\ \A f : f.t = "result" => Asked(u, Append(x, f), k)
         /\ x # <<>> /\ Head(x).t \notin {k, "error"} => Asked(u, Tail(x), k)
         /\ x # <<>> /\ Head(x).t \in {k, "error"} => Quiet(u, Tail(x))
         /\ \A f : u # <<>> /\ Head(u).t \notin Silent /\ f.t \in {Head(u).t, "error"} =>
              Head(u).t = k /\ Asked(Tail(u), Append(x, f), k)
<1> USE Kinds
<1>1. CASE Single(u, {k}, Silent) /\ Only(x, Noise)
  <2>1. u # <<>> /\ Head(u).t \in Silent => Single(Tail(u), {k}, Silent)
    BY <1>1, SingleTail
  <2>2. \A f : f.t \in Silent => Single(Append(u, f), {k}, Silent)
    BY <1>1, SingleAppend
  <2>3. \A f : f.t = "result" => Only(Append(x, f), Noise)
    BY <1>1, OnlyAppend
  <2>4. x # <<>> => Head(x).t = "result" /\ Only(Tail(x), Noise)
    BY <1>1, OnlyTail
  <2>5. u # <<>> /\ Head(u).t \notin Silent => Head(u).t = k /\ Only(Tail(u), Silent)
    BY <1>1, SingleTaken
  <2>6. \A f : f.t \in {k, "error"} => Single(Append(x, f), {k, "error"}, Noise)
    BY <1>1, SingleAdded
  <2>7. x # <<>> => Head(x).t \notin {k, "error"}
    BY <2>4
  <2>8. \A f : u # <<>> /\ Head(u).t \notin Silent /\ f.t \in {Head(u).t, "error"} =>
          Head(u).t = k /\ Asked(Tail(u), Append(x, f), k)
    <3>1. SUFFICES ASSUME NEW f, u # <<>>, Head(u).t \notin Silent,
                          f.t \in {Head(u).t, "error"}
                   PROVE  Head(u).t = k /\ Asked(Tail(u), Append(x, f), k)
      OBVIOUS
    <3>2. Head(u).t = k /\ Only(Tail(u), Silent)
      BY <2>5, <3>1
    <3>3. f.t \in {k, "error"}
      BY <3>1, <3>2
    <3>4. Single(Append(x, f), {k, "error"}, Noise)
      BY <2>6, <3>3
    <3> QED BY <3>2, <3>4 DEF Asked
  <2> QED BY <1>1, <2>1, <2>2, <2>3, <2>4, <2>7, <2>8 DEF Asked
<1>2. CASE Only(u, Silent) /\ Single(x, {k, "error"}, Noise)
  <2>1. u # <<>> => Head(u).t \in Silent /\ Only(Tail(u), Silent)
    BY <1>2, OnlyTail
  <2>2. \A f : f.t \in Silent => Only(Append(u, f), Silent)
    BY <1>2, OnlyAppend
  <2>3. \A f : f.t = "result" => Single(Append(x, f), {k, "error"}, Noise)
    BY <1>2, SingleAppend
  <2>4. x # <<>> /\ Head(x).t \notin {k, "error"} =>
          Single(Tail(x), {k, "error"}, Noise)
    BY <1>2, SingleTail
  <2>5. x # <<>> /\ Head(x).t \in {k, "error"} => Only(Tail(x), Noise)
    BY <1>2, SingleTaken
  <2> QED BY <1>2, <2>1, <2>2, <2>3, <2>4, <2>5 DEF Asked, Quiet
<1> QED BY <1>1, <1>2 DEF Asked

LEMMA QuietSteps ==
  ASSUME NEW u, IsQueue(u), NEW x, IsQueue(x), Quiet(u, x)
  PROVE  /\ u # <<>> => Head(u).t \in Silent /\ Quiet(Tail(u), x)
         /\ \A f : f.t \in Silent => Quiet(Append(u, f), x)
         /\ \A f : f.t = "result" => Quiet(u, Append(x, f))
         /\ x # <<>> => Head(x).t = "result" /\ Quiet(u, Tail(x))
         /\ \A f, k : f.t = k => Asked(Append(u, f), x, k)
<1> USE Kinds
<1>1. \A f, k : f.t = k => Single(Append(u, f), {k}, Silent)
  BY SingleAdded DEF Quiet
<1>2. /\ u # <<>> => Head(u).t \in Silent /\ Only(Tail(u), Silent)
      /\ x # <<>> => Head(x).t = "result" /\ Only(Tail(x), Noise)
  BY OnlyTail DEF Quiet
<1>3. /\ \A f : f.t \in Silent => Only(Append(u, f), Silent)
      /\ \A f : f.t = "result" => Only(Append(x, f), Noise)
  BY OnlyAppend DEF Quiet
<1> QED BY <1>1, <1>2, <1>3 DEF Quiet, Asked

\* An open session: its frames, and its end.
LEMMA SessionSteps ==
  ASSUME NEW u, IsQueue(u), NEW x, IsQueue(x), NEW s, NEW w, InSession(u, x, s, w)
  PROVE  /\ u # <<>> => Head(u).t \in Silent /\ InSession(Tail(u), x, s, w)
         /\ \A f : f.t \in Silent => InSession(Append(u, f), x, s, w)
         /\ \A f : f.t = "result" => InSession(u, Append(x, f), s, w)
         /\ \A f : s # None /\ f.t = "error" => InSession(u, Append(x, f), s, w)
         /\ \A f : s # None /\ f.t = "closed" => InSession(u, Append(x, f), None, w)
         /\ x # <<>> /\ Head(x).t # "closed" => InSession(u, Tail(x), s, w)
         /\ x # <<>> /\ Head(x).t = "closed" => Quiet(u, Tail(x)) /\ s = None
<1> USE Kinds
<1>1. /\ u # <<>> => Head(u).t \in Silent /\ Only(Tail(u), Silent)
      /\ \A f : f.t \in Silent => Only(Append(u, f), Silent)
  BY OnlyTail, OnlyAppend DEF InSession
<1>2. ASSUME NEW f, f.t \in {"result", "error", "closed"},
             f.t = "result" \/ ~ Ended(x)
      PROVE  /\ Only(Append(x, f), {"result", "error", "opened", "closed"})
             /\ \A i, j \in DOMAIN Append(x, f) : i < j =>
                  /\ Append(x, f)[j].t = "opened" => Append(x, f)[i].t = "result"
                  /\ Append(x, f)[i].t = "closed" => Append(x, f)[j].t = "result"
             /\ Ended(Append(x, f)) <=> (Ended(x) \/ f.t = "closed")
  <2>1. /\ Len(x) \in Nat /\ DOMAIN x = 1 .. Len(x)
        /\ DOMAIN Append(x, f) = 1 .. Len(x) + 1
        /\ \A i \in 1 .. Len(x) : Append(x, f)[i] = x[i]
        /\ Append(x, f)[Len(x) + 1] = f
    BY QueueAppend
  <2>2. Only(Append(x, f), {"result", "error", "opened", "closed"})
    BY <1>2, OnlyAppend DEF InSession
  <2>3. ASSUME NEW i \in DOMAIN Append(x, f), NEW j \in DOMAIN Append(x, f), i < j
        PROVE  /\ Append(x, f)[j].t = "opened" => Append(x, f)[i].t = "result"
               /\ Append(x, f)[i].t = "closed" => Append(x, f)[j].t = "result"
    <3>1. i \in DOMAIN x /\ Append(x, f)[i] = x[i]
      BY <2>1, <2>3
    <3>2. CASE j \in DOMAIN x
      BY <2>1, <2>3, <3>1, <3>2 DEF InSession
    <3>3. CASE j \notin DOMAIN x
      BY <1>2, <2>1, <2>3, <3>1, <3>3 DEF Ended
    <3> QED BY <3>2, <3>3
  <2>4. Ended(Append(x, f)) <=> (Ended(x) \/ f.t = "closed")
    BY <2>1 DEF Ended
  <2> QED BY <2>2, <2>3, <2>4
<1>3. ASSUME x # <<>>
      PROVE  /\ Only(Tail(x), {"result", "error", "opened", "closed"})
             /\ \A i, j \in DOMAIN Tail(x) : i < j =>
                  /\ Tail(x)[j].t = "opened" => Tail(x)[i].t = "result"
                  /\ Tail(x)[i].t = "closed" => Tail(x)[j].t = "result"
             /\ Ended(x) <=> (Head(x).t = "closed" \/ Ended(Tail(x)))
             /\ Head(x).t = "closed" => Only(Tail(x), Noise)
  <2>1. /\ Len(x) \in Nat \ {0} /\ DOMAIN x = 1 .. Len(x)
        /\ DOMAIN Tail(x) = 1 .. Len(x) - 1
        /\ \A i \in 1 .. Len(x) - 1 : Tail(x)[i] = x[i + 1]
        /\ Head(x) = x[1]
    BY <1>3, QueueTail
  <2>2. Only(Tail(x), {"result", "error", "opened", "closed"})
    BY <1>3, OnlyTail DEF InSession
  <2>3. ASSUME NEW i \in DOMAIN Tail(x), NEW j \in DOMAIN Tail(x), i < j
        PROVE  /\ Tail(x)[j].t = "opened" => Tail(x)[i].t = "result"
               /\ Tail(x)[i].t = "closed" => Tail(x)[j].t = "result"
    <3>1. /\ i + 1 \in DOMAIN x /\ j + 1 \in DOMAIN x /\ i + 1 < j + 1
          /\ Tail(x)[i] = x[i + 1] /\ Tail(x)[j] = x[j + 1]
      BY <2>1, <2>3
    <3> QED BY <3>1 DEF InSession
  <2>4. Ended(x) <=> (Head(x).t = "closed" \/ Ended(Tail(x)))
    <3>1. ASSUME NEW i \in DOMAIN x, x[i].t = "closed"
          PROVE  Head(x).t = "closed" \/ Ended(Tail(x))
      <4>1. CASE i = 1
        BY <2>1, <3>1, <4>1
      <4>2. CASE i # 1
        <5>1. i - 1 \in DOMAIN Tail(x) /\ Tail(x)[i - 1] = x[i]
          BY <2>1, <4>2
        <5> QED BY <3>1, <5>1 DEF Ended
      <4> QED BY <4>1, <4>2
    <3>2. ASSUME NEW i \in DOMAIN Tail(x), Tail(x)[i].t = "closed" PROVE Ended(x)
      BY <2>1, <3>2 DEF Ended
    <3>3. Head(x).t = "closed" => Ended(x)
      BY <2>1 DEF Ended
    <3> QED BY <3>1, <3>2, <3>3 DEF Ended
  <2>5. ASSUME Head(x).t = "closed", NEW i \in DOMAIN Tail(x) PROVE Tail(x)[i].t = "result"
    <3>1. 1 \in DOMAIN x /\ i + 1 \in DOMAIN x /\ 1 < i + 1 /\ Tail(x)[i] = x[i + 1]
      BY <2>1, <2>5
    <3> QED BY <2>1, <2>5, <3>1 DEF InSession
  <2> QED BY <2>2, <2>3, <2>4, <2>5 DEF Only
<1>4. s # None => ~ Ended(x) /\ s = w
  BY DEF InSession
<1>5. \A f : f.t = "result" => InSession(u, Append(x, f), s, w)
  BY <1>2 DEF InSession
<1>6. \A f : s # None /\ f.t = "error" => InSession(u, Append(x, f), s, w)
  BY <1>2, <1>4 DEF InSession
<1>7. \A f : s # None /\ f.t = "closed" => InSession(u, Append(x, f), None, w)
  BY <1>2, <1>4 DEF InSession
<1>8. x # <<>> /\ Head(x).t # "closed" => InSession(u, Tail(x), s, w)
  BY <1>3 DEF InSession
<1>9. x # <<>> /\ Head(x).t = "closed" => Quiet(u, Tail(x)) /\ s = None
  BY <1>3 DEF InSession, Quiet
<1> QED BY <1>1, <1>5, <1>6, <1>7, <1>8, <1>9 DEF InSession

\* A client that waits for its session.
LEMMA OpeningSteps ==
  ASSUME NEW u, IsQueue(u), NEW x, IsQueue(x), NEW s, NEW w, Opening(u, x, s, w)
  PROVE  /\ u # <<>> /\ Head(u).t \in Silent => Opening(Tail(u), x, s, w)
         /\ \A f : f.t = "result" => Opening(u, Append(x, f), s, w)
         /\ \A f : s # None /\ f.t = "error" => Opening(u, Append(x, f), s, w)
         /\ \A f : s # None /\ f.t = "closed" => Opening(u, Append(x, f), None, w)
         /\ x # <<>> /\ Head(x).t \notin {"opened", "error"} =>
              Opening(u, Tail(x), s, w)
         /\ x # <<>> /\ Head(x).t = "opened" =>
              /\ InSession(u, Tail(x), s, w)
              /\ \A i \in DOMAIN Tail(x) : Tail(x)[i].t # "opened"
         /\ x # <<>> /\ Head(x).t = "error" => Quiet(u, Tail(x)) /\ s = None
         /\ u # <<>> /\ Head(u).t \notin Silent =>
              /\ Head(u).t = "open" /\ Head(u).ws = w /\ s = None
              /\ \A f : f.t = "error" => Opening(Tail(u), Append(x, f), s, w)
              /\ \A f : f.t = "opened" => Opening(Tail(u), Append(x, f), w, w)
<1> USE Kinds
<1> DEFINE Of(q) == \A i \in DOMAIN q : q[i].t = "open" => q[i].ws = w
<1>1. CASE Single(u, {"open"}, Silent) /\ Only(x, Noise) /\ s = None /\ Of(u)
  <2>1. u # <<>> /\ Head(u).t \in Silent => Opening(Tail(u), x, s, w)
    <3>1. SUFFICES ASSUME u # <<>>, Head(u).t \in Silent
                   PROVE  Opening(Tail(u), x, s, w)
      OBVIOUS
    <3>2. Single(Tail(u), {"open"}, Silent)
      BY <1>1, <3>1, SingleTail
    <3>3. Of(Tail(u))
      BY <1>1, <3>1, QueueTail
    <3> QED BY <1>1, <3>2, <3>3 DEF Opening
  <2>2. \A f : f.t = "result" => Opening(u, Append(x, f), s, w)
    BY <1>1, OnlyAppend DEF Opening
  <2>3. x # <<>> => Head(x).t = "result" /\ Opening(u, Tail(x), s, w)
    BY <1>1, OnlyTail DEF Opening
  <2>4. ASSUME u # <<>>, Head(u).t \notin Silent
        PROVE  /\ Head(u).t = "open" /\ Head(u).ws = w /\ Only(Tail(u), Silent)
    <3>1. Head(u).t = "open" /\ Only(Tail(u), Silent)
      BY <1>1, <2>4, SingleTaken
    <3>2. 1 \in DOMAIN u /\ Head(u) = u[1]
      BY <2>4, QueueTail
    <3> QED BY <1>1, <3>1, <3>2
  <2>5. ASSUME u # <<>>, Head(u).t \notin Silent, NEW f, f.t = "error"
        PROVE  Opening(Tail(u), Append(x, f), s, w)
    <3>1. Single(Append(x, f), {"error"}, Noise)
      BY <1>1, <2>5, SingleAdded
    <3> QED BY <1>1, <2>4, <2>5, <3>1 DEF Opening
  <2>6. ASSUME u # <<>>, Head(u).t \notin Silent, NEW f, f.t = "opened"
        PROVE  Opening(Tail(u), Append(x, f), w, w)
    <3>1. /\ Len(x) \in Nat /\ DOMAIN x = 1 .. Len(x)
          /\ DOMAIN Append(x, f) = 1 .. Len(x) + 1
          /\ \A i \in 1 .. Len(x) : Append(x, f)[i] = x[i]
          /\ Append(x, f)[Len(x) + 1] = f
      BY QueueAppend
    <3>2. \A i \in 1 .. Len(x) : Append(x, f)[i].t = "result"
      BY <1>1, <3>1 DEF Only
    <3>3. Only(Append(x, f), {"result", "error", "opened", "closed"})
      BY <2>6, <3>1, <3>2 DEF Only
    <3>4. ~ Ended(Append(x, f))
      BY <2>6, <3>1, <3>2 DEF Ended
    <3>5. \A i, j \in DOMAIN Append(x, f) : i < j =>
            /\ Append(x, f)[j].t = "opened" => Append(x, f)[i].t = "result"
            /\ Append(x, f)[i].t = "closed" => Append(x, f)[j].t = "result"
      BY <3>1, <3>2
    <3>6. \E i \in DOMAIN Append(x, f) : Append(x, f)[i].t = "opened"
      BY <2>6, <3>1
    <3>7. InSession(Tail(u), Append(x, f), w, w)
      BY <2>4, <2>6, <3>3, <3>4, <3>5 DEF InSession
    <3> QED BY <3>6, <3>7 DEF Opening
  <2> HIDE DEF Of
  <2> QED BY <1>1, <2>1, <2>2, <2>3, <2>4, <2>5, <2>6
<1>2. CASE Only(u, Silent) /\ Single(x, {"error"}, Noise) /\ s = None
  <2>1. u # <<>> => Head(u).t \in Silent /\ Only(Tail(u), Silent)
    BY <1>2, OnlyTail
  <2>2. \A f : f.t = "result" => Single(Append(x, f), {"error"}, Noise)
    BY <1>2, SingleAppend
  <2>3. x # <<>> /\ Head(x).t # "error" =>
          Head(x).t = "result" /\ Single(Tail(x), {"error"}, Noise)
    BY <1>2, SingleTail
  <2>4. x # <<>> /\ Head(x).t = "error" => Only(Tail(x), Noise)
    BY <1>2, SingleTaken
  <2> QED BY <1>2, <2>1, <2>2, <2>3, <2>4 DEF Opening, Quiet
<1>3. CASE InSession(u, x, s, w) /\ \E i \in DOMAIN x : x[i].t = "opened"
  <2>1. \A f : /\ \E i \in DOMAIN Append(x, f) : Append(x, f)[i].t = "opened"
    BY <1>3, QueueAppend
  <2>2. /\ u # <<>> => Head(u).t \in Silent /\ InSession(Tail(u), x, s, w)
        /\ \A f : f.t = "result" => InSession(u, Append(x, f), s, w)
        /\ \A f : s # None /\ f.t = "error" => InSession(u, Append(x, f), s, w)
        /\ \A f : s # None /\ f.t = "closed" => InSession(u, Append(x, f), None, w)
        /\ x # <<>> /\ Head(x).t # "closed" => InSession(u, Tail(x), s, w)
    BY <1>3, SessionSteps
  <2>3. /\ u # <<>> => Head(u).t \in Silent /\ Opening(Tail(u), x, s, w)
        /\ \A f : f.t = "result" => Opening(u, Append(x, f), s, w)
        /\ \A f : s # None /\ f.t = "error" => Opening(u, Append(x, f), s, w)
        /\ \A f : s # None /\ f.t = "closed" => Opening(u, Append(x, f), None, w)
    BY <1>3, <2>1, <2>2 DEF Opening
  <2>4. ASSUME x # <<>>
        PROVE  /\ Head(x).t \in {"result", "opened"}
               /\ Head(x).t = "result" =>
                    \E i \in DOMAIN Tail(x) : Tail(x)[i].t = "opened"
               /\ Head(x).t = "opened" =>
                    \A i \in DOMAIN Tail(x) : Tail(x)[i].t # "opened"
    <3>1. /\ Len(x) \in Nat \ {0} /\ DOMAIN x = 1 .. Len(x)
          /\ DOMAIN Tail(x) = 1 .. Len(x) - 1
          /\ \A i \in 1 .. Len(x) - 1 : Tail(x)[i] = x[i + 1]
          /\ Head(x) = x[1]
      BY <2>4, QueueTail
    <3>2. PICK i \in DOMAIN x : x[i].t = "opened"
      BY <1>3
    <3>3. CASE i = 1
      <4>1. ASSUME NEW j \in DOMAIN Tail(x) PROVE Tail(x)[j].t # "opened"
        <5>1. 1 \in DOMAIN x /\ j + 1 \in DOMAIN x /\ 1 < j + 1 /\ Tail(x)[j] = x[j + 1]
          BY <3>1
        <5>2. x[j + 1].t = "opened" => x[1].t = "result"
          BY <1>3, <5>1 DEF InSession
        <5> QED BY <3>2, <3>3, <5>1, <5>2
      <4> QED BY <3>1, <3>2, <3>3, <4>1
    <3>4. CASE i # 1
      <4>1. 1 \in DOMAIN x /\ i - 1 \in DOMAIN Tail(x) /\ 1 < i /\ Tail(x)[i - 1] = x[i]
        BY <3>1, <3>4
      <4>2. x[1].t = "result"
        BY <1>3, <3>2, <4>1 DEF InSession
      <4> QED BY <3>1, <3>2, <4>1, <4>2
    <3> QED BY <3>3, <3>4
  <2>5. x # <<>> /\ Head(x).t \notin {"opened", "error"} => Opening(u, Tail(x), s, w)
    BY <2>2, <2>4 DEF Opening
  <2> QED BY <2>2, <2>3, <2>4, <2>5
<1> QED BY <1>1, <1>2, <1>3 DEF Opening

LEMMA NumberedSteps ==
  ASSUME NEW q, IsQueue(q), NEW a, Numbered(q, a)
  PROVE  /\ \A f : (f.t = "list" => f.q = a) => Numbered(Append(q, f), a)
         /\ q # <<>> => Numbered(Tail(q), a) /\ (Head(q).t = "list" => Head(q).q = a)
<1>1. ASSUME NEW f, f.t = "list" => f.q = a PROVE Numbered(Append(q, f), a)
  BY <1>1, QueueAppend DEF Numbered
<1>2. ASSUME q # <<>>
      PROVE  Numbered(Tail(q), a) /\ (Head(q).t = "list" => Head(q).q = a)
  <2>1. /\ Len(q) \in Nat \ {0} /\ DOMAIN q = 1 .. Len(q)
        /\ DOMAIN Tail(q) = 1 .. Len(q) - 1
        /\ \A i \in 1 .. Len(q) - 1 : Tail(q)[i] = q[i + 1]
        /\ Head(q) = q[1]
    BY <1>2, QueueTail
  <2> QED BY <2>1 DEF Numbered
<1> QED BY <1>1, <1>2

LEMMA Unnumbered ==
  ASSUME NEW q, NEW a, NEW T, Only(q, T), "list" \notin T
  PROVE  Numbered(q, a)
BY DEF Only, Numbered

\* What the hub does, while the client stays where it is: it takes what needs
\* no answer, sends the result of an upload, an error or the end of a session,
\* answers a question, or opens the session.
LEMMA HubSteps ==
  ASSUME NEW p, NEW g, NEW a, NEW u, IsQueue(u), NEW x, IsQueue(x), NEW s,
         Fits(p, g, a, u, x, s),
         p = "request" => g.op \in {"create", "delete", "reset"}
  PROVE  /\ u # <<>> /\ Head(u).t \in Silent => Fits(p, g, a, Tail(u), x, s)
         /\ \A f : f.t = "result" => Fits(p, g, a, u, Append(x, f), s)
         /\ \A f : s # None /\ f.t = "error" => Fits(p, g, a, u, Append(x, f), s)
         /\ \A f : s # None /\ f.t = "closed" =>
              Fits(p, g, a, u, Append(x, f), None)
         /\ \A f : /\ u # <<>> /\ Head(u).t \in Calls
                   /\ f.t \in {Head(u).t, "error"}
                   /\ f.t = "list" => f.q = Head(u).q
                   => Fits(p, g, a, Tail(u), Append(x, f), s)
         /\ u # <<>> /\ Head(u).t = "open" =>
              /\ \A f : f.t = "error" => Fits(p, g, a, Tail(u), Append(x, f), s)
              /\ \A f : f.t = "opened" =>
                   Fits(p, g, a, Tail(u), Append(x, f), Head(u).ws)
<1> USE Kinds
<1>1. CASE p \in {"picker", "confirm", "message", "agent", "hold"}
  <2>1. Quiet(u, x) /\ s = None
    BY <1>1 DEF Fits
  <2>2. /\ u # <<>> => Head(u).t \in Silent /\ Quiet(Tail(u), x)
        /\ \A f : f.t = "result" => Quiet(u, Append(x, f))
    BY <2>1, QuietSteps
  <2> QED BY <1>1, <2>1, <2>2 DEF Fits
<1>2. ASSUME NEW k \in Calls, p \in {"prefs", "list", "agents", "recheck", "request"},
             k = IF p = "request" THEN g.op ELSE IF p = "recheck" THEN "agents" ELSE p
      PROVE  /\ u # <<>> /\ Head(u).t \in Silent => Fits(p, g, a, Tail(u), x, s)
             /\ \A f : f.t = "result" => Fits(p, g, a, u, Append(x, f), s)
             /\ \A f : /\ u # <<>> /\ Head(u).t \in Calls
                       /\ f.t \in {Head(u).t, "error"}
                       /\ f.t = "list" => f.q = Head(u).q
                       => Fits(p, g, a, Tail(u), Append(x, f), s)
             /\ u # <<>> => Head(u).t # "open"
             /\ s = None
  <2>1. Asked(u, x, k) /\ s = None
    BY <1>2 DEF Fits
  <2>2. /\ u # <<>> /\ Head(u).t \in Silent => Asked(Tail(u), x, k)
        /\ \A f : f.t = "result" => Asked(u, Append(x, f), k)
        /\ \A f : u # <<>> /\ Head(u).t \notin Silent /\ f.t \in {Head(u).t, "error"} =>
             Head(u).t = k /\ Asked(Tail(u), Append(x, f), k)
    BY <2>1, AskedSteps
  <2>3. ASSUME p = "list"
        PROVE  /\ u # <<>> => /\ Numbered(Tail(u), a) /\ Numbered(x, a)
                              /\ \A f : (f.t = "list" => f.q = Head(u).q) /\ Head(u).t = "list"
                                          => Numbered(Append(x, f), a)
               /\ \A f : f.t = "result" => Numbered(u, a) /\ Numbered(Append(x, f), a)
    BY <2>3, NumberedSteps DEF Fits
  <2>4. u # <<>> => Head(u).t # "open"
    <3>1. SUFFICES ASSUME u # <<>>, Head(u).t = "open" PROVE FALSE
      OBVIOUS
    <3>2. [t |-> "error"].t \in {Head(u).t, "error"}
      OBVIOUS
    <3>3. Head(u).t = k
      BY <2>2, <3>1, <3>2
    <3> QED BY <3>1, <3>3
  <2>5. ASSUME u # <<>>, Head(u).t \in Silent PROVE Fits(p, g, a, Tail(u), x, s)
    BY <1>2, <2>1, <2>2, <2>3, <2>5 DEF Fits
  <2>6. ASSUME NEW f, f.t = "result" PROVE Fits(p, g, a, u, Append(x, f), s)
    BY <1>2, <2>1, <2>2, <2>3, <2>6 DEF Fits
  <2>7. ASSUME NEW f, u # <<>>, Head(u).t \in Calls,
               f.t \in {Head(u).t, "error"}, f.t = "list" => f.q = Head(u).q
        PROVE  Fits(p, g, a, Tail(u), Append(x, f), s)
    <3>1. Head(u).t \notin Silent
      BY <2>7
    <3>2. Head(u).t = k /\ Asked(Tail(u), Append(x, f), k)
      BY <2>2, <2>7, <3>1
    <3>3. p = "list" => Numbered(Tail(u), a) /\ Numbered(Append(x, f), a)
      BY <1>2, <2>3, <2>7, <3>2
    <3> QED BY <1>2, <2>1, <3>2, <3>3 DEF Fits
  <2> QED BY <2>1, <2>4, <2>5, <2>6, <2>7
<1>3. CASE p \in {"prefs", "list", "agents", "recheck", "request"}
  <2>1. PICK k \in Calls :
          k = IF p = "request" THEN g.op ELSE IF p = "recheck" THEN "agents" ELSE p
    BY <1>3
  <2> QED BY <1>2, <1>3, <2>1
<1>4. CASE p = "open"
  <2>1. Opening(u, x, s, g.ws)
    BY <1>4 DEF Fits
  <2>2. /\ u # <<>> /\ Head(u).t \in Silent => Opening(Tail(u), x, s, g.ws)
        /\ \A f : f.t = "result" => Opening(u, Append(x, f), s, g.ws)
        /\ \A f : s # None /\ f.t = "error" => Opening(u, Append(x, f), s, g.ws)
        /\ \A f : s # None /\ f.t = "closed" => Opening(u, Append(x, f), None, g.ws)
        /\ u # <<>> /\ Head(u).t \notin Silent =>
             /\ Head(u).t = "open" /\ Head(u).ws = g.ws /\ s = None
             /\ \A f : f.t = "error" => Opening(Tail(u), Append(x, f), s, g.ws)
             /\ \A f : f.t = "opened" => Opening(Tail(u), Append(x, f), g.ws, g.ws)
    BY <2>1, OpeningSteps
  <2>3. \A v, y, r : Fits(p, g, a, v, y, r) <=> Opening(v, y, r, g.ws)
    BY <1>4 DEF Fits
  <2> QED BY <2>2, <2>3
<1>5. CASE p = "relay"
  <2>1. InSession(u, x, s, g.ws) /\ \A i \in DOMAIN x : x[i].t # "opened"
    BY <1>5 DEF Fits
  <2>2. \A f : f.t # "opened" =>
          \A i \in DOMAIN Append(x, f) : Append(x, f)[i].t # "opened"
    BY <2>1, QueueAppend
  <2>3. /\ u # <<>> => Head(u).t \in Silent /\ InSession(Tail(u), x, s, g.ws)
        /\ \A f : f.t = "result" => InSession(u, Append(x, f), s, g.ws)
        /\ \A f : s # None /\ f.t = "error" => InSession(u, Append(x, f), s, g.ws)
        /\ \A f : s # None /\ f.t = "closed" => InSession(u, Append(x, f), None, g.ws)
    BY <2>1, SessionSteps
  <2>4. \A v, y, r : Fits(p, g, a, v, y, r) <=>
          InSession(v, y, r, g.ws) /\ \A i \in DOMAIN y : y[i].t # "opened"
    BY <1>5 DEF Fits
  <2> QED BY <2>1, <2>2, <2>3, <2>4
<1>6. CASE p \notin {"picker", "confirm", "message", "agent", "hold", "prefs",
                    "list", "agents", "recheck", "request", "open", "relay"}
  BY <1>6 DEF Fits
<1> QED BY <1>1, <1>3, <1>4, <1>5, <1>6

-----------------------------------------------------------------------------
(* The steps of the client                                                 *)

NoList(x) == \A i \in DOMAIN x : x[i].t # "list"

\* What was left on a dead wire, read.
LEMMA LeftSteps ==
  ASSUME NEW p, p # "over", NEW a, NEW x, IsQueue(x), Left(p, a, x)
  PROVE  /\ p # "list" => NoList(x)
         /\ x # <<>> =>
              /\ Left(p, a, Tail(x))
              /\ p # "list" => NoList(Tail(x))
              /\ Head(x).t \in {"list", "error"} => NoList(Tail(x))
              /\ Head(x).t = "list" => Head(x).q = a
<1>1. p # "list" => NoList(x)
  BY DEF Left, NoList
<1>2. ASSUME x # <<>>
      PROVE  /\ Left(p, a, Tail(x))
             /\ p # "list" => NoList(Tail(x))
             /\ Head(x).t \in {"list", "error"} => NoList(Tail(x))
             /\ Head(x).t = "list" => Head(x).q = a
  <2>1. /\ Len(x) \in Nat \ {0} /\ DOMAIN x = 1 .. Len(x)
        /\ DOMAIN Tail(x) = 1 .. Len(x) - 1
        /\ \A i \in 1 .. Len(x) - 1 : Tail(x)[i] = x[i + 1]
        /\ Head(x) = x[1]
    BY <1>2, QueueTail
  <2>2. ASSUME NEW i \in DOMAIN Tail(x), Tail(x)[i].t = "list"
        PROVE  /\ p = "list" /\ Tail(x)[i].q = a
               /\ \A j \in DOMAIN Tail(x) \ {i} : Tail(x)[j].t = "result"
               /\ Head(x).t = "result"
    <3>1. i + 1 \in DOMAIN x /\ x[i + 1].t = "list" /\ Tail(x)[i] = x[i + 1]
      BY <2>1, <2>2
    <3>2. /\ p = "list" /\ x[i + 1].q = a
          /\ \A j \in DOMAIN x \ {i + 1} : x[j].t = "result"
      BY <3>1 DEF Left
    <3>3. 1 \in DOMAIN x \ {i + 1}
      BY <2>1, <2>2
    <3>4. ASSUME NEW j \in DOMAIN Tail(x) \ {i} PROVE Tail(x)[j].t = "result"
      <4>1. j + 1 \in DOMAIN x \ {i + 1} /\ Tail(x)[j] = x[j + 1]
        BY <2>1, <2>2
      <4> QED BY <3>2, <4>1
    <3> QED BY <2>1, <3>1, <3>2, <3>3, <3>4
  <2>3. Head(x).t = "list" => Head(x).q = a
    BY <2>1 DEF Left
  <2> QED BY <2>2, <2>3 DEF Left, NoList
<1> QED BY <1>1, <1>2

LEMMA LeftAny ==
  ASSUME NEW p, NEW a, NEW x, NoList(x)
  PROVE  Left(p, a, x)
BY DEF Left, NoList

\* A frame is sent, or lost.
LEMMA SentFacts ==
  ASSUME StepInv, NEW f, Sent(<<f>>)
  PROVE  IsQueue(up') /\ up' = IF alive THEN Append(up, f) ELSE up
<1>1. IsQueue(up) /\ up' = IF alive THEN up \o <<f>> ELSE up
  BY DEF StepInv, Sent
<1>2. IsQueue(Append(up, f)) /\ up \o <<f>> = Append(up, f)
  BY <1>1, QueueAppend
<1> QED BY <1>1, <1>2

\* The first frame is read.
LEMMA GetFacts ==
  ASSUME StepInv, Get
  PROVE  text # <<>> /\ text' = Tail(text) /\ IsQueue(text') /\ alive' = alive
BY QueueTail DEF StepInv, Get

\* Nothing is under way after the step but what needs no answer.
Settled == refused = 0 =>
  /\ alive => Quiet(up, text') /\ session = None
  /\ ~ alive => NoList(text')

\* The question that goes with a place.
Call(p, op) == CASE p = "recheck" -> "agents"
                 [] p = "request" -> op
                 [] OTHER -> p

\* A question is asked of the hub when nothing else is under way.
LEMMA AskStep ==
  ASSUME StepInv, Settled, NEW f, Sent(<<f>>),
         f.t = Call(place', goal'.op), f.t = "list" => f.q = asked',
         place' \in {"prefs", "list", "agents", "recheck", "request"},
         place' = "request" => goal'.op \in {"create", "delete", "reset"},
         place' = "agents" => goal'.op = "create",
         IsQueue(text'), asked' \in Nat,
         UNCHANGED <<alive, session, refused>>
  PROVE  StepInv'
<1>1. IsQueue(up') /\ up' = IF alive THEN Append(up, f) ELSE up
  BY SentFacts
<1>2. ASSUME refused = 0, alive PROVE Fits(place', goal', asked', up', text', session')
  <2>1. Quiet(up, text') /\ session = None
    BY <1>2 DEF Settled
  <2>2. Asked(up', text', f.t)
    BY <1>1, <1>2, <2>1, QuietSteps DEF StepInv
  <2>3. f.t = "list" => Numbered(up', asked') /\ Numbered(text', asked')
    <3>1. SUFFICES ASSUME f.t = "list"
                   PROVE  Numbered(up', asked') /\ Numbered(text', asked')
      OBVIOUS
    <3>2. Numbered(up, asked') /\ Numbered(text', asked')
      BY <2>1, Unnumbered, Kinds DEF Quiet
    <3>3. Numbered(Append(up, f), asked')
      BY <3>1, <3>2, NumberedSteps DEF StepInv
    <3> QED BY <1>1, <1>2, <3>2, <3>3
  <2> QED BY <2>1, <2>2, <2>3 DEF Fits, Call
<1>3. ASSUME refused = 0, ~ alive PROVE Left(place', asked', text')
  BY <1>3, LeftAny DEF Settled
<1>4. ~ alive => up' = <<>> /\ session' = None
  BY <1>1 DEF StepInv
<1>5. refused' = 0 => ListCurrent'
  BY DEF ListCurrent
<1>6. place' \in MenuPlaces
  BY DEF MenuPlaces
<1> QED BY <1>1, <1>2, <1>3, <1>4, <1>5, <1>6 DEF StepInv

\* The client shows something and waits for a key, or for the agent.
LEMMA ShowStep ==
  ASSUME StepInv, Settled,
         place' \in {"picker", "confirm", "message", "agent", "hold"},
         place' = "confirm" => goal'.op \in {"create", "delete", "reset"},
         place' = "agent" /\ goal' # NoGoal => goal'.op = "create",
         refused = 0 => ListCurrent', IsQueue(text'),
         UNCHANGED <<alive, up, session, refused, asked>>
  PROVE  StepInv'
<1>1. ASSUME refused = 0, alive PROVE Fits(place', goal', asked', up', text', session')
  BY <1>1 DEF Settled, Fits
<1>2. ASSUME refused = 0, ~ alive PROVE Left(place', asked', text')
  BY <1>2, LeftAny DEF Settled
<1>3. place' \in MenuPlaces \cup {"hold"}
  BY DEF MenuPlaces
<1> QED BY <1>1, <1>2, <1>3 DEF StepInv

\* The program ends.
LEMMA EndStep ==
  ASSUME StepInv, place' = "over", IsQueue(text'), IsQueue(up'),
         ~ alive => up' = up, UNCHANGED <<alive, session, refused, asked>>
  PROVE  StepInv'
BY DEF StepInv, Fits, Left, ListCurrent

\* Where the client awaits an answer and takes it, nothing is left of it; where
\* it awaits none there is none.
LEMMA AwaitedTaken ==
  ASSUME StepInv, place \in {"prefs", "list", "agents", "recheck", "request", "open"},
         Get, Head(text).t \in Awaited, Head(text).t # "opened"
  PROVE  Settled /\ IsQueue(text') /\ alive' = alive
<1> USE Kinds
<1>1. text # <<>> /\ text' = Tail(text) /\ IsQueue(text') /\ alive' = alive
  BY GetFacts
<1>2. ASSUME refused = 0, alive PROVE Quiet(up, text') /\ session = None
  <2>1. Fits(place, goal, asked, up, text, session)
    BY <1>2 DEF StepInv
  <2>2. CASE place = "open"
    <3>1. Head(text).t = "error"
      BY <2>2 DEF Awaited
    <3> QED BY <1>1, <2>1, <2>2, <3>1, OpeningSteps DEF Fits, StepInv
  <2>3. ASSUME NEW k \in Calls, place # "open",
               k = IF place = "request" THEN goal.op
                   ELSE IF place = "recheck" THEN "agents" ELSE place
        PROVE  Quiet(up, text') /\ session = None
    <3>1. Asked(up, text, k) /\ session = None
      BY <2>1, <2>3 DEF Fits
    <3>2. Head(text).t \in {k, "error"}
      BY <2>3 DEF Awaited
    <3> QED BY <1>1, <3>1, <3>2, AskedSteps DEF StepInv
  <2>4. CASE place # "open"
    <3>1. PICK k \in Calls :
            k = IF place = "request" THEN goal.op
                ELSE IF place = "recheck" THEN "agents" ELSE place
      BY <2>4 DEF StepInv
    <3> QED BY <2>3, <2>4, <3>1
  <2> QED BY <2>2, <2>4
<1>3. ASSUME refused = 0, ~ alive PROVE NoList(text')
  <2>1. Left(place, asked, text)
    BY <1>3 DEF StepInv
  <2>2. place = "list" => Head(text).t \in {"list", "error"}
    BY DEF Awaited
  <2> QED BY <1>1, <2>1, <2>2, LeftSteps DEF StepInv
<1> QED BY <1>1, <1>2, <1>3 DEF Settled

LEMMA NothingAwaited ==
  ASSUME StepInv, place \in {"picker", "confirm", "message", "agent", "hold"},
         text' = text
  PROVE  Settled
<1>1. ASSUME refused = 0, alive PROVE Quiet(up, text') /\ session = None
  BY <1>1 DEF StepInv, Fits
<1>2. ASSUME refused = 0, ~ alive PROVE NoList(text')
  BY <1>2, LeftSteps DEF StepInv
<1> QED BY <1>1, <1>2 DEF Settled

\* A session is asked for when nothing else is under way.
LEMMA OpenStep ==
  ASSUME StepInv, Settled, Sent(<<Open(goal'.ws)>>), place' = "open",
         IsQueue(text'), UNCHANGED <<alive, session, refused, asked>>
  PROVE  StepInv'
<1> USE Kinds
<1> DEFINE f == Open(goal'.ws)
<1>1. IsQueue(up') /\ up' = IF alive THEN Append(up, f) ELSE up
  BY SentFacts
<1>2. f.t = "open" /\ f.ws = goal'.ws
  BY DEF Open
<1> HIDE DEF f
<1>3. ASSUME refused = 0, alive PROVE Fits(place', goal', asked', up', text', session')
  <2>1. Quiet(up, text') /\ session = None
    BY <1>3 DEF Settled
  <2>2. Single(Append(up, f), {"open"}, Silent)
    BY <1>2, <2>1, SingleAdded DEF Quiet, StepInv
  <2>3. \A i \in DOMAIN Append(up, f) :
          Append(up, f)[i].t = "open" => Append(up, f)[i].ws = goal'.ws
    <3>1. /\ Len(up) \in Nat /\ DOMAIN up = 1 .. Len(up)
          /\ DOMAIN Append(up, f) = 1 .. Len(up) + 1
          /\ \A i \in 1 .. Len(up) : Append(up, f)[i] = up[i]
          /\ Append(up, f)[Len(up) + 1] = f
      BY QueueAppend DEF StepInv
    <3>2. \A i \in 1 .. Len(up) : up[i].t # "open"
      BY <2>1, <3>1 DEF Quiet, Only
    <3> QED BY <1>2, <3>1, <3>2
  <2> QED BY <1>1, <1>3, <2>1, <2>2, <2>3 DEF Fits, Opening, Quiet
<1>4. ASSUME refused = 0, ~ alive PROVE Left(place', asked', text')
  BY <1>4, LeftAny DEF Settled
<1>5. ~ alive => up' = <<>> /\ session' = None
  BY <1>1 DEF StepInv
<1>6. refused' = 0 => ListCurrent'
  BY DEF ListCurrent
<1> QED BY <1>1, <1>3, <1>4, <1>5, <1>6 DEF StepInv

\* What needs no answer is sent at any place.
LEMMA SilentSteps ==
  ASSUME NEW p, NEW g, NEW a, NEW u, IsQueue(u), NEW x, IsQueue(x), NEW s,
         Fits(p, g, a, u, x, s), NEW f, f.t \in Silent,
         p = "request" => g.op \in {"create", "delete", "reset"}
  PROVE  Fits(p, g, a, Append(u, f), x, s)
<1> USE Kinds
<1>1. Quiet(u, x) => Quiet(Append(u, f), x)
  BY QuietSteps
<1>2. \A k \in Calls : Asked(u, x, k) => Asked(Append(u, f), x, k)
  BY AskedSteps
<1>3. Numbered(u, a) => Numbered(Append(u, f), a)
  BY NumberedSteps
<1>4. Opening(u, x, s, g.ws) => Opening(Append(u, f), x, s, g.ws)
  <2>1. CASE /\ Single(u, {"open"}, Silent) /\ Only(x, Noise) /\ s = None
             /\ \A i \in DOMAIN u : u[i].t = "open" => u[i].ws = g.ws
    <3>1. Single(Append(u, f), {"open"}, Silent)
      BY <2>1, SingleAppend
    <3>2. \A i \in DOMAIN Append(u, f) :
            Append(u, f)[i].t = "open" => Append(u, f)[i].ws = g.ws
      BY <2>1, QueueAppend
    <3> QED BY <2>1, <3>1, <3>2 DEF Opening
  <2>2. CASE Only(u, Silent) /\ Single(x, {"error"}, Noise) /\ s = None
    <3>1. Only(Append(u, f), Silent)
      BY <2>2, OnlyAppend
    <3> QED BY <2>2, <3>1 DEF Opening
  <2>3. CASE InSession(u, x, s, g.ws) /\ \E i \in DOMAIN x : x[i].t = "opened"
    <3>1. InSession(Append(u, f), x, s, g.ws)
      BY <2>3, SessionSteps
    <3> QED BY <2>3, <3>1 DEF Opening
  <2> QED BY <2>1, <2>2, <2>3 DEF Opening
<1>5. InSession(u, x, s, g.ws) => InSession(Append(u, f), x, s, g.ws)
  BY SessionSteps
<1>6. ASSUME p = "request" PROVE g.op \in Calls
  BY <1>6
<1> QED BY <1>1, <1>2, <1>3, <1>4, <1>5, <1>6 DEF Fits

\* The preferences are saved, and the list asked for, when nothing else is
\* under way.
LEMMA SaveStep ==
  ASSUME StepInv, Settled, NEW f, f.t = "save", Sent(<<f, AskList>>),
         text' = text, place' = "list", asked' = asked + 1,
         UNCHANGED <<alive, session, refused>>
  PROVE  StepInv'
<1> USE Kinds
<1> DEFINE g == AskList
           v == Append(up, f)
<1>0. IsQueue(up) /\ IsQueue(text') /\ asked' \in Nat
  BY DEF StepInv
<1>1. IsQueue(v) /\ IsQueue(Append(v, g)) /\ up \o <<f, g>> = Append(v, g)
  <2>1. IsQueue(v)
    BY <1>0, QueueAppend
  <2>2. IsQueue(Append(v, g))
    BY <2>1, QueueAppend
  <2>3. up \o <<f, g>> = Append(v, g)
    <3>1. up \in Seq(ToSet(up) \cup {f, g})
      <4> DEFINE S == ToSet(up) \cup {f, g}
      <4>1. up \in Seq(ToSet(up)) /\ ToSet(up) \subseteq S
        BY <1>0 DEF IsQueue
      <4> HIDE DEF S
      <4>2. up \in Seq(S)
        BY <4>1
      <4> QED BY <4>2 DEF S
    <3> DEFINE S == ToSet(up) \cup {f, g}
    <3>2. up \in Seq(S) /\ f \in S /\ g \in S
      BY <3>1
    <3> HIDE DEF S, g
    <3>3. up \o <<f, g>> = Append(Append(up, f), g)
      BY <3>2
    <3> QED BY <3>3
  <2> QED BY <2>1, <2>2, <2>3
<1>2. up' = IF alive THEN Append(v, g) ELSE up
  BY <1>1 DEF Sent
<1>3. g.t = "list" /\ g.q = asked'
  BY DEF AskList
<1> HIDE DEF g
<1>4. ASSUME refused = 0, alive PROVE Fits(place', goal', asked', up', text', session')
  <2>1. Quiet(up, text') /\ session = None
    BY <1>4 DEF Settled
  <2>2. Quiet(v, text')
    BY <1>0, <2>1, QuietSteps
  <2>3. Asked(Append(v, g), text', "list")
    BY <1>0, <1>1, <1>3, <2>2, QuietSteps
  <2>4. Numbered(v, asked') /\ Numbered(text', asked')
    BY <2>2, Unnumbered DEF Quiet
  <2>5. Numbered(Append(v, g), asked')
    BY <1>1, <1>3, <2>4, NumberedSteps
  <2> QED BY <1>2, <1>4, <2>1, <2>3, <2>4, <2>5 DEF Fits
<1>5. ASSUME refused = 0, ~ alive PROVE Left(place', asked', text')
  BY <1>5, LeftAny DEF Settled
<1>6. ~ alive => up' = <<>> /\ session' = None
  BY <1>2 DEF StepInv
<1>7. IsQueue(up')
  BY <1>0, <1>1, <1>2
<1>8. refused' = 0 => ListCurrent'
  BY DEF ListCurrent
<1>9. place' \in MenuPlaces
  BY DEF MenuPlaces
<1> QED BY <1>0, <1>4, <1>5, <1>6, <1>7, <1>8, <1>9 DEF StepInv

LEMMA MenuStep ==
  ASSUME StepInv, Menu
  PROVE  StepInv'
<1> USE DEF OnlyMenu, hub, menu, drop, wire, bounds, history
<1>1. CASE PrefsLoaded
  <2>1. Get /\ Sent(<<AskList>>) /\ Head(text).t \in Awaited /\ Head(text).t # "opened"
    BY <1>1 DEF PrefsLoaded, GetAndSend, Got, Awaited
  <2>2. Settled /\ IsQueue(text') /\ alive' = alive
    BY <1>1, <2>1, AwaitedTaken DEF PrefsLoaded
  <2>3. place' = "list" /\ asked' \in Nat /\ UNCHANGED <<session, refused>>
    BY <1>1 DEF PrefsLoaded, Relist, StepInv
  <2>4. AskList.t = "list" /\ AskList.q = asked'
    BY DEF AskList
  <2> QED BY <2>1, <2>2, <2>3, <2>4, AskStep DEF Call
<1>2. CASE PrefsLost
  <2>1. ~ alive /\ text = <<>> /\ UNCHANGED <<alive, up, text, session, refused>>
    BY <1>2 DEF PrefsLost, Lost
  <2>2. Settled
    BY <2>1, QueueStart DEF Settled, NoList
  <2>3. place' = "list" /\ asked' \in Nat /\ IsQueue(text')
    BY <1>2, <2>1 DEF PrefsLost, Relist, StepInv
  <2>4. AskList.t = "list" /\ AskList.q = asked' /\ Sent(<<AskList>>)
    BY <2>1 DEF AskList, Sent
  <2> QED BY <2>1, <2>2, <2>3, <2>4, AskStep DEF Call
<1>3. CASE ListShown
  <2>1. /\ place = "list" /\ Get /\ Head(text).t \in Awaited /\ Head(text).t # "opened"
        /\ UNCHANGED <<up, session, refused, asked>>
    BY <1>3 DEF ListShown, GetOnly, Got, Awaited
  <2>2. Settled /\ IsQueue(text') /\ alive' = alive
    BY <2>1, AwaitedTaken
  <2>3. place' = "picker"
    BY <1>3 DEF ListShown, Show
  <2>4. refused = 0 => ListCurrent'
    <3>1. SUFFICES ASSUME refused = 0 PROVE ListCurrent'
      OBVIOUS
    <3>2. CASE Got({"list"}) /\ Show(Head(text).items) /\ shown' = Head(text).q
      <4>1. Head(text).t = "list" /\ text # <<>>
        BY <3>2 DEF Got
      <4>2. CASE alive
        <5>1. Numbered(text, asked)
          BY <2>1, <3>1, <4>2 DEF StepInv, Fits
        <5>2. Head(text).q = asked
          BY <4>1, <5>1, NumberedSteps DEF StepInv
        <5> QED BY <2>1, <3>2, <5>2 DEF ListCurrent
      <4>3. CASE ~ alive
        <5>1. Left(place, asked, text)
          BY <3>1, <4>3 DEF StepInv
        <5>2. Head(text).q = asked
          BY <2>1, <4>1, <5>1, LeftSteps DEF StepInv
        <5> QED BY <2>1, <3>2, <5>2 DEF ListCurrent
      <4> QED BY <4>2, <4>3
    <3>3. CASE Show(<<>>)
      <4>1. items' = <<>>
        BY <3>3 DEF Show
      <4> QED BY <4>1, QueueStart DEF ListCurrent
    <3> QED BY <1>3, <3>2, <3>3 DEF ListShown
  <2> QED BY <2>1, <2>2, <2>3, <2>4, ShowStep
<1>4. CASE ListLost
  BY <1>4, EndStep DEF ListLost, StepInv
<1>5. CASE Quit
  <2>1. Sent(<<[t |-> "close"]>>) /\ place' = "over"
        /\ UNCHANGED <<alive, text, session, refused, asked>>
    BY <1>5 DEF Quit, SendOnly
  <2> QED BY <2>1, SentFacts, EndStep DEF StepInv
<1>6. ASSUME place \in {"picker", "confirm", "message", "agent"},
             place' = "list", asked' = asked + 1, Sent(<<AskList>>),
             UNCHANGED <<alive, text, session, refused>>
      PROVE  StepInv'
  <2>1. Settled /\ IsQueue(text') /\ asked' \in Nat
    BY <1>6, NothingAwaited DEF StepInv
  <2>2. AskList.t = "list" /\ AskList.q = asked'
    BY DEF AskList
  <2> QED BY <1>6, <2>1, <2>2, AskStep DEF Call
<1>7. CASE Move \/ Decline \/ Dismiss
  BY <1>6, <1>7 DEF Move, Decline, Dismiss, Relist, SendOnly
<1>8. CASE AskConfirm
  <2>1. /\ place = "picker" /\ place' = "confirm"
        /\ goal'.op \in {"create", "delete", "reset"}
        /\ UNCHANGED <<alive, up, text, session, refused, asked>>
    BY <1>8 DEF AskConfirm
  <2>2. ListCurrent'
    BY <2>1 DEF ListCurrent
  <2> QED BY <2>1, <2>2, NothingAwaited, ShowStep DEF StepInv
<1>9. ASSUME NEW f, place \in {"picker", "confirm", "message", "agent"},
             Sent(<<f>>), f.t = Call(place', goal'.op),
             place' \in {"agents", "recheck", "request"},
             place' = "request" => goal'.op \in {"create", "delete", "reset"},
             place' = "agents" => goal'.op = "create",
             UNCHANGED <<alive, text, session, refused, asked>>
      PROVE  StepInv'
  <2>1. Settled /\ IsQueue(text') /\ asked' \in Nat
    BY <1>9, NothingAwaited DEF StepInv
  <2>2. f.t # "list"
    BY <1>9 DEF Call
  <2> QED BY <1>9, <2>1, <2>2, AskStep
<1>10. CASE Confirm
  <2>1. /\ place = "confirm" /\ place' = "request" /\ goal' = goal
        /\ Sent(<<[t |-> goal.op, ws |-> goal.ws]>>)
        /\ UNCHANGED <<alive, text, session, refused, asked>>
    BY <1>10 DEF Confirm, SendOnly
  <2> QED BY <1>9, <2>1 DEF StepInv, Call
<1>11. CASE TogglePin
  <2>1. PICK o, w, p : Rearranged(o, w, p) /\ place = "picker"
                       /\ UNCHANGED <<session, refused>>
    BY <1>11 DEF TogglePin
  <2>2. Settled
    BY <2>1, NothingAwaited DEF Rearranged
  <2> QED BY <2>1, <2>2, SaveStep DEF Rearranged, Relist
<1>12. CASE MoveWorkspace
  <2>1. PICK o, w, p : Rearranged(o, w, p) /\ place = "picker"
                       /\ UNCHANGED <<session, refused>>
    BY <1>12 DEF MoveWorkspace
  <2>2. Settled
    BY <2>1, NothingAwaited DEF Rearranged
  <2> QED BY <2>1, <2>2, SaveStep DEF Rearranged, Relist
<1>13. CASE NameGiven
  <2>1. /\ place = "picker" /\ place' = "agents" /\ goal'.op = "create"
        /\ Sent(<<[t |-> "agents"]>>)
        /\ UNCHANGED <<alive, text, session, refused, asked>>
    BY <1>13 DEF NameGiven, SendOnly
  <2> QED BY <1>9, <2>1 DEF Call
<1>14. CASE AgentsListed
  <2>1. /\ place = "agents" /\ Get /\ Head(text).t \in Awaited /\ Head(text).t # "opened"
        /\ UNCHANGED <<up, session, refused, asked>>
    BY <1>14 DEF AgentsListed, GetOnly, Got, Awaited
  <2>2. Settled /\ IsQueue(text') /\ alive' = alive
    BY <2>1, AwaitedTaken
  <2>3. place' \in {"over", "message", "agent"} /\ goal' \in {goal, NoGoal}
    BY <1>14 DEF AgentsListed
  <2>4. ListCurrent'
    BY <2>3 DEF ListCurrent
  <2>5. CASE place' = "over"
    BY <2>1, <2>2, <2>5, EndStep DEF StepInv
  <2>6. CASE place' # "over"
    BY <2>1, <2>2, <2>3, <2>4, <2>6, ShowStep DEF StepInv
  <2> QED BY <2>5, <2>6
<1>15. CASE AgentPicked
  <2>1. /\ place = "agent" /\ goal # NoGoal /\ place' = "request" /\ goal' = goal
        /\ Sent(<<[t |-> "create", ws |-> goal.ws]>>)
        /\ UNCHANGED <<alive, text, session, refused, asked>>
    BY <1>15 DEF AgentPicked, SendOnly
  <2>2. goal.op = "create"
    BY <2>1 DEF StepInv
  <2> QED BY <1>9, <2>1, <2>2 DEF Call
<1>16. CASE Requested
  <2>1. Get /\ Sent(<<AskList>>) /\ Head(text).t \in Awaited /\ Head(text).t # "opened"
        /\ place = "request"
    BY <1>16 DEF Requested, GetAndSend, Got, Awaited, StepInv
  <2>2. Settled /\ IsQueue(text') /\ alive' = alive
    BY <2>1, AwaitedTaken
  <2>3. place' = "list" /\ asked' \in Nat /\ UNCHANGED <<session, refused>>
    BY <1>16 DEF Requested, Relist, StepInv
  <2>4. AskList.t = "list" /\ AskList.q = asked'
    BY DEF AskList
  <2> QED BY <2>1, <2>2, <2>3, <2>4, AskStep DEF Call
<1>17. CASE RequestRefused
  <2>1. /\ place = "request" /\ Get /\ Head(text).t \in Awaited /\ Head(text).t # "opened"
        /\ place' = "message" /\ UNCHANGED <<up, session, refused, asked>>
    BY <1>17 DEF RequestRefused, GetOnly, Got, Awaited
  <2>2. Settled /\ IsQueue(text') /\ alive' = alive
    BY <2>1, AwaitedTaken
  <2>3. ListCurrent'
    BY <2>1 DEF ListCurrent
  <2> QED BY <2>1, <2>2, <2>3, ShowStep
<1>18. CASE Pick
  <2>1. /\ place = "picker" /\ UNCHANGED <<alive, text, session, refused, asked>>
    BY <1>18 DEF Pick, SendOnly
  <2>2. CASE LeaveMenu(Chosen) /\ SendOnly(Open(Chosen))
    <3>1. place' = "open" /\ goal'.ws = Chosen /\ Sent(<<Open(goal'.ws)>>)
      BY <2>2 DEF LeaveMenu, SendOnly
    <3> QED BY <2>1, <3>1, NothingAwaited, OpenStep DEF StepInv
  <2>3. CASE place' = "recheck" /\ SendOnly([t |-> "agents"])
    BY <1>9, <2>1, <2>3 DEF SendOnly, Call
  <2> QED BY <1>18, <2>2, <2>3 DEF Pick
<1>19. CASE Rechecked
  <2>1. /\ place = "recheck" /\ UNCHANGED <<session, refused, asked>>
    BY <1>19 DEF Rechecked
  <2>2. ASSUME Get, Head(text).t \in {"agents", "error"}
        PROVE  Settled /\ IsQueue(text') /\ alive' = alive
    BY <2>1, <2>2, AwaitedTaken DEF Awaited
  <2>3. CASE LeaveMenu(goal.ws) /\ GetAndSend(Open(goal.ws)) /\ Got({"agents"})
    <3>1. place' = "open" /\ goal'.ws = goal.ws /\ Sent(<<Open(goal'.ws)>>)
      BY <2>3 DEF LeaveMenu, GetAndSend
    <3>2. Settled /\ IsQueue(text') /\ alive' = alive
      BY <2>2, <2>3 DEF GetAndSend, Got
    <3> QED BY <2>1, <3>1, <3>2, OpenStep
  <2>4. CASE place' = "message" /\ GetOnly /\ Got({"agents", "error"})
    <3>1. Settled /\ IsQueue(text') /\ alive' = alive
      BY <2>2, <2>4 DEF GetOnly, Got
    <3>2. ListCurrent'
      BY <2>4 DEF ListCurrent
    <3> QED BY <2>1, <2>4, <3>1, <3>2, ShowStep DEF GetOnly
  <2>5. CASE place' = "message" /\ Lost /\ UNCHANGED wire
    <3>1. Settled
      BY <2>5, QueueStart DEF Settled, NoList, Lost
    <3>2. ListCurrent'
      BY <2>5 DEF ListCurrent
    <3> QED BY <2>1, <2>5, <3>1, <3>2, ShowStep DEF StepInv
  <2> QED BY <1>19, <2>3, <2>4, <2>5 DEF Rechecked, Got
<1> QED BY <1>1, <1>2, <1>3, <1>4, <1>5, <1>7, <1>8, <1>10, <1>11, <1>12, <1>13,
           <1>14, <1>15, <1>16, <1>17, <1>18, <1>19 DEF Menu

\* A frame the client does not wait for is read.
LEMMA SkipStep ==
  ASSUME StepInv, Skip
  PROVE  StepInv'
<1> USE Kinds
<1>1. /\ text # <<>> /\ text' = Tail(text) /\ IsQueue(text')
      /\ Head(text).t \notin Awaited
      /\ place \in {"prefs", "list", "agents", "recheck", "request", "open"}
      /\ UNCHANGED <<place, goal, up, alive, session, asked, refused>>
  BY GetFacts DEF Skip, GetOnly, Got, Get, Awaited, hub, history
<1>2. ASSUME refused = 0, alive PROVE Fits(place', goal', asked', up', text', session')
  <2>1. Fits(place, goal, asked, up, text, session)
    BY <1>2 DEF StepInv
  <2>2. CASE place = "open"
    <3>1. Head(text).t \notin {"opened", "error"}
      BY <1>1, <2>2 DEF Awaited
    <3> QED BY <1>1, <2>1, <2>2, <3>1, OpeningSteps DEF Fits, StepInv
  <2>3. ASSUME NEW k \in Calls, place # "open",
               k = IF place = "request" THEN goal.op
                   ELSE IF place = "recheck" THEN "agents" ELSE place
        PROVE  Fits(place', goal', asked', up', text', session')
    <3>1. Asked(up, text, k)
      BY <1>1, <2>1, <2>3 DEF Fits
    <3>2. Head(text).t \notin {k, "error"}
      BY <1>1, <2>3 DEF Awaited
    <3>3. Asked(up, Tail(text), k)
      BY <1>1, <3>1, <3>2, AskedSteps DEF StepInv
    <3>4. Numbered(text, asked) => Numbered(Tail(text), asked)
      BY <1>1, NumberedSteps DEF StepInv
    <3> QED BY <1>1, <2>1, <2>3, <3>3, <3>4 DEF Fits
  <2>4. CASE place # "open"
    <3>1. PICK k \in Calls :
            k = IF place = "request" THEN goal.op
                ELSE IF place = "recheck" THEN "agents" ELSE place
      BY <1>1, <2>4 DEF StepInv
    <3> QED BY <2>3, <2>4, <3>1
  <2> QED BY <2>2, <2>4
<1>3. ASSUME refused = 0, ~ alive PROVE Left(place', asked', text')
  BY <1>1, <1>3, LeftSteps DEF StepInv
<1>4. ListCurrent'
  BY <1>1 DEF ListCurrent
<1> QED BY <1>1, <1>2, <1>3, <1>4 DEF StepInv

\* In the relay the end of the session is heard, or another frame.
LEMMA RelayHears ==
  ASSUME StepInv, place = "relay", Get
  PROVE  /\ Head(text).t = "closed" => Settled
         /\ Head(text).t # "closed" /\ UNCHANGED <<place, goal, asked, session, up, refused>>
              => StepInv'
<1>1. text # <<>> /\ text' = Tail(text) /\ IsQueue(text') /\ alive' = alive
  BY GetFacts
<1>2. ASSUME refused = 0, alive, Head(text).t = "closed"
      PROVE  Quiet(up, text') /\ session = None
  BY <1>1, <1>2, SessionSteps DEF StepInv, Fits
<1>3. ASSUME refused = 0, ~ alive PROVE NoList(text') /\ Left(place, asked, text')
  BY <1>1, <1>3, LeftSteps DEF StepInv
<1>4. ASSUME refused = 0, alive, Head(text).t # "closed"
      PROVE  Fits(place, goal, asked, up, text', session)
  <2>1. /\ InSession(up, text, session, goal.ws)
        /\ \A i \in DOMAIN text : text[i].t # "opened"
    BY <1>4 DEF StepInv, Fits
  <2>2. InSession(up, text', session, goal.ws)
    BY <1>1, <1>4, <2>1, SessionSteps DEF StepInv
  <2>3. \A i \in DOMAIN text' : text'[i].t # "opened"
    BY <1>1, <2>1, QueueTail DEF StepInv
  <2> QED BY <2>2, <2>3 DEF Fits
<1>5. Head(text).t = "closed" => Settled
  BY <1>2, <1>3 DEF Settled
<1>6. ASSUME Head(text).t # "closed", UNCHANGED <<place, goal, asked, session, up, refused>>
      PROVE  StepInv'
  <2>1. ListCurrent'
    BY <1>6 DEF ListCurrent
  <2> QED BY <1>1, <1>3, <1>4, <1>6, <2>1 DEF StepInv
<1> QED BY <1>5, <1>6

LEMMA SessionStep ==
  ASSUME StepInv, Session
  PROVE  StepInv'
<1> USE DEF hub, menu, drop, wire, bounds, history
<1> USE Kinds
<1>1. CASE Opened
  <2>1. /\ place = "open" /\ place' = "relay" /\ Get /\ Head(text).t = "opened"
        /\ UNCHANGED <<goal, up, session, asked, refused>>
    BY <1>1 DEF Opened, GetOnly, Got
  <2>2. text # <<>> /\ text' = Tail(text) /\ IsQueue(text') /\ alive' = alive
    BY <2>1, GetFacts
  <2>3. ASSUME refused = 0, alive PROVE Fits(place', goal', asked', up', text', session')
    <3>1. Opening(up, text, session, goal.ws)
      BY <2>1, <2>3 DEF StepInv, Fits
    <3>2. /\ InSession(up, Tail(text), session, goal.ws)
          /\ \A i \in DOMAIN Tail(text) : Tail(text)[i].t # "opened"
      BY <2>1, <2>2, <3>1, OpeningSteps DEF StepInv
    <3> QED BY <2>1, <2>2, <3>2 DEF Fits
  <2>4. ASSUME refused = 0, ~ alive PROVE Left(place', asked', text')
    BY <2>1, <2>2, <2>4, LeftSteps, LeftAny DEF StepInv
  <2>5. ListCurrent'
    BY <2>1 DEF ListCurrent
  <2> QED BY <2>1, <2>2, <2>3, <2>4, <2>5 DEF StepInv
<1>2. CASE OpenRefused
  <2>1. /\ place = "open" /\ Get /\ Head(text).t \in Awaited /\ Head(text).t # "opened"
        /\ place' = "hold" /\ UNCHANGED <<up, session, refused, asked>>
    BY <1>2 DEF OpenRefused, GetOnly, Got, Awaited
  <2>2. Settled /\ IsQueue(text') /\ alive' = alive
    BY <2>1, AwaitedTaken
  <2>3. ListCurrent'
    BY <2>1 DEF ListCurrent
  <2> QED BY <2>1, <2>2, <2>3, ShowStep
<1>3. CASE TryAgain
  <2>1. /\ place = "hold" /\ place' = "open" /\ Sent(<<Open(goal'.ws)>>)
        /\ UNCHANGED <<alive, text, session, refused, asked>>
    BY <1>3 DEF TryAgain, SendOnly
  <2> QED BY <2>1, NothingAwaited, OpenStep DEF StepInv
<1>4. CASE GiveUp
  <2>1. /\ place = "hold" /\ place' = "prefs" /\ Sent(<<[t |-> "prefs"]>>)
        /\ UNCHANGED <<alive, text, session, refused, asked>>
    BY <1>4 DEF GiveUp, SendOnly, EnterMenu
  <2>2. Settled /\ IsQueue(text') /\ asked' \in Nat
    BY <2>1, NothingAwaited DEF StepInv
  <2> QED BY <2>1, <2>2, AskStep DEF Call
<1>5. CASE HubLost
  <2>1. /\ place \in {"open", "relay"} /\ ~ alive /\ place' = "redial"
        /\ UNCHANGED <<goal, alive, up, text, session, refused, asked>>
    BY <1>5 DEF HubLost
  <2>2. refused = 0 => Left(place', asked', text')
    BY <2>1, LeftSteps, LeftAny DEF StepInv
  <2>3. ListCurrent'
    BY <2>1 DEF ListCurrent
  <2> QED BY <2>1, <2>2, <2>3 DEF StepInv
<1>6. CASE Reconnected
  <2>1. /\ place = "redial" /\ ~ alive /\ session = None
        /\ alive' /\ text' = <<>> /\ up' = <<Open(goal.ws)>> /\ place' = "open"
        /\ asked' = 0 /\ UNCHANGED <<goal, session>> /\ refused' \in Nat
    BY <1>6 DEF Reconnected, StepInv
  <2>2. Open(goal.ws).t = "open" /\ Open(goal.ws).ws = goal'.ws
    BY <2>1 DEF Open
  <2>3. IsQueue(up') /\ IsQueue(text') /\ DOMAIN text' = {} /\ DOMAIN up' = {1}
        /\ up'[1] = Open(goal.ws)
    BY <2>1, QueueStart
  <2>4. Single(up', {"open"}, Silent) /\ Only(text', Noise)
    BY <2>2, <2>3 DEF Single, Only
  <2>5. Fits(place', goal', asked', up', text', session')
    BY <2>1, <2>2, <2>3, <2>4 DEF Fits, Opening
  <2>6. ListCurrent'
    BY <2>1 DEF ListCurrent
  <2> QED BY <2>1, <2>3, <2>5, <2>6 DEF StepInv
<1>7. CASE ReconnectRejected
  <2>1. /\ place = "redial" /\ ~ alive /\ place' = "prefs"
        /\ UNCHANGED <<alive, up, text, session, refused, asked>>
    BY <1>7 DEF ReconnectRejected, EnterMenu, StepInv
  <2>2. Settled /\ IsQueue(text') /\ asked' \in Nat
    BY <2>1, LeftSteps DEF StepInv, Settled
  <2>3. Sent(<<[t |-> "prefs"]>>)
    BY <2>1 DEF Sent
  <2> QED BY <2>1, <2>2, <2>3, AskStep DEF Call
<1>8. CASE ReconnectCancelled
  BY <1>8, EndStep DEF ReconnectCancelled, StepInv
<1> QED BY <1>1, <1>2, <1>3, <1>4, <1>5, <1>6, <1>7, <1>8 DEF Session

LEMMA RelayStep ==
  ASSUME StepInv, Relay
  PROVE  StepInv'
<1> USE DEF hub, menu, drop, wire, bounds, history, OnlyDrop
<1> USE Kinds
<1>1. CASE SessionEnds
  <2>1. /\ place = "relay" /\ Get /\ Head(text).t = "closed"
        /\ UNCHANGED <<session, refused, asked>>
    BY <1>1 DEF SessionEnds, GetAndSend, Got
  <2>2. Settled /\ IsQueue(text') /\ alive' = alive /\ asked' \in Nat
    BY <2>1, RelayHears, GetFacts DEF StepInv
  <2>3. CASE place' = "open" /\ GetAndSend(Open(goal.ws)) /\ goal' = goal
    <3>1. Sent(<<Open(goal'.ws)>>)
      BY <2>3 DEF GetAndSend
    <3> QED BY <2>1, <2>2, <2>3, <3>1, OpenStep
  <2>4. CASE EnterMenu /\ GetAndSend([t |-> "prefs"])
    <3>1. place' = "prefs" /\ Sent(<<[t |-> "prefs"]>>)
      BY <2>4 DEF GetAndSend, EnterMenu
    <3> QED BY <2>1, <2>2, <3>1, AskStep DEF Call
  <2> QED BY <1>1, <2>3, <2>4 DEF SessionEnds
<1>2. ASSUME UNCHANGED <<place, goal, alive, up, text, session, refused, asked, shown, items>>
      PROVE  StepInv'
  BY <1>2 DEF StepInv, ListCurrent
<1>3. ASSUME NEW b \in Batches, Drop(b) \/ UploadAnswered(b) \/ UploadGivenUp(b)
      PROVE  StepInv'
  BY <1>2, <1>3 DEF Drop, UploadAnswered, UploadGivenUp
<1>4. ASSUME NEW f, f.t \in Silent, Sent(<<f>>),
             UNCHANGED <<place, goal, alive, text, session, refused, asked, shown, items>>
      PROVE  StepInv'
  <2>1. IsQueue(up') /\ up' = IF alive THEN Append(up, f) ELSE up
    BY <1>4, SentFacts
  <2>2. ASSUME refused = 0, alive PROVE Fits(place', goal', asked', up', text', session')
    BY <1>4, <2>1, <2>2, SilentSteps DEF StepInv
  <2>3. ListCurrent' <=> ListCurrent
    BY <1>4 DEF ListCurrent
  <2> QED BY <1>4, <2>1, <2>2, <2>3 DEF StepInv
<1>5. ASSUME NEW b \in Batches, Upload(b) PROVE StepInv'
  <2>1. [t |-> "upload", r |-> Request(b)].t \in Silent
    OBVIOUS
  <2> QED BY <1>4, <1>5, <2>1 DEF Upload, SendOnly
<1>6. ASSUME NEW b \in Batches, Inject(b) \/ Respond(b) PROVE StepInv'
  <2>1. [t |-> "input"].t \in Silent
    OBVIOUS
  <2>2. SendOnly([t |-> "input"]) \/ UNCHANGED wire
    BY <1>6 DEF Inject, Respond
  <2> QED BY <1>2, <1>4, <1>6, <2>1, <2>2 DEF Inject, Respond, SendOnly
<1>7. CASE RouteResult
  <2>1. /\ place = "relay" /\ Get /\ Head(text).t # "closed"
        /\ UNCHANGED <<place, goal, asked, session, up, refused>>
    BY <1>7 DEF RouteResult, GetOnly, Got
  <2> QED BY <2>1, RelayHears
<1>8. CASE RelaySkips
  <2>1. /\ place = "relay" /\ Get /\ Head(text).t # "closed"
        /\ UNCHANGED <<place, goal, asked, session, up, refused>>
    BY <1>8 DEF RelaySkips, GetOnly, Got
  <2> QED BY <2>1, RelayHears
<1> QED BY <1>1, <1>3, <1>5, <1>6, <1>7, <1>8 DEF Relay

LEMMA HubStep ==
  ASSUME StepInv, Hub
  PROVE  StepInv'
<1> USE DEF hub, OnlyHub
<1> USE Kinds
\* What holds of every step of the hub
<1>1. ASSUME UNCHANGED <<place, goal, alive, asked, shown, items>>, alive,
             IsQueue(up'), IsQueue(text'), refused' \in Nat,
             refused' = 0 => refused = 0,
             refused' = 0 => Fits(place, goal, asked, up', text', session')
      PROVE  StepInv'
  <2>1. refused' = 0 => ListCurrent'
    BY <1>1 DEF StepInv, ListCurrent
  <2> QED BY <1>1, <2>1 DEF StepInv
<1>2. ASSUME NEW t, Take(t), refused = 0
      PROVE  /\ Fits(place, goal, asked, up, text, session)
             /\ place = "request" => goal.op \in {"create", "delete", "reset"}
             /\ up # <<>> /\ up' = Tail(up) /\ Head(up).t = t
  BY <1>2 DEF Take, StepInv
<1>3. ASSUME NEW t, Take(t) PROVE IsQueue(up') /\ alive
  BY <1>3, QueueTail DEF Take, StepInv
<1>4. \A f : Reply(f) => IsQueue(text') /\ text' = Append(text, f)
  BY QueueAppend DEF Reply, StepInv
\* A question is answered
<1>5. ASSUME NEW t \in Calls, NEW f, Take(t), Reply(f), f.t \in {t, "error"},
             f.t = "list" => f.q = Head(up).q,
             UNCHANGED <<place, goal, alive, asked, shown, items, session, refused>>
      PROVE  StepInv'
  <2>1. refused = 0 => Fits(place, goal, asked, up', text', session')
    <3>1. SUFFICES ASSUME refused = 0
                   PROVE  Fits(place, goal, asked, up', text', session')
      OBVIOUS
    <3>2. /\ Fits(place, goal, asked, up, text, session)
          /\ place = "request" => goal.op \in {"create", "delete", "reset"}
          /\ up # <<>> /\ up' = Tail(up) /\ Head(up).t = t
      BY <1>2, <1>5, <3>1
    <3>3. text' = Append(text, f)
      BY <1>4, <1>5
    <3>4. Fits(place, goal, asked, Tail(up), Append(text, f), session)
      BY <1>5, <3>2, HubSteps DEF StepInv
    <3> QED BY <1>5, <3>2, <3>3, <3>4
  <2> QED BY <1>1, <1>3, <1>4, <1>5, <2>1 DEF StepInv
\* What needs no answer is taken
<1>6. ASSUME NEW t \in Silent, Take(t), session' = session,
             UNCHANGED <<place, goal, alive, asked, shown, items, text, refused>>
      PROVE  StepInv'
  <2>1. refused = 0 => Fits(place, goal, asked, up', text', session')
    BY <1>2, <1>6, HubSteps DEF StepInv
  <2> QED BY <1>1, <1>3, <1>6, <2>1 DEF StepInv
<1>7. CASE HubList
  <2>1. PICK f : /\ Reply(f) /\ f.t \in {"list", "error"}
                 /\ f.t = "list" => f.q = Head(up).q
    <3>1. CASE Reply([t |-> "list", q |-> Frame.q,
                      items |-> [w \in catalog |-> w[1] \in online]])
      BY <3>1 DEF Frame
    <3>2. CASE ErrorReply
      BY <3>2 DEF ErrorReply
    <3> QED BY <1>7, <3>1, <3>2 DEF HubList
  <2> QED BY <1>5, <1>7, <2>1 DEF HubList, menu
<1>8. CASE HubAgents
  <2>1. PICK f : Reply(f) /\ f.t = "agents"
    BY <1>8 DEF HubAgents
  <2> QED BY <1>5, <1>8, <2>1 DEF HubAgents, menu
<1>9. CASE HubPrefs
  <2>1. PICK f : Reply(f) /\ f.t = "prefs"
    BY <1>9 DEF HubPrefs
  <2> QED BY <1>5, <1>9, <2>1 DEF HubPrefs, menu
<1>10. CASE HubSave
  <2>1. CASE UNCHANGED <<text, refused>>
    BY <1>6, <1>10, <2>1 DEF HubSave, menu
  <2>2. CASE ErrorReply /\ refused' = refused + 1
    <3>1. refused' \in Nat /\ refused' # 0
      BY <2>2 DEF StepInv
    <3>2. IsQueue(text')
      BY <1>4, <2>2 DEF ErrorReply
    <3> QED BY <1>1, <1>3, <1>10, <3>1, <3>2 DEF HubSave, menu
  <2> QED BY <1>10, <2>1, <2>2 DEF HubSave
<1>11. CASE HubOperation
  <2>1. PICK op \in {"create", "delete", "reset"} :
          /\ Take(op)
          /\ Reply([t |-> op]) \/ ErrorReply
          /\ UNCHANGED <<place, goal, alive, asked, shown, items, session, refused>>
    BY <1>11 DEF HubOperation, menu
  <2>2. PICK f : Reply(f) /\ f.t \in {op, "error"}
    BY <2>1 DEF ErrorReply
  <2>3. f.t # "list"
    BY <2>2
  <2> QED BY <1>5, <2>1, <2>2, <2>3
<1>12. CASE HubOpen
  <2>1. Take("open") /\ UNCHANGED <<place, goal, alive, asked, shown, items, refused>>
    BY <1>12 DEF HubOpen, menu
  <2>2. CASE session' = Frame.ws /\ Reply([t |-> "opened"])
    <3>1. text' = Append(text, [t |-> "opened"]) /\ IsQueue(text')
      BY <1>4, <2>2
    <3>2. refused = 0 => Fits(place, goal, asked, up', text', session')
      BY <1>2, <2>1, <2>2, <3>1, HubSteps DEF StepInv, Frame
    <3> QED BY <1>1, <1>3, <2>1, <3>1, <3>2 DEF StepInv
  <2>3. CASE session' = session /\ ErrorReply
    <3>1. text' = Append(text, [t |-> "error"]) /\ IsQueue(text')
      BY <1>4, <2>3 DEF ErrorReply
    <3>2. refused = 0 => Fits(place, goal, asked, up', text', session')
      BY <1>2, <2>1, <2>3, <3>1, HubSteps DEF StepInv
    <3> QED BY <1>1, <1>3, <2>1, <3>1, <3>2 DEF StepInv
  <2> QED BY <1>12, <2>2, <2>3 DEF HubOpen
<1>13. CASE HubUpload
  BY <1>6, <1>13 DEF HubUpload, menu
<1>14. CASE UploadEnds
  <2>1. PICK f : Reply(f) /\ f.t = "result"
    BY <1>14 DEF UploadEnds
  <2>2. text' = Append(text, f) /\ IsQueue(text')
    BY <1>4, <2>1
  <2>3. refused = 0 => Fits(place, goal, asked, up, text', session)
    BY <1>14, <2>1, <2>2, HubSteps DEF StepInv, UploadEnds
  <2> QED BY <1>1, <1>14, <2>2, <2>3 DEF UploadEnds, StepInv, menu
<1>15. CASE HubInput
  BY <1>6, <1>15 DEF HubInput, menu
\* Only a client that ends says so.
<1>16. CASE HubClose
  <2>1. Take("close") /\ UNCHANGED <<place, goal, alive, asked, shown, items, text, refused>>
    BY <1>16 DEF HubClose, menu
  <2>2. ASSUME refused = 0, place # "over" PROVE FALSE
    <3>1. /\ Fits(place, goal, asked, up, text, session) /\ alive
          /\ up # <<>> /\ Head(up).t = "close"
          /\ place = "request" => goal.op \in {"create", "delete", "reset"}
      BY <1>2, <1>3, <2>1, <2>2
    <3>2. place \in (MenuPlaces \cup {"open", "hold", "relay"})
      BY <2>2, <3>1 DEF StepInv
    <3>3. 1 \in DOMAIN up /\ Head(up) = up[1]
      BY <3>1, QueueTail DEF StepInv
    <3>4. \A T : Only(up, T) => "close" \in T
      BY <3>1, <3>3 DEF Only
    <3>5. \A T, R : Single(up, T, R) => "close" \in T \cup R
      BY <3>1, <3>3 DEF Single
    <3>6. ~ Only(up, Silent) /\ ~ Single(up, {"open"}, Silent)
          /\ \A k \in Calls : ~ Single(up, {k}, Silent)
      BY <3>4, <3>5
    <3> QED BY <3>1, <3>2, <3>6 DEF Fits, Quiet, Asked, Opening, InSession, MenuPlaces
  <2>3. refused = 0 => Fits(place, goal, asked, up', text', session')
    BY <2>2 DEF Fits
  <2> QED BY <1>1, <1>3, <2>1, <2>3 DEF StepInv
<1> QED BY <1>7, <1>8, <1>9, <1>10, <1>11, <1>12, <1>13, <1>14, <1>15, <1>16 DEF Hub

LEMMA WorldStep ==
  ASSUME StepInv, World
  PROVE  StepInv'
<1> USE DEF hub, OnlyHub, menu
<1> USE Kinds
<1>1. ASSUME UNCHANGED <<place, goal, alive, up, text, session, refused, asked, shown, items>>
      PROVE  StepInv'
  BY <1>1 DEF StepInv, ListCurrent
\* The session ends, or its agent reports an error
<1>2. ASSUME NEW f, session # None, Reply(f),
             \/ f.t = "closed" /\ session' = None
             \/ f.t = "error" /\ session' = session,
             UNCHANGED <<place, goal, alive, up, refused, asked, shown, items>>
      PROVE  StepInv'
  <2>1. text' = Append(text, f) /\ IsQueue(text')
    BY <1>2, QueueAppend DEF Reply, StepInv
  <2>2. alive
    BY <1>2 DEF StepInv
  <2>3. ASSUME refused = 0 PROVE Fits(place, goal, asked, up, text', session')
    <3>1. /\ Fits(place, goal, asked, up, text, session) /\ IsQueue(up) /\ IsQueue(text)
          /\ place = "request" => goal.op \in {"create", "delete", "reset"}
      BY <2>2, <2>3 DEF StepInv
    <3>2. CASE f.t = "closed" /\ session' = None
      <4>1. \A h : session # None /\ h.t = "closed" =>
                    Fits(place, goal, asked, up, Append(text, h), None)
        BY <3>1, HubSteps
      <4>2. Fits(place, goal, asked, up, Append(text, f), None)
        BY <1>2, <3>2, <4>1
      <4> QED BY <2>1, <3>2, <4>2
    <3>3. CASE f.t = "error" /\ session' = session
      <4>1. Fits(place, goal, asked, up, Append(text, f), session)
        BY <1>2, <3>1, <3>3, HubSteps
      <4> QED BY <2>1, <3>3, <4>1
    <3> QED BY <1>2, <3>2, <3>3
  <2>4. refused = 0 => ListCurrent'
    BY <1>2 DEF StepInv, ListCurrent
  <2> QED BY <1>2, <2>1, <2>2, <2>3, <2>4 DEF StepInv
<1>3. \A r : [t |-> "closed", reason |-> r].t = "closed"
  OBVIOUS
<1>4. CASE ToolEnds
  BY <1>2, <1>3, <1>4 DEF ToolEnds, EndSession
<1>5. CASE ToolFails
  <2>1. [t |-> "error"].t = "error"
    OBVIOUS
  <2> QED BY <1>2, <1>5, <2>1 DEF ToolFails, ErrorReply
<1>6. CASE AgentDrops
  <2>1. CASE session # None /\ EndSession("agent")
    BY <1>2, <1>3, <2>1 DEF EndSession
  <2>2. CASE UNCHANGED <<place, goal, alive, up, text, session, refused, asked, shown, items>>
    BY <1>1, <2>2
  <2> QED BY <1>6, <2>1, <2>2 DEF AgentDrops
<1>7. CASE AgentReturns \/ AdminDeletes \/ WebLoads \/ WebSaves
  BY <1>1, <1>7 DEF AgentReturns, AdminDeletes, WebLoads, WebSaves, OnlyWeb, wire
<1>8. CASE WireDies
  <2>1. /\ alive /\ alive' = FALSE /\ up' = <<>> /\ session' = None
        /\ UNCHANGED <<place, goal, refused, asked, shown, items>>
    BY <1>8 DEF WireDies
  <2>2. PICK n \in 0 .. Len(text) : text' = SubSeq(text, 1, n)
    BY <1>8 DEF WireDies
  <2>3. /\ IsQueue(text') /\ DOMAIN text = 1 .. Len(text) /\ Len(text) \in Nat
        /\ DOMAIN text' = 1 .. n /\ \A i \in 1 .. n : text'[i] = text[i]
    BY <2>2, QueuePrefix DEF StepInv
  <2>4. DOMAIN text' \subseteq DOMAIN text
    BY <2>2, <2>3
  <2>5. ASSUME refused = 0 PROVE Left(place, asked, text')
    <3>1. Fits(place, goal, asked, up, text, session)
      BY <2>1, <2>5 DEF StepInv
    <3>2. CASE place = "list"
      <4>1. Asked(up, text, "list") /\ Numbered(text, asked)
        BY <3>1, <3>2 DEF Fits
      <4>2. ASSUME NEW i \in DOMAIN text, text[i].t = "list"
            PROVE  /\ text[i].q = asked
                   /\ \A j \in DOMAIN text \ {i} : text[j].t = "result"
        <5>1. Single(text, {"list", "error"}, Noise)
          BY <4>1, <4>2 DEF Asked, Only
        <5>2. PICK k \in DOMAIN text :
                \A j \in DOMAIN text \ {k} : text[j].t \in Noise
          BY <5>1 DEF Single
        <5>3. i = k
          BY <4>2, <5>2
        <5> QED BY <4>1, <4>2, <5>2, <5>3 DEF Numbered
      <4>3. ASSUME NEW i \in DOMAIN text', text'[i].t = "list"
            PROVE  /\ text'[i].q = asked
                   /\ \A j \in DOMAIN text' \ {i} : text'[j].t = "result"
        BY <2>3, <2>4, <4>2, <4>3
      <4> QED BY <3>2, <4>3 DEF Left
    <3>3. CASE place \notin {"list", "over"}
      <4>1. NoList(text)
        <5>1. place \in {"picker", "confirm", "message", "agent", "hold", "prefs",
                         "agents", "recheck", "request", "open", "relay"}
          BY <2>1, <3>3 DEF StepInv, MenuPlaces
        <5>2. \A T : Only(text, T) /\ "list" \notin T => NoList(text)
          BY DEF Only, NoList
        <5>3. \A k \in Calls \ {"list"} : Asked(up, text, k) => NoList(text)
          <6>1. SUFFICES ASSUME NEW k \in Calls \ {"list"}, Asked(up, text, k)
                         PROVE  NoList(text)
            OBVIOUS
          <6>2. CASE Only(text, Noise)
            BY <5>2, <6>2
          <6>3. CASE Single(text, {k, "error"}, Noise)
            BY <6>1, <6>3 DEF Single, NoList
          <6> QED BY <6>1, <6>2, <6>3 DEF Asked
        <5>4. InSession(up, text, session, goal.ws) => NoList(text)
          BY <5>2 DEF InSession
        <5>5. Opening(up, text, session, goal.ws) => NoList(text)
          <6>1. Single(text, {"error"}, Noise) => NoList(text)
            BY DEF Single, NoList
          <6> QED BY <5>2, <5>4, <6>1 DEF Opening
        <5>6. Quiet(up, text) => NoList(text)
          BY <5>2 DEF Quiet
        <5>7. place = "request" => goal.op \in Calls \ {"list"}
          BY DEF StepInv
        <5> QED BY <3>1, <5>1, <5>3, <5>4, <5>5, <5>6, <5>7 DEF Fits
      <4>2. NoList(text')
        BY <2>3, <2>4, <4>1 DEF NoList
      <4> QED BY <4>2, LeftAny
    <3>4. CASE place = "over"
      BY <3>4 DEF Left
    <3> QED BY <3>2, <3>3, <3>4
  <2>6. refused = 0 => ListCurrent'
    BY <2>1 DEF StepInv, ListCurrent
  <2>7. IsQueue(up')
    BY <2>1, QueueStart
  <2> QED BY <2>1, <2>3, <2>5, <2>6, <2>7 DEF StepInv
<1> QED BY <1>4, <1>5, <1>6, <1>7, <1>8 DEF World

LEMMA StepStart ==
  ASSUME Init
  PROVE  StepInv
<1>1. /\ place = "prefs" /\ alive /\ asked = 0 /\ refused = 0 /\ session = None
      /\ text = <<>> /\ up = <<[t |-> "prefs"]>>
  BY DEF Init
<1>2. /\ IsQueue(up) /\ IsQueue(text) /\ DOMAIN text = {} /\ DOMAIN up = {1}
      /\ up[1].t = "prefs"
  BY <1>1, QueueStart
<1>3. Single(up, {"prefs"}, Silent) /\ Only(text, Noise)
  BY <1>2 DEF Single, Only
<1>4. Fits(place, goal, asked, up, text, session)
  BY <1>1, <1>3 DEF Fits, Asked
<1>5. ListCurrent
  BY <1>1 DEF ListCurrent
<1> QED BY <1>1, <1>2, <1>4, <1>5 DEF StepInv, MenuPlaces

\* On a connection on which no save was refused, client and hub are in step:
\* the wire carries at most one question, or its answer, the one that the
\* client waits for, and frames nobody answers; a session that is open on the
\* hub is the one the client is in or is waiting for, and its end comes after
\* what was sent before.
THEOREM InStep == Spec => []StepInv
<1>1. Init => StepInv
  BY StepStart
<1>2. StepInv /\ [Next]_vars => StepInv'
  <2>1. SUFFICES ASSUME StepInv, [Next]_vars PROVE StepInv'
    OBVIOUS
  <2>2. CASE UNCHANGED vars
    BY <2>1, <2>2 DEF StepInv, ListCurrent, vars, menu, wire, hub, history
  <2>3. CASE Next
    BY <2>1, <2>3, MenuStep, SkipStep, SessionStep, RelayStep, HubStep, WorldStep
       DEF Next
  <2> QED BY <2>1, <2>2, <2>3
<1> QED BY <1>1, <1>2, PTL DEF Spec

\* The picker shows the answer to its latest question.
THEOREM PickerIsCurrent == Spec => []ListCurrent
<1>1. StepInv => ListCurrent
  BY DEF StepInv, ListCurrent
<1> QED BY <1>1, InStep, PTL

\* Client and hub agree on the session of a live connection.
THEOREM OneSession == Spec => []SessionAgreed
<1>1. StepInv => SessionAgreed
  <2>1. SUFFICES ASSUME StepInv, alive, refused = 0
                 PROVE  /\ place = "relay" => session = goal.ws \/ Ended(text)
                        /\ place \in MenuPlaces => session = None
    BY DEF SessionAgreed, Ended
  <2>2. Fits(place, goal, asked, up, text, session)
    BY <2>1 DEF StepInv
  <2> QED BY <2>2 DEF Fits, InSession, MenuPlaces
<1> QED BY <1>1, InStep, PTL

-----------------------------------------------------------------------------
(* Which frames are under way                                              *)

\* The frames of a kind in a queue.
Held(q, t) == {q[i] : i \in {j \in DOMAIN q : q[j].t = t}}

LEMMA HeldSteps ==
  ASSUME NEW q, IsQueue(q), NEW t
  PROVE  /\ \A f : Held(Append(q, f), t) = Held(q, t) \cup IF f.t = t THEN {f} ELSE {}
         /\ q # <<>> =>
              /\ Held(Tail(q), t) \subseteq Held(q, t)
              /\ Held(q, t) \subseteq Held(Tail(q), t) \cup {Head(q)}
              /\ Head(q).t # t => Held(q, t) = Held(Tail(q), t)
              /\ Head(q).t = t => Head(q) \in Held(q, t)
         /\ \A n \in 0 .. Len(q) : Held(SubSeq(q, 1, n), t) \subseteq Held(q, t)
<1>1. ASSUME NEW f
      PROVE  Held(Append(q, f), t) = Held(q, t) \cup IF f.t = t THEN {f} ELSE {}
  <2>1. /\ Len(q) \in Nat /\ DOMAIN q = 1 .. Len(q)
        /\ DOMAIN Append(q, f) = 1 .. Len(q) + 1
        /\ \A i \in 1 .. Len(q) : Append(q, f)[i] = q[i]
        /\ Append(q, f)[Len(q) + 1] = f
    BY QueueAppend
  <2>2. ASSUME NEW g
        PROVE  g \in Held(Append(q, f), t) <=> (g \in Held(q, t) \/ (f.t = t /\ g = f))
    <3>1. g \in Held(Append(q, f), t) <=>
            \E i \in 1 .. Len(q) + 1 : Append(q, f)[i].t = t /\ g = Append(q, f)[i]
      BY <2>1 DEF Held
    <3>2. g \in Held(q, t) <=> \E i \in 1 .. Len(q) : q[i].t = t /\ g = q[i]
      BY <2>1 DEF Held
    <3>3. (\E i \in 1 .. Len(q) + 1 : Append(q, f)[i].t = t /\ g = Append(q, f)[i])
          <=> \/ \E i \in 1 .. Len(q) : q[i].t = t /\ g = q[i]
              \/ f.t = t /\ g = f
      BY <2>1
    <3> QED BY <3>1, <3>2, <3>3
  <2> QED BY <2>2
<1>2. ASSUME q # <<>>
      PROVE  /\ Held(Tail(q), t) \subseteq Held(q, t)
             /\ Held(q, t) \subseteq Held(Tail(q), t) \cup {Head(q)}
             /\ Head(q).t # t => Held(q, t) = Held(Tail(q), t)
             /\ Head(q).t = t => Head(q) \in Held(q, t)
  <2>1. /\ Len(q) \in Nat \ {0} /\ DOMAIN q = 1 .. Len(q)
        /\ DOMAIN Tail(q) = 1 .. Len(q) - 1
        /\ \A i \in 1 .. Len(q) - 1 : Tail(q)[i] = q[i + 1]
        /\ Head(q) = q[1]
    BY <1>2, QueueTail
  <2>2. ASSUME NEW i \in DOMAIN Tail(q), Tail(q)[i].t = t PROVE Tail(q)[i] \in Held(q, t)
    <3>1. i + 1 \in DOMAIN q /\ q[i + 1] = Tail(q)[i]
      BY <2>1
    <3> QED BY <2>2, <3>1 DEF Held
  <2>3. ASSUME NEW i \in DOMAIN q, q[i].t = t
        PROVE  q[i] \in Held(Tail(q), t) \/ (q[i] = Head(q) /\ Head(q).t = t)
    <3>1. CASE i = 1
      BY <2>1, <2>3, <3>1
    <3>2. CASE i # 1
      <4>1. i - 1 \in DOMAIN Tail(q) /\ Tail(q)[i - 1] = q[i]
        BY <2>1, <3>2
      <4> QED BY <2>3, <4>1 DEF Held
    <3> QED BY <3>1, <3>2
  <2>4. Head(q).t = t => Head(q) \in Held(q, t)
    BY <2>1 DEF Held
  <2>5. Held(Tail(q), t) \subseteq Held(q, t)
    BY <2>2 DEF Held
  <2>6. \A g \in Held(q, t) : g \in Held(Tail(q), t) \/ (g = Head(q) /\ Head(q).t = t)
    BY <2>3 DEF Held
  <2> QED BY <2>4, <2>5, <2>6
<1>3. ASSUME NEW n \in 0 .. Len(q) PROVE Held(SubSeq(q, 1, n), t) \subseteq Held(q, t)
  <2>1. /\ DOMAIN q = 1 .. Len(q) /\ Len(q) \in Nat
        /\ DOMAIN SubSeq(q, 1, n) = 1 .. n
        /\ \A i \in 1 .. n : SubSeq(q, 1, n)[i] = q[i]
    BY QueuePrefix
  <2> QED BY <2>1 DEF Held
<1> QED BY <1>1, <1>2, <1>3

LEMMA HeldStart ==
  ASSUME NEW t
  PROVE  /\ Held(<<>>, t) = {}
         /\ \A f : f.t # t => Held(<<f>>, t) = {}
BY QueueStart DEF Held

\* What sending and reading change of them.
LEMMA FramesSent ==
  ASSUME StepInv, NEW f, Sent(<<f>>), NEW t
  PROVE  Held(up', t) = Held(up, t) \cup IF alive /\ f.t = t THEN {f} ELSE {}
<1>1. up' = IF alive THEN Append(up, f) ELSE up
  BY SentFacts
<1>2. Held(Append(up, f), t) = Held(up, t) \cup IF f.t = t THEN {f} ELSE {}
  BY HeldSteps DEF StepInv
<1> QED BY <1>1, <1>2

LEMMA FramesGot ==
  ASSUME StepInv, Get, NEW t
  PROVE  /\ Held(text', t) \subseteq Held(text, t)
         /\ Held(text, t) \subseteq Held(text', t) \cup {Head(text)}
         /\ Head(text).t # t => Held(text', t) = Held(text, t)
         /\ Head(text).t = t => Head(text) \in Held(text, t)
<1>1. text # <<>> /\ text' = Tail(text) /\ IsQueue(text)
  BY DEF Get, StepInv
<1> QED BY <1>1, HeldSteps

LEMMA FramesTaken ==
  ASSUME StepInv, NEW k, Take(k), NEW t
  PROVE  /\ Held(up', t) \subseteq Held(up, t)
         /\ Held(up, t) \subseteq Held(up', t) \cup {Head(up)}
         /\ k # t => Held(up', t) = Held(up, t)
         /\ k = t => Head(up) \in Held(up, t)
<1>1. up # <<>> /\ up' = Tail(up) /\ Head(up).t = k /\ IsQueue(up)
  BY DEF Take, StepInv
<1> QED BY <1>1, HeldSteps

LEMMA FramesReplied ==
  ASSUME StepInv, NEW f, Reply(f), NEW t
  PROVE  Held(text', t) = Held(text, t) \cup IF f.t = t THEN {f} ELSE {}
BY HeldSteps DEF StepInv, Reply

\* What a step of the menu changes of the preferences' copies.
PrefsKept ==
  /\ Held(up', "save") \subseteq Held(up, "save")
  /\ prefs' = prefs /\ (place # "prefs" \/ ~ alive)
PrefsDropped ==
  /\ Held(up', "save") \subseteq Held(up, "save")
  /\ prefs' = NoPreferences /\ place' \notin MenuPlaces \ {"prefs"}
PrefsCopied ==
  /\ Held(up', "save") \subseteq Held(up, "save")
  /\ place = "prefs"
  /\ \/ "load" \in excused' /\ prefs' = NoPreferences
     \/ \E f \in Held(text, "prefs") : prefs' = f.data
PrefsChanged ==
  /\ place = "picker" /\ \E k, s : prefs' = apply_order(prefs, k, s)
  /\ \A f \in Held(up', "save") :
       f \in Held(up, "save") \/ (alive /\ f.data = prefs')

LEMMA MenuFrames ==
  ASSUME StepInv, Menu
  PROVE  /\ place \in MenuPlaces /\ place' \in MenuPlaces \cup {"open", "over"}
         /\ UNCHANGED <<alive, job, waiters, box, uploads, stored, page, webSaved>>
         /\ excused \subseteq excused'
         /\ \A t : Held(text', t) \subseteq Held(text, t)
         /\ Held(up', "upload") \subseteq Held(up, "upload")
         /\ PrefsKept \/ PrefsDropped \/ PrefsCopied \/ PrefsChanged
<1> USE DEF OnlyMenu, hub, menu, drop, wire, bounds, history
<1> DEFINE Frames == \A t : Held(text', t) \subseteq Held(text, t)
           Up(t) == Held(up', t) \subseteq Held(up, t)
           Rest == /\ UNCHANGED <<alive, job, waiters, box, uploads, stored, page, webSaved>>
                   /\ excused \subseteq excused'
<1>1. ASSUME NEW f, Sent(<<f>>), f.t \notin {"save", "upload"}
      PROVE  Up("save") /\ Up("upload")
  BY <1>1, FramesSent
<1>2. Get => Frames
  BY FramesGot
<1>3. text' = text => Frames
  OBVIOUS
<1>4. up' = up => Up("save") /\ Up("upload")
  OBVIOUS
<1>5. AskList.t = "list"
  BY DEF AskList
<1>6. \A w : Open(w).t = "open"
  BY DEF Open
<1>7. {"prefs", "list", "picker", "confirm", "message", "agents",
       "agent", "request", "recheck"} = MenuPlaces /\ "open" \notin MenuPlaces
  BY DEF MenuPlaces
<1>8. CASE PrefsLoaded
  <2>1. /\ place = "prefs" /\ place' = "list" /\ Get /\ Sent(<<AskList>>)
        /\ text # <<>> /\ Head(text).t \in {"prefs", "error"} /\ Rest
    BY <1>8 DEF PrefsLoaded, GetAndSend, Relist, Got, Get, Befalls
  <2>2. \/ "load" \in excused' /\ prefs' = NoPreferences
        \/ \E f \in Held(text, "prefs") : prefs' = f.data
    <3>1. CASE Head(text).t = "prefs"
      <4>1. Head(text) \in Held(text, "prefs")
        BY <2>1, <3>1, FramesGot
      <4>2. prefs' = Head(text).data
        BY <1>8, <2>1, <3>1 DEF PrefsLoaded, Got
      <4> QED BY <4>1, <4>2
    <3>2. CASE Head(text).t = "error"
      BY <1>8, <2>1, <3>2 DEF PrefsLoaded, Got, Befalls
    <3> QED BY <2>1, <3>1, <3>2
  <2>3. Frames /\ Up("save") /\ Up("upload")
    BY <1>1, <1>2, <1>5, <2>1
  <2> QED BY <1>7, <2>1, <2>2, <2>3 DEF PrefsCopied
<1>9. CASE PrefsLost
  <2>1. /\ place = "prefs" /\ place' = "list" /\ ~ alive /\ prefs' = prefs
        /\ UNCHANGED <<up, text>> /\ Rest
    BY <1>9 DEF PrefsLost, Relist, Lost
  <2> QED BY <1>3, <1>4, <1>7, <2>1 DEF PrefsKept
<1>10. CASE ListShown
  <2>1. /\ place = "list" /\ place' = "picker" /\ Get /\ UNCHANGED <<up, prefs>> /\ Rest
    BY <1>10 DEF ListShown, Show, GetOnly, Get
  <2> QED BY <1>2, <1>4, <1>7, <2>1 DEF PrefsKept
<1>11. CASE ListLost
  <2>1. /\ place \in {"list", "agents", "request"} /\ place' = "over"
        /\ UNCHANGED <<up, text, prefs>> /\ Rest
    BY <1>11 DEF ListLost
  <2> QED BY <1>3, <1>4, <1>7, <2>1 DEF PrefsKept
\* A frame is sent that is neither
<1>12. ASSUME NEW f, Sent(<<f>>), f.t \notin {"save", "upload"},
              UNCHANGED <<text, prefs>>, place \in MenuPlaces \ {"prefs"},
              place' \in MenuPlaces \cup {"over"}, Rest
       PROVE  /\ place \in MenuPlaces /\ place' \in MenuPlaces \cup {"open", "over"}
              /\ Rest /\ Frames /\ Up("upload") /\ PrefsKept
  BY <1>1, <1>3, <1>12 DEF PrefsKept
<1>13. CASE Quit
  <2>1. /\ Sent(<<[t |-> "close"]>>) /\ [t |-> "close"].t \notin {"save", "upload"}
        /\ UNCHANGED <<text, prefs>> /\ place = "picker" /\ place' = "over" /\ Rest
    BY <1>13 DEF Quit, SendOnly
  <2> QED BY <1>7, <1>12, <2>1
<1>14. CASE Move \/ Decline \/ Dismiss
  <2>1. /\ Sent(<<AskList>>) /\ UNCHANGED <<text, prefs>>
        /\ place \in {"picker", "confirm", "agent", "message"} /\ place' = "list" /\ Rest
    BY <1>14 DEF Move, Decline, Dismiss, SendOnly, Relist
  <2> QED BY <1>5, <1>7, <1>12, <2>1
<1>15. CASE AskConfirm
  <2>1. /\ UNCHANGED <<up, text, prefs>> /\ place = "picker" /\ place' = "confirm" /\ Rest
    BY <1>15 DEF AskConfirm
  <2> QED BY <1>3, <1>4, <1>7, <2>1 DEF PrefsKept
<1>16. CASE Confirm
  <2>1. /\ Sent(<<[t |-> goal.op, ws |-> goal.ws]>>)
        /\ goal.op \in {"create", "delete", "reset"} /\ UNCHANGED <<text, prefs>>
        /\ place = "confirm" /\ place' = "request" /\ Rest
    BY <1>16 DEF Confirm, SendOnly, StepInv
  <2> QED BY <1>7, <1>12, <2>1
<1>17. ASSUME NEW o, NEW w, NEW p, Rearranged(o, w, p), place = "picker",
              \E k, s : p = apply_order(prefs, k, s), Rest
       PROVE  /\ place' = "list" /\ Frames /\ Up("upload") /\ PrefsChanged
  <2> DEFINE f == [t |-> "save", data |-> p]
             v == Append(up, f)
  <2>1. /\ IsQueue(up) /\ text' = text /\ prefs' = p /\ place' = "list"
        /\ up' = IF alive THEN up \o <<f, AskList>> ELSE up
    BY <1>17 DEF Rearranged, Relist, Sent, StepInv
  <2>2. IsQueue(v) /\ up \o <<f>> = v /\ v \o <<AskList>> = Append(v, AskList)
    <3>1. IsQueue(v) /\ up \o <<f>> = v
      BY <2>1, QueueAppend
    <3> HIDE DEF v
    <3> QED BY <3>1, QueueAppend
  <2>3. up \o <<f, AskList>> = Append(v, AskList)
    <3> DEFINE S == ToSet(up) \cup {f, AskList}
    <3>1. up \in Seq(S)
      <4>1. up \in Seq(ToSet(up)) /\ ToSet(up) \subseteq S
        BY <2>1 DEF IsQueue
      <4> HIDE DEF S
      <4> QED BY <4>1
    <3>2. f \in S /\ AskList \in S
      OBVIOUS
    <3> HIDE DEF S, f
    <3> QED BY <3>1, <3>2
  <2>4. ASSUME NEW t PROVE Held(Append(v, AskList), t) \subseteq
                              Held(up, t) \cup (IF t = "save" THEN {f} ELSE {})
                                          \cup (IF t = "list" THEN {AskList} ELSE {})
    <3>1. f.t = "save"
      OBVIOUS
    <3> HIDE DEF f
    <3>2. Held(v, t) = Held(up, t) \cup IF f.t = t THEN {f} ELSE {}
      BY <2>1, HeldSteps
    <3> HIDE DEF v
    <3>3. Held(Append(v, AskList), t) = Held(v, t) \cup IF AskList.t = t THEN {AskList} ELSE {}
      BY <2>2, HeldSteps
    <3> QED BY <1>5, <3>1, <3>2, <3>3
  <2>5. Up("upload")
    BY <2>1, <2>3, <2>4
  <2>6. f.data = p
    OBVIOUS
  <2>7. \A g \in Held(up', "save") : g \in Held(up, "save") \/ (alive /\ g = f)
    <3>1. Held(Append(v, AskList), "save") \subseteq Held(up, "save") \cup {f}
      BY <2>4
    <3> HIDE DEF f, v
    <3> QED BY <2>1, <2>3, <3>1
  <2>8. \A g \in Held(up', "save") : g \in Held(up, "save") \/ (alive /\ g.data = prefs')
    <3> HIDE DEF f
    <3> QED BY <2>1, <2>6, <2>7
  <2> QED BY <1>3, <1>17, <2>1, <2>5, <2>8 DEF PrefsChanged
<1>18. CASE TogglePin
  <2>1. /\ Rearranged(toggled_keys(prefs, rows, Chosen), Chosen, toggle_pin(prefs, rows, Chosen))
        /\ place = "picker" /\ \E k, s : toggle_pin(prefs, rows, Chosen) = apply_order(prefs, k, s)
        /\ Rest
    BY <1>18 DEF TogglePin, toggle_pin, Rearranged
  <2> QED BY <1>7, <1>17, <2>1
<1>19. CASE MoveWorkspace
  <2>1. PICK u \in BOOLEAN :
          /\ Rearranged(moved_keys(prefs, rows, Chosen, u), Chosen,
                        move_workspace(prefs, rows, Chosen, u))
          /\ place = "picker"
          /\ \E k, s : move_workspace(prefs, rows, Chosen, u) = apply_order(prefs, k, s)
          /\ Rest
    BY <1>19 DEF MoveWorkspace, move_workspace, Rearranged
  <2> QED BY <1>7, <1>17, <2>1
<1>20. CASE NameGiven
  <2>1. /\ Sent(<<[t |-> "agents"]>>) /\ [t |-> "agents"].t \notin {"save", "upload"}
        /\ UNCHANGED <<text, prefs>> /\ place = "picker" /\ place' = "agents" /\ Rest
    BY <1>20 DEF NameGiven, SendOnly
  <2> QED BY <1>7, <1>12, <2>1
<1>21. CASE AgentsListed
  <2>1. /\ place = "agents" /\ place' \in {"over", "message", "agent"} /\ Get
        /\ UNCHANGED <<up, prefs>> /\ Rest
    BY <1>21 DEF AgentsListed, GetOnly, Get
  <2> QED BY <1>2, <1>4, <1>7, <2>1 DEF PrefsKept
<1>22. CASE AgentPicked
  <2>1. /\ Sent(<<[t |-> "create", ws |-> goal.ws]>>)
        /\ [t |-> "create", ws |-> goal.ws].t \notin {"save", "upload"}
        /\ UNCHANGED <<text, prefs>> /\ place = "agent" /\ place' = "request" /\ Rest
    BY <1>22 DEF AgentPicked, SendOnly
  <2> QED BY <1>7, <1>12, <2>1
<1>23. CASE Requested
  <2>1. /\ place = "request" /\ place' = "list" /\ Get /\ Sent(<<AskList>>)
        /\ prefs' = prefs /\ Rest
    BY <1>23 DEF Requested, GetAndSend, Relist, Get
  <2>2. Frames /\ Up("save") /\ Up("upload")
    BY <1>1, <1>2, <1>5, <2>1
  <2> QED BY <1>7, <2>1, <2>2 DEF PrefsKept
<1>24. CASE RequestRefused
  <2>1. /\ place = "request" /\ place' = "message" /\ Get /\ UNCHANGED <<up, prefs>> /\ Rest
    BY <1>24 DEF RequestRefused, GetOnly, Get
  <2> QED BY <1>2, <1>4, <1>7, <2>1 DEF PrefsKept
<1>25. CASE Pick
  <2>1. place = "picker" /\ Rest
    BY <1>25 DEF Pick, SendOnly
  <2>2. CASE LeaveMenu(Chosen) /\ SendOnly(Open(Chosen))
    <3>1. /\ place' = "open" /\ prefs' = NoPreferences /\ Sent(<<Open(Chosen)>>) /\ text' = text
      BY <2>2 DEF LeaveMenu, SendOnly
    <3>2. Frames /\ Up("save") /\ Up("upload")
      BY <1>1, <1>3, <1>6, <3>1
    <3> QED BY <1>7, <2>1, <3>1, <3>2 DEF PrefsDropped
  <2>3. CASE place' = "recheck" /\ SendOnly([t |-> "agents"]) /\ UNCHANGED menu
    <3>1. /\ Sent(<<[t |-> "agents"]>>) /\ [t |-> "agents"].t \notin {"save", "upload"}
          /\ UNCHANGED <<text, prefs>>
      BY <2>3 DEF SendOnly
    <3> QED BY <1>7, <1>12, <2>1, <2>3, <3>1
  <2> QED BY <1>25, <2>2, <2>3 DEF Pick
<1>26. CASE Rechecked
  <2>1. place = "recheck"
    BY <1>26 DEF Rechecked
  <2>2. CASE LeaveMenu(goal.ws) /\ GetAndSend(Open(goal.ws))
    <3>1. /\ place' = "open" /\ prefs' = NoPreferences /\ Sent(<<Open(goal.ws)>>) /\ Get /\ Rest
      BY <1>26, <2>2 DEF LeaveMenu, GetAndSend, Get, Rechecked
    <3>2. Frames /\ Up("save") /\ Up("upload")
      BY <1>1, <1>2, <1>6, <3>1
    <3> QED BY <1>7, <2>1, <3>1, <3>2 DEF PrefsDropped
  <2>3. CASE place' = "message" /\ UNCHANGED menu /\ (GetOnly \/ UNCHANGED wire)
    <3>1. UNCHANGED <<up, prefs>> /\ (Get \/ text' = text) /\ Rest
      BY <1>26, <2>3 DEF Rechecked, GetOnly, Get
    <3>2. Frames /\ Up("save") /\ Up("upload")
      BY <1>2, <1>3, <1>4, <3>1
    <3> QED BY <1>7, <2>1, <2>3, <3>1, <3>2 DEF PrefsKept
  <2> QED BY <1>26, <2>2, <2>3 DEF Rechecked
<1> QED BY <1>8, <1>9, <1>10, <1>11, <1>13, <1>14, <1>15, <1>16, <1>18, <1>19,
           <1>20, <1>21, <1>22, <1>23, <1>24, <1>25, <1>26 DEF Menu

-----------------------------------------------------------------------------
(* The fields of the web terminal                                          *)

\* The copies of the preferences that are or may become the row.
Copies == {stored} \cup {f.data : f \in Held(text, "prefs") \cup Held(up, "save")}

WebInv ==
  /\ \A d \in Copies \cup {prefs, page} : "web" \in DOMAIN d
  /\ excused \cap {"load", "web"} = {} =>
       /\ \A d \in Copies : d.web = webSaved
       /\ alive /\ place \in MenuPlaces \ {"prefs"} => prefs.web = webSaved

\* Pinning and moving change the order and nothing else.
LEMMA OrderApplied ==
  ASSUME NEW p, "web" \in DOMAIN p, NEW k, NEW s
  PROVE  "web" \in DOMAIN apply_order(p, k, s) /\ apply_order(p, k, s).web = p.web
BY DEF apply_order

\* No copy comes to be that was not there.
LEMMA WebKept ==
  ASSUME WebInv, UNCHANGED <<page, webSaved>>, excused \subseteq excused',
         Copies' \subseteq Copies, prefs' \in {prefs, NoPreferences},
         alive' /\ place' \in MenuPlaces \ {"prefs"} =>
           prefs' = prefs /\ alive /\ place \in MenuPlaces \ {"prefs"}
  PROVE  WebInv'
<1>1. "web" \in DOMAIN NoPreferences
  BY DEF NoPreferences
<1> QED BY <1>1 DEF WebInv

LEMMA FewerCopies ==
  ASSUME stored' = stored, Held(text', "prefs") \subseteq Held(text, "prefs"),
         Held(up', "save") \subseteq Held(up, "save")
  PROVE  Copies' \subseteq Copies
BY DEF Copies

LEMMA WebMenu ==
  ASSUME StepInv, WebInv, Menu
  PROVE  WebInv'
<1>1. /\ place \in MenuPlaces /\ place' \in MenuPlaces \cup {"open", "over"}
      /\ UNCHANGED <<alive, stored, page, webSaved>> /\ excused \subseteq excused'
      /\ Held(text', "prefs") \subseteq Held(text, "prefs")
      /\ PrefsKept \/ PrefsDropped \/ PrefsCopied \/ PrefsChanged
  BY MenuFrames
<1>2. CASE PrefsKept
  BY <1>1, <1>2, FewerCopies, WebKept DEF PrefsKept
<1>3. CASE PrefsDropped
  BY <1>1, <1>3, FewerCopies, WebKept DEF PrefsDropped
<1>4. CASE PrefsCopied
  <2>1. Copies' \subseteq Copies
    BY <1>1, <1>4, FewerCopies DEF PrefsCopied
  <2>2. CASE "load" \in excused' /\ prefs' = NoPreferences
    <3>1. "web" \in DOMAIN NoPreferences
      BY DEF NoPreferences
    <3> QED BY <1>1, <2>1, <2>2, <3>1 DEF WebInv
  <2>3. CASE \E f \in Held(text, "prefs") : prefs' = f.data
    <3>1. prefs' \in Copies
      BY <2>3 DEF Copies
    <3> QED BY <1>1, <2>1, <3>1 DEF WebInv
  <2> QED BY <1>4, <2>2, <2>3 DEF PrefsCopied
<1>5. CASE PrefsChanged
  <2>1. "web" \in DOMAIN prefs' /\ prefs'.web = prefs.web /\ place = "picker"
    BY <1>5, OrderApplied DEF PrefsChanged, WebInv
  <2>2. Copies' \subseteq Copies \cup (IF alive THEN {prefs'} ELSE {})
    BY <1>1, <1>5 DEF PrefsChanged, Copies
  <2>3. ASSUME excused' \cap {"load", "web"} = {}
        PROVE  /\ \A d \in Copies' : d.web = webSaved
               /\ alive' => prefs'.web = webSaved
    <3>1. /\ \A d \in Copies : d.web = webSaved
          /\ alive => prefs.web = webSaved
      BY <1>1, <2>1, <2>3 DEF WebInv, MenuPlaces
    <3> QED BY <1>1, <2>1, <2>2, <3>1
  <2>4. \A d \in Copies' \cup {prefs'} : "web" \in DOMAIN d
    BY <2>1, <2>2 DEF WebInv
  <2> QED BY <1>1, <2>3, <2>4 DEF WebInv
<1> QED BY <1>1, <1>2, <1>3, <1>4, <1>5

\* Out of the menu nothing is saved.
LEMMA OtherFrames ==
  ASSUME StepInv, Skip \/ Session \/ Relay
  PROVE  /\ UNCHANGED <<stored, page, webSaved, excused, uploads>>
         /\ \A t : Held(text', t) \subseteq Held(text, t)
         /\ Held(up', "save") \subseteq Held(up, "save")
         /\ \/ prefs' = prefs /\ place' = place /\ alive' = alive
            \/ prefs' \in {prefs, NoPreferences} /\ place' \notin MenuPlaces \ {"prefs"}
<1> USE DEF hub, menu, drop, wire, bounds, history, OnlyDrop
<1> DEFINE Rest == UNCHANGED <<stored, page, webSaved, excused, uploads>>
           Frames == \A t : Held(text', t) \subseteq Held(text, t)
           Up == Held(up', "save") \subseteq Held(up, "save")
           Same == prefs' = prefs /\ place' = place /\ alive' = alive
           Out == prefs' \in {prefs, NoPreferences} /\ place' \notin MenuPlaces \ {"prefs"}
<1>1. ASSUME NEW f, Sent(<<f>>), f.t # "save" PROVE Up
  BY <1>1, FramesSent
<1>2. Get => Frames
  BY FramesGot
<1>3. text' = text => Frames
  OBVIOUS
<1>4. up' = up => Up
  OBVIOUS
<1>5. \A w : Open(w).t = "open"
  BY DEF Open
<1>6. \A p \in {"open", "hold", "relay", "redial", "over", "prefs"} :
        p \notin MenuPlaces \ {"prefs"}
  BY DEF MenuPlaces
<1>7. CASE Skip
  <2>1. Rest /\ Same /\ Get /\ up' = up
    BY <1>7 DEF Skip, GetOnly, Get
  <2> QED BY <1>2, <1>4, <2>1
<1>8. CASE Opened \/ OpenRefused
  <2>1. Rest /\ prefs' = prefs /\ place' \in {"relay", "hold"} /\ Get /\ up' = up
    BY <1>8 DEF Opened, OpenRefused, GetOnly
  <2> QED BY <1>2, <1>4, <1>6, <2>1
<1>9. CASE TryAgain
  <2>1. Rest /\ prefs' = prefs /\ place' = "open" /\ Sent(<<Open(goal.ws)>>) /\ text' = text
    BY <1>9 DEF TryAgain, SendOnly
  <2> QED BY <1>1, <1>3, <1>5, <1>6, <2>1
<1>10. CASE GiveUp
  <2>1. /\ Rest /\ prefs' = NoPreferences /\ place' = "prefs" /\ text' = text
        /\ Sent(<<[t |-> "prefs"]>>)
    BY <1>10 DEF GiveUp, EnterMenu, SendOnly
  <2> QED BY <1>1, <1>3, <1>6, <2>1
<1>11. CASE HubLost \/ ReconnectCancelled
  <2>1. Rest /\ prefs' = prefs /\ place' \in {"redial", "over"} /\ UNCHANGED <<up, text>>
    BY <1>11 DEF HubLost, ReconnectCancelled
  <2> QED BY <1>3, <1>4, <1>6, <2>1
<1>12. CASE Reconnected
  <2>1. /\ Rest /\ prefs' = prefs /\ place' = "open" /\ text' = <<>>
        /\ up' = <<Open(goal.ws)>>
    BY <1>12 DEF Reconnected
  <2>2. Frames
    <3>1. SUFFICES ASSUME NEW t PROVE Held(<<>>, t) \subseteq Held(text, t)
      BY <2>1
    <3> QED BY HeldStart
  <2>3. Up
    BY <1>5, <2>1, HeldStart
  <2> QED BY <1>6, <2>1, <2>2, <2>3
<1>13. CASE ReconnectRejected
  <2>1. Rest /\ prefs' = NoPreferences /\ place' = "prefs" /\ UNCHANGED <<up, text>>
    BY <1>13 DEF ReconnectRejected, EnterMenu
  <2> QED BY <1>3, <1>4, <1>6, <2>1
<1>14. CASE SessionEnds
  <2>1. Rest /\ Get /\ prefs' \in {prefs, NoPreferences} /\ place' \in {"open", "prefs"}
    BY <1>14 DEF SessionEnds, GetAndSend, EnterMenu
  <2>2. Up
    BY <1>1, <1>5, <1>14 DEF SessionEnds, GetAndSend
  <2> QED BY <1>2, <1>6, <2>1, <2>2
<1>15. ASSUME NEW b \in Batches, Drop(b) \/ UploadAnswered(b) \/ UploadGivenUp(b)
       PROVE  Rest /\ Frames /\ Up /\ Same
  <2>1. Rest /\ Same /\ UNCHANGED <<up, text>>
    BY <1>15 DEF Drop, UploadAnswered, UploadGivenUp
  <2> QED BY <1>3, <1>4, <2>1
<1>16. ASSUME NEW b \in Batches, Upload(b) PROVE Rest /\ Frames /\ Up /\ Same
  <2>1. /\ Rest /\ Same /\ text' = text
        /\ Sent(<<[t |-> "upload", r |-> Request(b)]>>)
    BY <1>16 DEF Upload, SendOnly
  <2>2. [t |-> "upload", r |-> Request(b)].t # "save"
    OBVIOUS
  <2> QED BY <1>1, <1>3, <2>1, <2>2
<1>17. ASSUME NEW b \in Batches, Inject(b) \/ Respond(b)
       PROVE  Rest /\ Frames /\ Up /\ Same
  <2>1. /\ Rest /\ Same /\ text' = text
        /\ up' = up \/ Sent(<<[t |-> "input"]>>)
    BY <1>17 DEF Inject, Respond, SendOnly
  <2>2. [t |-> "input"].t # "save"
    OBVIOUS
  <2> QED BY <1>1, <1>3, <1>4, <2>1, <2>2
<1>18. CASE RouteResult \/ RelaySkips
  <2>1. Rest /\ Same /\ Get /\ up' = up
    BY <1>18 DEF RouteResult, RelaySkips, GetOnly, Get
  <2> QED BY <1>2, <1>4, <2>1
<1> QED BY <1>7, <1>8, <1>9, <1>10, <1>11, <1>12, <1>13, <1>14, <1>15, <1>16,
           <1>17, <1>18 DEF Session, Relay

LEMMA WebOther ==
  ASSUME StepInv, WebInv, Skip \/ Session \/ Relay
  PROVE  WebInv'
<1>1. /\ UNCHANGED <<stored, page, webSaved, excused>>
      /\ Held(text', "prefs") \subseteq Held(text, "prefs")
      /\ Held(up', "save") \subseteq Held(up, "save")
      /\ \/ prefs' = prefs /\ place' = place /\ alive' = alive
         \/ prefs' \in {prefs, NoPreferences} /\ place' \notin MenuPlaces \ {"prefs"}
  BY OtherFrames
<1> QED BY <1>1, FewerCopies, WebKept

LEMMA WebHub ==
  ASSUME StepInv, WebInv, Hub \/ World
  PROVE  WebInv'
<1> USE DEF hub, menu, wire, OnlyHub
<1> DEFINE Rest == UNCHANGED <<prefs, place, page, webSaved>> /\ excused \subseteq excused'
                   /\ (alive' => alive)
<1>1. ASSUME Rest, Copies' \subseteq Copies PROVE WebInv'
  BY <1>1, WebKept
<1>2. ASSUME NEW t, Take(t) PROVE Held(up', "save") \subseteq Held(up, "save")
  BY <1>2, FramesTaken
<1>3. ASSUME NEW f, Reply(f), f.t # "prefs"
      PROVE  Held(text', "prefs") \subseteq Held(text, "prefs")
  BY <1>3, FramesReplied
<1>4. CASE HubList \/ HubAgents \/ HubOperation \/ HubOpen \/ HubUpload \/ HubInput
           \/ HubClose \/ UploadEnds
  <2>1. Rest /\ stored' = stored
    BY <1>4 DEF HubList, HubAgents, HubOperation, HubOpen, HubUpload, HubInput,
                HubClose, UploadEnds
  <2>2. up' = up \/ \E t : Take(t)
    BY <1>4 DEF HubList, HubAgents, HubOperation, HubOpen, HubUpload, HubInput,
                HubClose, UploadEnds
  <2>3. text' = text \/ \E f : Reply(f) /\ f.t # "prefs"
    <3>1. CASE HubList
      BY <3>1 DEF HubList, ErrorReply
    <3>2. CASE HubAgents
      BY <3>2 DEF HubAgents
    <3>3. CASE HubOperation
      <4>1. PICK op \in {"create", "delete", "reset"} : Reply([t |-> op]) \/ ErrorReply
        BY <3>3 DEF HubOperation
      <4> QED BY <4>1 DEF ErrorReply
    <3>4. CASE HubOpen
      BY <3>4 DEF HubOpen, ErrorReply
    <3>5. CASE HubUpload \/ HubInput \/ HubClose
      BY <3>5 DEF HubUpload, HubInput, HubClose
    <3>6. CASE UploadEnds
      BY <3>6 DEF UploadEnds
    <3> QED BY <1>4, <3>1, <3>2, <3>3, <3>4, <3>5, <3>6
  <2>4. Held(up', "save") \subseteq Held(up, "save")
    BY <1>2, <2>2
  <2>5. Held(text', "prefs") \subseteq Held(text, "prefs")
    BY <1>3, <2>3
  <2> QED BY <1>1, <2>1, <2>4, <2>5, FewerCopies
<1>5. CASE HubPrefs
  <2>1. Rest /\ stored' = stored /\ Take("prefs")
    BY <1>5 DEF HubPrefs, Befalls
  <2>2. Held(up', "save") \subseteq Held(up, "save")
    BY <1>2, <2>1
  <2>3. CASE Reply([t |-> "prefs", data |-> stored])
    <3> DEFINE f == [t |-> "prefs", data |-> stored]
    <3>1. f.t = "prefs" /\ f.data = stored
      OBVIOUS
    <3> HIDE DEF f
    <3>2. Held(text', "prefs") = Held(text, "prefs") \cup {f}
      BY <2>3, <3>1, FramesReplied DEF f
    <3>3. Copies' \subseteq Copies
      BY <2>1, <2>2, <3>1, <3>2 DEF Copies
    <3> QED BY <1>1, <2>1, <3>3
  <2>4. CASE Reply([t |-> "prefs", data |-> NoPreferences]) /\ Befalls("load")
    <3> DEFINE f == [t |-> "prefs", data |-> NoPreferences]
    <3>1. f.t = "prefs" /\ f.data = NoPreferences
      OBVIOUS
    <3> HIDE DEF f
    <3>2. Held(text', "prefs") = Held(text, "prefs") \cup {f}
      BY <2>4, <3>1, FramesReplied DEF f
    <3>3. Copies' \subseteq Copies \cup {NoPreferences}
      BY <2>1, <2>2, <3>1, <3>2 DEF Copies
    <3>4. "web" \in DOMAIN NoPreferences /\ "load" \in excused'
      BY <2>4 DEF NoPreferences, Befalls
    <3> QED BY <2>1, <3>3, <3>4 DEF WebInv
  <2> QED BY <1>5, <2>3, <2>4 DEF HubPrefs
<1>6. CASE HubSave
  <2>1. Rest /\ Take("save")
    BY <1>6 DEF HubSave, Befalls
  <2>2. Held(up', "save") \subseteq Held(up, "save") /\ Frame \in Held(up, "save")
    BY <2>1, FramesTaken DEF Frame
  <2>3. Held(text', "prefs") \subseteq Held(text, "prefs")
    <3>1. CASE text' = text
      BY <3>1
    <3>2. CASE ErrorReply
      BY <1>3, <3>2 DEF ErrorReply
    <3> QED BY <1>6, <3>1, <3>2 DEF HubSave
  <2>4. stored' \in {stored, Frame.data}
    BY <1>6 DEF HubSave
  <2>5. Copies' \subseteq Copies
    BY <2>2, <2>3, <2>4 DEF Copies
  <2> QED BY <1>1, <2>1, <2>5
<1>7. CASE ToolEnds \/ ToolFails \/ AgentDrops \/ AgentReturns \/ AdminDeletes
  <2>1. Rest /\ stored' = stored /\ up' = up
    BY <1>7 DEF ToolEnds, ToolFails, AgentDrops, AgentReturns, AdminDeletes, EndSession
  <2>2. text' = text \/ \E f : Reply(f) /\ f.t # "prefs"
    <3>1. \A r : [t |-> "closed", reason |-> r].t # "prefs"
      OBVIOUS
    <3> QED BY <1>7, <3>1 DEF ToolEnds, ToolFails, AgentDrops, AgentReturns, AdminDeletes,
                              EndSession, ErrorReply
  <2>3. Held(text', "prefs") \subseteq Held(text, "prefs")
    BY <1>3, <2>2
  <2> QED BY <1>1, <2>1, <2>3, FewerCopies
<1>8. CASE WireDies
  <2>1. /\ UNCHANGED <<prefs, place, page, webSaved, stored>> /\ excused \subseteq excused'
        /\ ~ alive' /\ up' = <<>>
    BY <1>8 DEF WireDies, Befalls
  <2>2. PICK n \in 0 .. Len(text) : text' = SubSeq(text, 1, n)
    BY <1>8 DEF WireDies
  <2>3. Held(text', "prefs") \subseteq Held(text, "prefs")
    BY <2>2, HeldSteps DEF StepInv
  <2>4. Held(up', "save") \subseteq Held(up, "save")
    <3>1. Held(<<>>, "save") = {}
      BY HeldStart
    <3> QED BY <2>1, <3>1
  <2> QED BY <1>1, <2>1, <2>3, <2>4, FewerCopies
<1>9. CASE WebLoads
  <2>1. /\ UNCHANGED <<prefs, place, alive, up, text, stored, webSaved, excused>>
        /\ page' \in {stored, NoPreferences}
    BY <1>9 DEF WebLoads, OnlyWeb
  <2>2. Copies' = Copies
    BY <2>1 DEF Copies
  <2>3. "web" \in DOMAIN NoPreferences
    BY DEF NoPreferences
  <2>4. "web" \in DOMAIN stored
    BY DEF WebInv, Copies
  <2> QED BY <2>1, <2>2, <2>3, <2>4 DEF WebInv
<1>10. CASE WebSaves
  <2>1. /\ UNCHANGED <<prefs, place, alive, up, text>>
        /\ page' = [page EXCEPT !.web = keys']
        /\ \/ /\ stored' = page' /\ webSaved' = keys' /\ excused \subseteq excused'
              /\ Copied => "web" \in excused'
           \/ UNCHANGED <<stored, webSaved, excused>>
    BY <1>10 DEF WebSaves, OnlyWeb
  <2>2. "web" \in DOMAIN page
    BY DEF WebInv
  <2>3. "web" \in DOMAIN page' /\ page'.web = keys'
    BY <2>1, <2>2
  <2>4. CASE UNCHANGED <<stored, webSaved, excused>>
    <3>1. Copies' = Copies
      BY <2>1, <2>4 DEF Copies
    <3> QED BY <2>1, <2>3, <2>4, <3>1 DEF WebInv
  <2>5. CASE /\ stored' = page' /\ webSaved' = keys' /\ excused \subseteq excused'
             /\ Copied => "web" \in excused'
    <3>1. Copies' \subseteq Copies \cup {page'}
      BY <2>1, <2>5 DEF Copies
    <3>2. \A d \in Copies' \cup {prefs', page'} : "web" \in DOMAIN d
      BY <2>1, <2>3, <3>1 DEF WebInv
    <3>3. ASSUME ~ Copied
          PROVE  Copies' = {page'} /\ place' \notin MenuPlaces \ {"prefs"}
      <4>1. Held(text, "prefs") = {} /\ Held(up, "save") = {}
        BY <3>3 DEF Copied, Held
      <4> QED BY <2>1, <2>5, <3>3, <4>1 DEF Copies, Copied
    <3> QED BY <2>1, <2>3, <2>5, <3>2, <3>3 DEF WebInv
  <2> QED BY <2>1, <2>4, <2>5
<1> QED BY <1>4, <1>5, <1>6, <1>7, <1>8, <1>9, <1>10 DEF Hub, World

\* What the web terminal saved stays in the row when the client writes its
\* copy of it.
THEOREM WebIsKept == Spec => []WebFieldsKept
<1>1. Init => WebInv
  <2>1. SUFFICES ASSUME Init PROVE WebInv
    OBVIOUS
  <2>2. /\ place = "prefs" /\ prefs = NoPreferences /\ stored = NoPreferences
        /\ text = <<>> /\ up = <<[t |-> "prefs"]>> /\ webSaved = 0
        /\ page = NoPreferences
    BY <2>1 DEF Init
  <2>3. Held(text, "prefs") = {}
    BY <2>2, HeldStart
  <2>4. Held(up, "save") = {}
    BY <2>2, HeldStart
  <2>5. Copies = {NoPreferences}
    BY <2>2, <2>3, <2>4 DEF Copies
  <2>6. "web" \in DOMAIN NoPreferences /\ NoPreferences.web = 0
    BY DEF NoPreferences
  <2> QED BY <2>2, <2>5, <2>6 DEF WebInv
<1>2. StepInv /\ WebInv /\ [Next]_vars => WebInv'
  <2>1. SUFFICES ASSUME StepInv, WebInv, [Next]_vars PROVE WebInv'
    OBVIOUS
  <2>2. CASE UNCHANGED vars
    <3>1. UNCHANGED <<place, prefs, alive, text, up, stored, page, webSaved, excused>>
      BY <2>2 DEF vars, menu, wire, hub, history
    <3>2. Copies' = Copies
      BY <3>1 DEF Copies
    <3> QED BY <2>1, <3>1, <3>2 DEF WebInv
  <2>3. CASE Next
    BY <2>1, <2>3, WebMenu, WebOther, WebHub DEF Next
  <2> QED BY <2>1, <2>2, <2>3
<1>3. WebInv => WebFieldsKept
  BY DEF WebInv, WebFieldsKept, Copies
<1> QED BY <1>1, <1>2, <1>3, InStep, PTL DEF Spec

-----------------------------------------------------------------------------
(* The files that are dropped                                              *)

\* An upload that was asked for: it is on its way to the hub, performed there,
\* or its answer is on the way.
UnderWay(r) ==
  \/ r \in uploads
  \/ \E f \in Held(up, "upload") : f.r = r
  \/ \E f \in Held(text, "result") : f.r = r

Jobs == [at : {"none", "send", "wait", "inject", "done"}, file : Nat,
         here : BOOLEAN]

\* While the session of a task goes on, the files it has yet to finish have
\* their waiters or their answers, and the one it waits for is under way; when
\* the session is over nothing is routed to it any more.
JobInv(b) ==
  /\ job[b].here => place = "relay"
  /\ job[b].at \in {"send", "wait"} =>
       /\ job[b].file \in 1 .. Batch[b].files
       /\ job[b].here =>
            \A g \in job[b].file .. Batch[b].files : <<b, g>> \in waiters \cup box
  /\ \A g : <<b, g>> \in waiters /\ job[b].at \in {"send", "wait", "inject"}
              => job[b].here
  /\ /\ job[b].at = "wait" /\ alive /\ job[b].here
     /\ Request(b) \in waiters
     => UnderWay(Request(b)) \/ Ended(text)

DropInv == job \in [Batches -> Jobs] /\ \A b \in Batches : JobInv(b)

LEMMA EndHeld ==
  ASSUME NEW x
  PROVE  Ended(x) <=> Held(x, "closed") # {}
BY DEF Ended, Held

LEMMA BatchFacts ==
  ASSUME NEW b \in Batches
  PROVE  Batch[b].files \in Nat \ {0}
<1>1. PICK T : Batch \in Seq(T) /\ T = [for : {"drop", "artifact"}, files : Nat \ {0}]
  BY ClientAssumption
<1>2. b \in 1 .. Len(Batch)
  BY <1>1, LenProperties DEF Batches
<1>3. Batch[b] \in T
  BY <1>1, <1>2, ElementOfSeq
<1> QED BY <1>1, <1>3

\* The tasks and the relay do nothing about the files, and what is under way
\* for a session stays so.
LEMMA DropKept ==
  ASSUME DropInv, UNCHANGED drop,
         place = "relay" =>
           /\ place' = "relay" /\ (alive' => alive)
           /\ alive' => /\ \A r : UnderWay(r) => UnderWay(r)'
                        /\ Ended(text) => Ended(text')
  PROVE  DropInv'
<1>1. UNCHANGED <<job, waiters, box>>
  BY DEF drop
<1>2. ASSUME NEW b \in Batches PROVE JobInv(b)'
  <2>1. JobInv(b) /\ Request(b)' = Request(b)
    BY <1>1 DEF DropInv, Request
  <2>2. CASE place # "relay"
    BY <1>1, <2>1, <2>2 DEF JobInv
  <2>3. CASE place = "relay"
    BY <1>1, <2>1, <2>3 DEF JobInv
  <2> QED BY <2>2, <2>3
<1> QED BY <1>1, <1>2 DEF DropInv

\* One task goes on; the files and the frames of the others stay.
LEMMA OneJob ==
  ASSUME DropInv, NEW b \in Batches, NEW j \in Jobs,
         job' = [job EXCEPT ![b] = j], UNCHANGED <<place, alive>>,
         JobInv(b)',
         \A c \in Batches \ {b} : \A g :
           /\ <<c, g>> \in waiters' <=> <<c, g>> \in waiters
           /\ <<c, g>> \in box' <=> <<c, g>> \in box,
         \A r : UnderWay(r) => UnderWay(r)',
         Ended(text) => Ended(text')
  PROVE  DropInv'
<1>1. job \in [Batches -> Jobs] /\ job' \in [Batches -> Jobs]
  BY DEF DropInv
<1>2. ASSUME NEW c \in Batches, c # b PROVE JobInv(c)'
  <2>1. job'[c] = job[c] /\ JobInv(c)
    BY <1>1, <1>2 DEF DropInv
  <2>2. Request(c)' = Request(c)
    BY <2>1 DEF Request
  <2>3. \A g : /\ <<c, g>> \in waiters' <=> <<c, g>> \in waiters
               /\ <<c, g>> \in box' <=> <<c, g>> \in box
    BY <1>2
  <2>4. Request(c) \in waiters' <=> Request(c) \in waiters
    BY <2>3 DEF Request
  <2>5. UnderWay(Request(c)) => UnderWay(Request(c))'
    <3>1. PICK q : q = Request(c)
      OBVIOUS
    <3>2. UnderWay(q) => UnderWay(q)'
      OBVIOUS
    <3> QED BY <2>2, <3>1, <3>2 DEF UnderWay
  <2>6. (job[c].here => place = "relay")'
    BY <2>1 DEF JobInv
  <2>7. (job[c].at \in {"send", "wait"} =>
           /\ job[c].file \in 1 .. Batch[c].files
           /\ job[c].here =>
                \A g \in job[c].file .. Batch[c].files :
                  <<c, g>> \in waiters \cup box)'
    BY <2>1, <2>3 DEF JobInv
  <2>8. (\A g : <<c, g>> \in waiters /\ job[c].at \in {"send", "wait", "inject"}
                  => job[c].here)'
    BY <2>1, <2>3 DEF JobInv
  <2>9. (/\ job[c].at = "wait" /\ alive /\ job[c].here
         /\ Request(c) \in waiters
         => UnderWay(Request(c)) \/ Ended(text))'
    BY <2>1, <2>2, <2>4, <2>5 DEF JobInv
  <2> QED BY <2>6, <2>7, <2>8, <2>9 DEF JobInv
<1> QED BY <1>1, <1>2 DEF DropInv

LEMMA DropMenu ==
  ASSUME StepInv, DropInv, Menu
  PROVE  DropInv'
<1>1. place \in MenuPlaces /\ UNCHANGED <<job, waiters, box>>
  BY MenuFrames
<1>2. place # "relay"
  BY <1>1 DEF MenuPlaces
<1> QED BY <1>1, <1>2, DropKept DEF drop

LEMMA DropSession ==
  ASSUME StepInv, DropInv, Skip \/ Session \/ SessionEnds
  PROVE  DropInv'
<1>1. CASE HubLost
  <2>1. /\ job' = [b \in Batches |-> Idle] /\ waiters' = {}
    BY <1>1 DEF HubLost
  <2>2. Idle \in Jobs /\ Idle.at = "none" /\ ~ Idle.here
    BY DEF Idle, Jobs
  <2> HIDE DEF Idle
  <2>3. job' \in [Batches -> Jobs] /\ \A b \in Batches : job'[b] = Idle
    BY <2>1, <2>2
  <2>4. \A b \in Batches : job'[b].at = "none" /\ ~ job'[b].here
    BY <2>2, <2>3
  <2> QED BY <2>1, <2>3, <2>4 DEF DropInv, JobInv
<1>2. CASE SessionEnds
  <2>1. /\ waiters' = {}
        /\ job' = [b \in Batches |-> [job[b] EXCEPT !.here = FALSE]]
    BY <1>2 DEF SessionEnds
  <2>2. \A b \in Batches : job[b] \in Jobs /\ [job[b] EXCEPT !.here = FALSE] \in Jobs
    BY DEF DropInv, Jobs
  <2>3. \A b \in Batches : /\ job'[b] \in Jobs /\ job'[b].at = job[b].at
                           /\ job'[b].file = job[b].file /\ ~ job'[b].here
    BY <2>1, <2>2 DEF Jobs
  <2>4. job' \in [Batches -> Jobs]
    BY <2>1, <2>2 DEF Jobs
  <2> QED BY <2>1, <2>3, <2>4 DEF DropInv, JobInv
<1>3. CASE ~ HubLost /\ ~ SessionEnds
  <2>1. place # "relay" /\ UNCHANGED drop
    BY <1>3 DEF Session, Skip, Awaited, Opened, OpenRefused, TryAgain, GiveUp,
                Reconnected, ReconnectRejected, ReconnectCancelled, drop, EnterMenu
  <2> QED BY <2>1, DropKept
<1> QED BY <1>1, <1>2, <1>3

\* What the task does after the file it is at.
LEMMA NextJobFacts ==
  ASSUME DropInv, NEW b \in Batches, job[b].at \in {"send", "wait"}, NextJob(b)
  PROVE  \E j \in Jobs :
           /\ job' = [job EXCEPT ![b] = j] /\ job'[b] = j
           /\ j.here = job[b].here
           /\ \/ j.at = "inject"
              \/ /\ j.at = "send" /\ j.file = job[b].file + 1
                 /\ job[b].file < Batch[b].files
<1>1. /\ job \in [Batches -> Jobs] /\ job[b] \in Jobs
      /\ job[b].file \in 1 .. Batch[b].files /\ Batch[b].files \in Nat
  BY BatchFacts DEF DropInv, JobInv
<1>2. CASE job[b].file < Batch[b].files
  <2> DEFINE j == [at |-> "send", file |-> job[b].file + 1, here |-> job[b].here]
  <2>1. job' = [job EXCEPT ![b] = j]
    BY <1>1, <1>2 DEF NextJob
  <2>2. /\ j \in Jobs /\ j.here = job[b].here /\ j.at = "send"
        /\ j.file = job[b].file + 1
    BY <1>1 DEF Jobs
  <2> HIDE DEF j
  <2>3. job'[b] = j
    BY <1>1, <2>1
  <2> QED BY <1>2, <2>1, <2>2, <2>3
<1>3. CASE ~ (job[b].file < Batch[b].files)
  <2> DEFINE j == [at |-> "inject", file |-> 0, here |-> job[b].here]
  <2>1. job' = [job EXCEPT ![b] = j]
    BY <1>1, <1>3 DEF NextJob
  <2>2. j \in Jobs /\ j.here = job[b].here /\ j.at = "inject"
    BY <1>1 DEF Jobs
  <2> HIDE DEF j
  <2>3. job'[b] = j
    BY <1>1, <2>1
  <2> QED BY <2>1, <2>2, <2>3
<1> QED BY <1>2, <1>3

\* The task goes on with the next file, or with what follows the last.
LEMMA DropNext ==
  ASSUME DropInv, NEW b \in Batches, job[b].at \in {"send", "wait"}, NextJob(b),
         UNCHANGED <<place, alive, waiters>>,
         box' \in {box, box \ {Request(b)}},
         \A r : UnderWay(r) => UnderWay(r)',
         Ended(text) => Ended(text')
  PROVE  DropInv'
<1>1. PICK j \in Jobs :
        /\ job' = [job EXCEPT ![b] = j] /\ job'[b] = j
        /\ j.here = job[b].here
        /\ \/ j.at = "inject"
           \/ /\ j.at = "send" /\ j.file = job[b].file + 1
              /\ job[b].file < Batch[b].files
  BY NextJobFacts
<1>2. /\ JobInv(b) /\ Batch[b].files \in Nat
      /\ job[b].file \in 1 .. Batch[b].files
  BY BatchFacts DEF DropInv, JobInv
<1>3. (job[b].here => place = "relay")'
  BY <1>1, <1>2 DEF JobInv
<1>4. (job[b].at \in {"send", "wait"} =>
         /\ job[b].file \in 1 .. Batch[b].files
         /\ job[b].here =>
              \A g \in job[b].file .. Batch[b].files :
                <<b, g>> \in waiters \cup box)'
  <2>1. CASE j.at = "inject"
    BY <1>1, <2>1
  <2>2. CASE /\ j.at = "send" /\ j.file = job[b].file + 1
             /\ job[b].file < Batch[b].files
    <3>1. j.file \in 1 .. Batch[b].files
      BY <1>2, <2>2
    <3>2. ASSUME j.here, NEW g \in j.file .. Batch[b].files
          PROVE  <<b, g>> \in waiters' \cup box'
      <4>1. g \in job[b].file .. Batch[b].files /\ g # job[b].file
        BY <1>2, <2>2
      <4>2. <<b, g>> \in waiters \cup box
        BY <1>1, <1>2, <3>2, <4>1 DEF JobInv
      <4>3. <<b, g>> # Request(b)
        BY <4>1 DEF Request
      <4> QED BY <4>2, <4>3
    <3> QED BY <1>1, <3>1, <3>2
  <2> QED BY <1>1, <2>1, <2>2
<1>5. (\A g : <<b, g>> \in waiters /\ job[b].at \in {"send", "wait", "inject"}
                => job[b].here)'
  BY <1>1, <1>2 DEF JobInv
<1>6. job'[b].at # "wait"
  BY <1>1
<1>7. JobInv(b)'
  BY <1>3, <1>4, <1>5, <1>6 DEF JobInv
<1>8. \A c \in Batches \ {b} : \A g :
        /\ <<c, g>> \in waiters' <=> <<c, g>> \in waiters
        /\ <<c, g>> \in box' <=> <<c, g>> \in box
  BY DEF Request
<1> QED BY <1>1, <1>7, <1>8, OneJob

LEMMA DropRelay ==
  ASSUME StepInv, DropInv, Relay, ~ SessionEnds
  PROVE  DropInv'
<1> USE DEF OnlyDrop
<1>1. ASSUME NEW f, Sent(<<f>>), UNCHANGED <<uploads, text>>
      PROVE  /\ \A r : UnderWay(r) => UnderWay(r)'
             /\ f.t = "upload" /\ alive => UnderWay(f.r)'
  <2>1. /\ Held(up, "upload") \subseteq Held(up', "upload")
        /\ f.t = "upload" /\ alive => f \in Held(up', "upload")
    BY <1>1, FramesSent
  <2>2. \A r : UnderWay(r) => UnderWay(r)'
    BY <1>1, <2>1 DEF UnderWay
  <2>3. f \in Held(up', "upload") => UnderWay(f.r)'
    BY DEF UnderWay
  <2> QED BY <2>1, <2>2, <2>3
<1>2. UNCHANGED <<uploads, up, text>> => \A r : UnderWay(r) => UnderWay(r)'
  BY DEF UnderWay
<1>3. ASSUME NEW b \in Batches, Drop(b) PROVE DropInv'
  <2> DEFINE j == [at |-> "send", file |-> 1, here |-> TRUE]
  <2>1. /\ place = "relay" /\ place' = place /\ waiters' = waiters \cup Files(b)
        /\ job' = [job EXCEPT ![b] = j]
        /\ UNCHANGED <<box, alive, up, text, uploads>>
    BY <1>3 DEF Drop, wire, hub
  <2>2. j \in Jobs /\ j.at = "send" /\ j.file = 1 /\ j.here
    BY DEF Jobs
  <2> HIDE DEF j
  <2>3. job'[b] = j
    BY <2>1 DEF DropInv
  <2>4. Batch[b].files \in Nat \ {0}
    BY BatchFacts
  <2>5. \A g \in 1 .. Batch[b].files : <<b, g>> \in waiters'
    BY <2>1 DEF Files
  <2>6. 1 \in 1 .. Batch[b].files
    BY <2>4
  <2>7. JobInv(b)'
    BY <2>1, <2>2, <2>3, <2>5, <2>6 DEF JobInv
  <2>8. \A c \in Batches \ {b} : \A g : <<c, g>> \in waiters' <=> <<c, g>> \in waiters
    BY <2>1 DEF Files
  <2> QED BY <1>2, <2>1, <2>2, <2>7, <2>8, OneJob
<1>4. ASSUME NEW b \in Batches, Upload(b) PROVE DropInv'
  <2>0. PICK f : f = [t |-> "upload", r |-> Request(b)]
    OBVIOUS
  <2>1. /\ job[b].at = "send" /\ Sent(<<f>>)
        /\ UNCHANGED <<place, waiters, box, alive, text, uploads>>
    BY <1>4, <2>0 DEF Upload, SendOnly, hub
  <2>2. f.t = "upload" /\ f.r = Request(b)
    BY <2>0
  <2>3. /\ \A r : UnderWay(r) => UnderWay(r)'
        /\ alive => UnderWay(f.r)'
    BY <1>1, <2>1, <2>2
  <2>4. CASE NextJob(b)
    BY <2>1, <2>3, <2>4, DropNext
  <2>5. CASE job' = [job EXCEPT ![b].at = "wait"]
    <3> DEFINE j == [job[b] EXCEPT !.at = "wait"]
    <3>1. job[b] \in Jobs /\ JobInv(b) /\ job \in [Batches -> Jobs]
      BY DEF DropInv
    <3>2. job' = [job EXCEPT ![b] = j]
      BY <2>5, <3>1
    <3>3. j \in Jobs /\ j.at = "wait" /\ j.file = job[b].file /\ j.here = job[b].here
      BY <3>1 DEF Jobs
    <3> HIDE DEF j
    <3>4. job'[b] = j
      BY <3>1, <3>2
    <3>5. Request(b)' = Request(b)
      BY <3>3, <3>4 DEF Request
    <3>6. alive => UnderWay(Request(b))'
      <4>1. f.r = Request(b)'
        BY <2>2, <3>5
      <4> QED BY <2>3, <4>1 DEF UnderWay
    <3>7. JobInv(b)'
      <4>1. (job[b].here => place = "relay")'
        BY <2>1, <3>1, <3>3, <3>4 DEF JobInv
      <4>2. (job[b].at \in {"send", "wait"} =>
               /\ job[b].file \in 1 .. Batch[b].files
               /\ job[b].here =>
                    \A g \in job[b].file .. Batch[b].files :
                      <<b, g>> \in waiters \cup box)'
        BY <2>1, <3>1, <3>3, <3>4 DEF JobInv
      <4>3. (\A g : <<b, g>> \in waiters /\ job[b].at \in {"send", "wait", "inject"}
                      => job[b].here)'
        BY <2>1, <3>1, <3>3, <3>4 DEF JobInv
      <4>4. alive' => UnderWay(Request(b))'
        BY <2>1, <3>6
      <4> QED BY <4>1, <4>2, <4>3, <4>4 DEF JobInv
    <3> QED BY <2>1, <2>3, <3>2, <3>3, <3>7, OneJob
  <2> QED BY <1>4, <2>4, <2>5 DEF Upload
<1>5. ASSUME NEW b \in Batches, UploadAnswered(b) \/ UploadGivenUp(b) PROVE DropInv'
  <2>1. /\ job[b].at = "wait" /\ NextJob(b) /\ box' \in {box, box \ {Request(b)}}
        /\ UNCHANGED <<place, waiters, alive, up, text, uploads>>
    BY <1>5 DEF UploadAnswered, UploadGivenUp, wire, hub
  <2> QED BY <1>2, <2>1, DropNext
<1>6. ASSUME NEW b \in Batches, Inject(b) \/ Respond(b) PROVE DropInv'
  <2>1. /\ job' = [job EXCEPT ![b] = Over] /\ UNCHANGED <<place, waiters, box, alive>>
        /\ UNCHANGED <<text, uploads>>
        /\ up' = up \/ Sent(<<[t |-> "input"]>>)
    BY <1>6 DEF Inject, Respond, SendOnly, hub, wire
  <2>2. \A r : UnderWay(r) => UnderWay(r)'
    BY <1>1, <1>2, <2>1
  <2>3. Over \in Jobs /\ Over.at = "done" /\ ~ Over.here
    BY DEF Over, Jobs
  <2> HIDE DEF Over
  <2>4. job'[b] = Over
    BY <2>1 DEF DropInv
  <2>5. JobInv(b)'
    BY <2>3, <2>4 DEF JobInv
  <2> QED BY <2>1, <2>2, <2>3, <2>5, OneJob
<1>7. CASE RelaySkips
  <2>1. /\ place' = place /\ Get /\ Head(text).t \notin {"closed", "result"}
        /\ UNCHANGED drop /\ UNCHANGED <<uploads, up>>
    BY <1>7 DEF RelaySkips, GetOnly, Got, hub
  <2>2. Held(text', "result") = Held(text, "result") /\ Held(text', "closed") = Held(text, "closed")
    BY <2>1, FramesGot
  <2>3. \A r : UnderWay(r) => UnderWay(r)'
    BY <2>1, <2>2 DEF UnderWay
  <2>4. Ended(text') <=> Ended(text)
    <3>1. \A x : Ended(x) <=> Held(x, "closed") # {}
      BY EndHeld
    <3> QED BY <2>2, <3>1
  <2>5. alive' = alive
    BY <2>1, GetFacts
  <2> QED BY <2>1, <2>3, <2>4, <2>5, DropKept
<1>8. CASE RouteResult
  <2>0. PICK h : h = Head(text)
    OBVIOUS
  <2>1. /\ place' = place /\ Get /\ h.t = "result" /\ UNCHANGED <<job, uploads, up>>
        /\ box' = box \cup ({h.r} \cap waiters) /\ waiters' = waiters \ {h.r}
    BY <1>8, <2>0 DEF RouteResult, GetOnly, Got, hub
  <2>2. /\ Held(text, "result") \subseteq Held(text', "result") \cup {h}
        /\ Held(text', "closed") = Held(text, "closed")
    BY <2>0, <2>1, FramesGot
  <2>3. alive' = alive /\ (Ended(text') <=> Ended(text))
    <3>1. \A x : Ended(x) <=> Held(x, "closed") # {}
      BY EndHeld
    <3> QED BY <2>1, <2>2, <3>1, GetFacts
  <2>4. \A r : UnderWay(r) /\ r # h.r => UnderWay(r)'
    BY <2>1, <2>2 DEF UnderWay
  <2>5. waiters' \cup box' = waiters \cup box /\ waiters' \subseteq waiters
    BY <2>1
  <2>6. ASSUME NEW b \in Batches PROVE JobInv(b)'
    <3>1. JobInv(b) /\ Request(b)' = Request(b)
      BY <2>1 DEF DropInv, Request
    <3>2. Request(b) \in waiters' => Request(b) # h.r
      BY <2>1
    <3>3. (/\ job[b].at = "wait" /\ alive /\ job[b].here
           /\ Request(b) \in waiters
           => UnderWay(Request(b)) \/ Ended(text))'
      <4>1. UnderWay(Request(b)) /\ Request(b) # h.r => UnderWay(Request(b))'
        <5>1. PICK q : q = Request(b)
          OBVIOUS
        <5>2. UnderWay(q) /\ q # h.r => UnderWay(q)'
          BY <2>4
        <5> QED BY <3>1, <5>1, <5>2 DEF UnderWay
      <4> QED BY <2>1, <2>3, <2>5, <3>1, <3>2, <4>1 DEF JobInv
    <3> QED BY <2>1, <2>5, <3>1, <3>3 DEF JobInv
  <2> QED BY <2>1, <2>6 DEF DropInv
<1> QED BY <1>3, <1>4, <1>5, <1>6, <1>7, <1>8 DEF Relay

LEMMA DropHub ==
  ASSUME StepInv, DropInv, Hub \/ World
  PROVE  DropInv'
<1> USE DEF hub, menu, OnlyHub
<1> DEFINE Rest == UNCHANGED <<place, drop>>
<1>1. \A x : Ended(x) <=> Held(x, "closed") # {}
  BY EndHeld
<1>2. ASSUME Rest, alive' => alive, alive' => \A r : UnderWay(r) => UnderWay(r)',
             alive' => Held(text, "closed") \subseteq Held(text', "closed")
      PROVE  DropInv'
  <2>1. alive' => (Ended(text) => Ended(text'))
    BY <1>1, <1>2
  <2> QED BY <1>2, <2>1, DropKept
<1>3. ASSUME uploads' = uploads, Held(up, "upload") \subseteq Held(up', "upload"),
             Held(text, "result") \subseteq Held(text', "result")
      PROVE  \A r : UnderWay(r) => UnderWay(r)'
  BY <1>3 DEF UnderWay
\* A frame that is no upload is taken, and none or no result is sent
<1>4. ASSUME NEW k, Take(k), k # "upload" PROVE Held(up', "upload") = Held(up, "upload")
  BY <1>4, FramesTaken
<1>5. ASSUME NEW f, Reply(f)
      PROVE  /\ Held(text, "result") \subseteq Held(text', "result")
             /\ Held(text, "closed") \subseteq Held(text', "closed")
             /\ f.t = "result" => f \in Held(text', "result")
  BY <1>5, FramesReplied
<1>6. CASE HubList \/ HubAgents \/ HubPrefs \/ HubSave \/ HubOperation \/ HubOpen
           \/ HubInput \/ HubClose
  <2>1. Rest /\ uploads' = uploads /\ alive' = alive
    BY <1>6 DEF HubList, HubAgents, HubPrefs, HubSave, HubOperation, HubOpen, HubInput,
                HubClose
  <2>2. \E k : Take(k) /\ k # "upload"
    BY <1>6 DEF HubList, HubAgents, HubPrefs, HubSave, HubOperation, HubOpen, HubInput,
                HubClose
  <2>3. text' = text \/ \E f : Reply(f)
    <3>1. CASE HubList
      BY <3>1 DEF HubList, ErrorReply
    <3>2. CASE HubAgents \/ HubPrefs
      BY <3>2 DEF HubAgents, HubPrefs
    <3>3. CASE HubOperation
      <4>1. PICK op \in {"create", "delete", "reset"} : Reply([t |-> op]) \/ ErrorReply
        BY <3>3 DEF HubOperation
      <4> QED BY <4>1 DEF ErrorReply
    <3>4. CASE HubOpen \/ HubSave
      BY <3>4 DEF HubOpen, HubSave, ErrorReply
    <3>5. CASE HubInput \/ HubClose
      BY <3>5 DEF HubInput, HubClose
    <3> QED BY <1>6, <3>1, <3>2, <3>3, <3>4, <3>5
  <2>4. Held(up', "upload") = Held(up, "upload")
    BY <1>4, <2>2
  <2>5. Held(text, "result") \subseteq Held(text', "result")
        /\ Held(text, "closed") \subseteq Held(text', "closed")
    BY <1>5, <2>3
  <2>6. \A r : UnderWay(r) => UnderWay(r)'
    BY <1>3, <2>1, <2>4, <2>5
  <2> QED BY <1>2, <2>1, <2>5, <2>6
<1>7. CASE HubUpload
  <2>1. /\ Rest /\ alive' = alive /\ Take("upload") /\ text' = text
        /\ uploads' = uploads \cup {Frame.r}
    BY <1>7 DEF HubUpload
  <2>2. Held(up, "upload") \subseteq Held(up', "upload") \cup {Frame}
    BY <2>1, FramesTaken DEF Frame
  <2> HIDE DEF Frame
  <2>3. \A r : UnderWay(r) => UnderWay(r)'
    BY <2>1, <2>2 DEF UnderWay
  <2> QED BY <1>2, <2>1, <2>3
<1>8. CASE UploadEnds
  <2>1. PICK u \in uploads : /\ uploads' = uploads \ {u}
                             /\ Reply([t |-> "result", r |-> u])
    BY <1>8 DEF UploadEnds
  <2> DEFINE g == [t |-> "result", r |-> u]
  <2>2. g.t = "result" /\ g.r = u
    OBVIOUS
  <2> HIDE DEF g
  <2>3. Rest /\ alive' = alive /\ up' = up /\ Reply(g)
    BY <1>8, <2>1 DEF UploadEnds, g
  <2>4. /\ Held(text, "result") \subseteq Held(text', "result") /\ g \in Held(text', "result")
        /\ Held(text, "closed") \subseteq Held(text', "closed")
    BY <1>5, <2>2, <2>3
  <2>5. \A r : UnderWay(r) => UnderWay(r)'
    BY <2>1, <2>2, <2>3, <2>4 DEF UnderWay
  <2> QED BY <1>2, <2>3, <2>4, <2>5
<1>9. CASE ToolEnds \/ ToolFails \/ AgentDrops \/ AgentReturns \/ AdminDeletes
           \/ WebLoads \/ WebSaves
  <2>1. Rest /\ UNCHANGED <<up, uploads, alive>>
    BY <1>9 DEF ToolEnds, ToolFails, AgentDrops, AgentReturns, AdminDeletes, WebLoads,
                WebSaves, OnlyWeb, wire, EndSession
  <2>2. text' = text \/ \E f : Reply(f)
    BY <1>9 DEF ToolEnds, ToolFails, AgentDrops, AgentReturns, AdminDeletes, WebLoads,
                WebSaves, OnlyWeb, wire, EndSession, ErrorReply
  <2>3. /\ Held(text, "result") \subseteq Held(text', "result")
        /\ Held(text, "closed") \subseteq Held(text', "closed")
    BY <1>5, <2>2
  <2>4. \A r : UnderWay(r) => UnderWay(r)'
    BY <1>3, <2>1, <2>3
  <2> QED BY <1>2, <2>1, <2>3, <2>4
<1>10. CASE WireDies
  <2>1. Rest /\ ~ alive'
    BY <1>10 DEF WireDies
  <2> QED BY <1>2, <2>1
<1> QED BY <1>6, <1>7, <1>8, <1>9, <1>10 DEF Hub, World

\* A file that is being uploaded gets its answer: it has it, or it is under
\* way and will be routed to it, or the end of the session is under way, or
\* the session is over and the task gives up.
THEOREM DropsAreAnswered == Spec => []DropsAnswered
<1>1. Init => DropInv
  <2>1. SUFFICES ASSUME Init PROVE DropInv
    OBVIOUS
  <2>2. job = [b \in Batches |-> Idle] /\ waiters = {}
    BY <2>1 DEF Init
  <2>3. Idle \in Jobs /\ Idle.at = "none" /\ ~ Idle.here
    BY DEF Idle, Jobs
  <2> HIDE DEF Idle
  <2>4. job \in [Batches -> Jobs] /\ \A b \in Batches : job[b] = Idle
    BY <2>2, <2>3
  <2> QED BY <2>2, <2>3, <2>4 DEF DropInv, JobInv
<1>2. StepInv /\ DropInv /\ [Next]_vars => DropInv'
  <2>1. SUFFICES ASSUME StepInv, DropInv, [Next]_vars PROVE DropInv'
    OBVIOUS
  <2>2. CASE UNCHANGED vars
    <3>1. UNCHANGED <<place, drop, alive, up, text, uploads>>
      BY <2>2 DEF vars, drop, wire, hub
    <3>2. \A r : UnderWay(r) => UnderWay(r)'
      BY <3>1 DEF UnderWay
    <3> QED BY <2>1, <3>1, <3>2, DropKept
  <2>3. CASE Next
    BY <2>1, <2>3, DropMenu, DropSession, DropRelay, DropHub DEF Next
  <2> QED BY <2>1, <2>2, <2>3
<1>3. DropInv => DropsAnswered
  <2>1. SUFFICES ASSUME DropInv, NEW b \in Batches, job[b].at = "wait", alive
                 PROVE  LET r == Request(b) IN
                          \/ r \in box
                          \/ r \notin waiters /\ ~ job[b].here
                          \/ /\ r \in waiters /\ job[b].here
                             /\ \/ r \in uploads
                                \/ \E i \in DOMAIN up : up[i].t = "upload" /\ up[i].r = r
                                \/ \E i \in DOMAIN text :
                                     \/ text[i].t = "result" /\ text[i].r = r
                                     \/ text[i].t = "closed"
    BY DEF DropsAnswered
  <2>2. JobInv(b) /\ job[b].here \in BOOLEAN
    BY <2>1 DEF DropInv, Jobs
  <2>3. CASE ~ job[b].here
    BY <2>1, <2>2, <2>3 DEF JobInv, Request
  <2>4. CASE job[b].here
    <3>1. Batch[b].files \in Nat /\ job[b].file \in 1 .. Batch[b].files
      BY <2>1, <2>2, BatchFacts DEF JobInv
    <3>2. job[b].file \in job[b].file .. Batch[b].files
      BY <3>1
    <3>3. Request(b) \in waiters \cup box
      BY <2>1, <2>2, <2>4, <3>2 DEF JobInv, Request
    <3>4. Request(b) \in waiters => UnderWay(Request(b)) \/ Ended(text)
      BY <2>1, <2>2, <2>4 DEF JobInv
    <3> HIDE DEF Request
    <3> QED BY <2>4, <3>3, <3>4 DEF UnderWay, Ended, Held
  <2> QED BY <2>3, <2>4
<1> QED BY <1>1, <1>2, <1>3, InStep, PTL DEF Spec

\* A sequence holds each member of S once.
Lists(s, S) ==
  /\ s \in Seq(S)
  /\ \A w \in S : \E i \in 1 .. Len(s) : s[i] = w
  /\ \A i, j \in 1 .. Len(s) : s[i] = s[j] => i = j

\* A strict order in which any two members of S are compared.
StrictOrder(R, S) ==
  /\ \A a, b \in S : a # b => <<a, b>> \in R \/ <<b, a>> \in R
  /\ \A a, b \in S : <<a, b>> \in R => <<b, a>> \notin R
  /\ \A a, b, c \in S : <<a, b>> \in R /\ <<b, c>> \in R => <<a, c>> \in R

\* The members of a finite set can be laid out in a strict order: each at the
\* place that the number of those before it gives.
LEMMA OrderedExists ==
  ASSUME NEW S, IsFiniteSet(S), NEW R, StrictOrder(R, S)
  PROVE  \E s \in [1 .. Cardinality(S) -> S] :
           \A i, j \in DOMAIN s : i < j => <<s[i], s[j]>> \in R
<1> DEFINE n == Cardinality(S)
           Below(w) == {v \in S : <<v, w>> \in R}
           at == [w \in S |-> Cardinality(Below(w)) + 1]
<1>1. n \in Nat
  BY FS_CardinalityType
<1>2. ASSUME NEW w \in S
      PROVE  /\ IsFiniteSet(Below(w)) /\ Cardinality(Below(w)) \in Nat
             /\ Cardinality(Below(w)) < n
  <2>1. w \notin Below(w) /\ Below(w) \subseteq S \ {w}
    BY DEF StrictOrder
  <2>2. IsFiniteSet(S \ {w}) /\ Cardinality(S \ {w}) = n - 1
    BY FS_RemoveElement
  <2>3. IsFiniteSet(Below(w)) /\ Cardinality(Below(w)) <= n - 1
    <3> HIDE DEF Below, n
    <3> QED BY <2>1, <2>2, FS_Subset
  <2>4. Cardinality(Below(w)) \in Nat
    BY <2>3, FS_CardinalityType
  <2> QED BY <1>1, <2>3, <2>4
<1>3. ASSUME NEW v \in S, NEW w \in S, <<v, w>> \in R PROVE at[v] < at[w]
  <2>1. Below(v) \cup {v} \subseteq Below(w) /\ v \notin Below(v)
    BY <1>3 DEF StrictOrder
  <2>2. /\ IsFiniteSet(Below(v) \cup {v})
        /\ Cardinality(Below(v) \cup {v}) = Cardinality(Below(v)) + 1
    <3> HIDE DEF Below
    <3> QED BY <1>2, <2>1, FS_AddElement
  <2>3. Cardinality(Below(v)) + 1 <= Cardinality(Below(w))
    <3> HIDE DEF Below
    <3> QED BY <1>2, <2>1, <2>2, FS_Subset
  <2>4. at[v] = Cardinality(Below(v)) + 1 /\ at[w] = Cardinality(Below(w)) + 1
    OBVIOUS
  <2> QED BY <1>2, <2>3, <2>4
<1>4. at \in [S -> 1 .. n]
  <2>1. \A w \in S : Cardinality(Below(w)) + 1 \in 1 .. n
    <3> HIDE DEF Below, n
    <3> QED BY <1>1, <1>2
  <2> HIDE DEF Below, n
  <2> QED BY <2>1
<1>5. at \in Injection(S, 1 .. n)
  <2> HIDE DEF at, n
  <2>1. ASSUME NEW v \in S, NEW w \in S, v # w PROVE at[v] # at[w]
    <3>1. at[v] \in 1 .. n /\ at[w] \in 1 .. n
      BY <1>4
    <3>2. at[v] < at[w] \/ at[w] < at[v]
      BY <1>3, <2>1 DEF StrictOrder
    <3> QED BY <1>1, <3>1, <3>2
  <2>2. DOMAIN at = S
    BY <1>4
  <2> QED BY <1>4, <2>1, <2>2 DEF Injection, IsInjective
<1>6. IsFiniteSet(1 .. n) /\ Cardinality(1 .. n) = n
  <2> HIDE DEF n
  <2> QED BY <1>1, FS_Interval
<1>7. at \in Surjection(S, 1 .. n)
  <2> HIDE DEF at
  <2> QED BY <1>5, <1>6, FS_Injection
<1>8. \A i \in 1 .. n : \E w \in S : at[w] = i
  <2> HIDE DEF at, n
  <2> QED BY <1>7 DEF Surjection
<1> DEFINE s == [i \in 1 .. n |-> CHOOSE w \in S : at[w] = i]
<1>9. /\ s \in [1 .. n -> S] /\ \A i \in 1 .. n : at[s[i]] = i
  <2> HIDE DEF at, n
  <2> QED BY <1>8
<1>10. ASSUME NEW i \in 1 .. n, NEW j \in 1 .. n, i < j PROVE <<s[i], s[j]>> \in R
  <2> HIDE DEF at, s, n
  <2>1. s[i] \in S /\ s[j] \in S /\ at[s[i]] = i /\ at[s[j]] = j
    BY <1>9
  <2>2. s[i] # s[j] /\ <<s[j], s[i]>> \notin R
    BY <1>1, <1>3, <1>10, <2>1
  <2> QED BY <2>1, <2>2 DEF StrictOrder
<1> HIDE DEF s, n
<1> QED BY <1>9, <1>10 DEF n

\* What Sorted gives is such a layout, and holds each member once.
LEMMA SortedFacts ==
  ASSUME NEW S, IsFiniteSet(S), NEW R, StrictOrder(R, S)
  PROVE  /\ Lists(Sorted(S, R), S)
         /\ \A i, j \in 1 .. Len(Sorted(S, R)) :
              i < j => <<Sorted(S, R)[i], Sorted(S, R)[j]>> \in R
<1> DEFINE n == Cardinality(S)
           s == Sorted(S, R)
<1>1. /\ s \in [1 .. n -> S]
      /\ \A i, j \in DOMAIN s : i < j => <<s[i], s[j]>> \in R
  BY OrderedExists DEF Sorted
<1>2. n \in Nat
  BY FS_CardinalityType
<1> HIDE DEF s, n
<1>3. s \in Seq(S) /\ Len(s) = n /\ DOMAIN s = 1 .. n
  BY <1>1, <1>2
<1>4. ASSUME NEW i \in 1 .. n, NEW j \in 1 .. n, s[i] = s[j] PROVE i = j
  <2>1. s[i] \in S /\ <<s[i], s[i]>> \notin R
    BY <1>1 DEF StrictOrder
  <2>2. ~ (i < j) /\ ~ (j < i)
    BY <1>1, <1>3, <1>4, <2>1
  <2> QED BY <1>2, <2>2
<1>5. s \in Injection(1 .. n, S)
  BY <1>1, <1>3, <1>4 DEF Injection, IsInjective
<1>6. Cardinality(1 .. n) = n
  BY <1>2, FS_Interval
<1>7. s \in Surjection(1 .. n, S)
  BY <1>5, <1>6, FS_Injection DEF n
<1>8. \A w \in S : \E i \in 1 .. n : s[i] = w
  BY <1>7 DEF Surjection
<1> QED BY <1>1, <1>3, <1>4, <1>8 DEF Lists, s

-----------------------------------------------------------------------------
(* The order of the picker                                                 *)

\* Preferences, and a list, over workspaces of W.
Entries(p, W) ==
  /\ DOMAIN p = {"order", "web"} /\ DOMAIN p.order \subseteq W
  /\ \A w \in DOMAIN p.order :
       p.order[w].pinned \in BOOLEAN /\ p.order[w].rank \in Nat
Listing(l, W) == DOMAIN l \subseteq W /\ \A w \in DOMAIN l : l[w] \in BOOLEAN

LEMMA PairFacts ==
  ASSUME NEW S, NEW a \in S, NEW b \in S
  PROVE  <<a, b>> \in S \X S /\ <<a, b>>[1] = a /\ <<a, b>>[2] = b
OBVIOUS

\* Any two workspaces on the list are compared by listed_less, and in one way.
LEMMA ListedOrder ==
  ASSUME NEW W, W \subseteq Nat \X Nat, NEW p, Entries(p, W), NEW l, Listing(l, W)
  PROVE  StrictOrder({q \in (DOMAIN l) \X (DOMAIN l) :
                        listed_less(parse_order(p), l, q[1], q[2])}, DOMAIN l)
<1> DEFINE o == p.order
           Less(a, b) == listed_less(o, l, a, b)
<1>0. parse_order(p) = o
  BY DEF parse_order
<1>1. \A w \in DOMAIN l : /\ w[1] \in Nat /\ w[2] \in Nat /\ w = <<w[1], w[2]>>
                         /\ l[w] \in BOOLEAN
  BY DEF Listing
<1>2. \A w \in DOMAIN o : o[w].pinned \in BOOLEAN /\ o[w].rank \in Nat
  BY DEF Entries
<1> DEFINE D(a, b) == default_less(l, a, b)
           P(w) == is_pinned(o, w)
<1>3. \A w : P(w) \in BOOLEAN /\ (P(w) => w \in DOMAIN o)
  BY <1>2 DEF is_pinned
<1>4. /\ \A a, b \in DOMAIN l : a # b => D(a, b) \/ D(b, a)
      /\ \A a, b \in DOMAIN l : D(a, b) => ~ D(b, a)
      /\ \A a, b, c \in DOMAIN l : D(a, b) /\ D(b, c) => D(a, c)
  <2>1. ASSUME NEW a \in DOMAIN l, NEW b \in DOMAIN l, a # b PROVE D(a, b) \/ D(b, a)
    <3>1. a[1] # b[1] \/ a[2] # b[2]
      BY <1>1, <2>1
    <3> QED BY <1>1, <3>1 DEF default_less
  <2>2. ASSUME NEW a \in DOMAIN l, NEW b \in DOMAIN l, D(a, b) PROVE ~ D(b, a)
    BY <1>1, <2>2 DEF default_less
  <2>3. ASSUME NEW a \in DOMAIN l, NEW b \in DOMAIN l, NEW c \in DOMAIN l,
               D(a, b), D(b, c)
        PROVE  D(a, c)
    BY <1>1, <2>3 DEF default_less
  <2> QED BY <2>1, <2>2, <2>3
<1>5. ASSUME NEW a, NEW b
      PROVE  Less(a, b) <=>
               \/ P(a) /\ ~ P(b)
               \/ /\ P(a) <=> P(b)
                  /\ \/ a \in DOMAIN o /\ b \notin DOMAIN o
                     \/ /\ a \in DOMAIN o /\ b \in DOMAIN o
                        /\ \/ o[a].rank < o[b].rank
                           \/ o[a].rank = o[b].rank /\ D(a, b)
                     \/ a \notin DOMAIN o /\ b \notin DOMAIN o /\ D(a, b)
  <2> DEFINE A == P(a)
             B == P(b)
             X == {a, b} \subseteq DOMAIN o
             Y == {a, b} \cap DOMAIN o = {}
  <2>1. A \in BOOLEAN /\ B \in BOOLEAN
    BY <1>3
  <2>2. /\ X <=> (a \in DOMAIN o /\ b \in DOMAIN o)
        /\ Y <=> (a \notin DOMAIN o /\ b \notin DOMAIN o)
    OBVIOUS
  <2>3. Less(a, b) <=>
          \/ A /\ ~ B
          \/ /\ A = B
             /\ \/ a \in DOMAIN o /\ b \notin DOMAIN o
                \/ X /\ (o[a].rank < o[b].rank \/ (o[a].rank = o[b].rank /\ D(a, b)))
                \/ Y /\ D(a, b)
    BY DEF listed_less
  <2> HIDE DEF A, B, X, Y, D, Less
  <2> QED BY <2>1, <2>2, <2>3 DEF A, B
<1> HIDE DEF D, P, Less
<1>6. ASSUME NEW a \in DOMAIN l, NEW b \in DOMAIN l, a # b PROVE Less(a, b) \/ Less(b, a)
  BY <1>2, <1>3, <1>4, <1>5, <1>6
<1>7. ASSUME NEW a \in DOMAIN l, NEW b \in DOMAIN l, Less(a, b) PROVE ~ Less(b, a)
  BY <1>2, <1>3, <1>4, <1>5, <1>7
<1>8. ASSUME NEW a \in DOMAIN l, NEW b \in DOMAIN l, NEW c \in DOMAIN l,
             Less(a, b), Less(b, c)
      PROVE  Less(a, c)
  BY <1>2, <1>3, <1>4, <1>5, <1>8
<1> DEFINE R == {q \in (DOMAIN l) \X (DOMAIN l) : Less(q[1], q[2])}
<1>9. ASSUME NEW a \in DOMAIN l, NEW b \in DOMAIN l
      PROVE  <<a, b>> \in R <=> Less(a, b)
  <2>1. <<a, b>> \in (DOMAIN l) \X (DOMAIN l) /\ <<a, b>>[1] = a /\ <<a, b>>[2] = b
    BY PairFacts
  <2> QED BY <2>1
<1> HIDE DEF R
<1>10. StrictOrder(R, DOMAIN l)
  BY <1>6, <1>7, <1>8, <1>9 DEF StrictOrder
<1> QED BY <1>0, <1>10 DEF R, Less

\* Where a workspace is in a sequence that holds each once.
LEMMA PositionFacts ==
  ASSUME NEW S, NEW s, Lists(s, S)
  PROVE  /\ DOMAIN s = 1 .. Len(s) /\ Len(s) \in Nat /\ ToSet(s) = S
         /\ \A i \in 1 .. Len(s) : s[i] \in S /\ Position(s, s[i]) = i
         /\ \A w \in S : Position(s, w) \in 1 .. Len(s) /\ s[Position(s, w)] = w
<1>1. /\ DOMAIN s = 1 .. Len(s) /\ Len(s) \in Nat
      /\ \A i \in 1 .. Len(s) : s[i] \in S
  BY DEF Lists
<1>2. ToSet(s) = S
  BY <1>1 DEF ToSet, Lists
<1>3. ASSUME NEW i \in 1 .. Len(s) PROVE Position(s, s[i]) = i
  BY <1>1 DEF Position, Lists
<1>4. ASSUME NEW w \in S PROVE Position(s, w) \in 1 .. Len(s) /\ s[Position(s, w)] = w
  BY <1>1 DEF Position, Lists
<1> QED BY <1>1, <1>2, <1>3, <1>4

\* A part keeps the members it is asked for.
LEMMA PartFacts ==
  ASSUME NEW S, NEW s, Lists(s, S), NEW A, A \subseteq S, IsFiniteSet(S)
  PROVE  Lists(Part(s, A), A)
<1> DEFINE R == {p \in A \X A : Position(s, p[1]) < Position(s, p[2])}
<1>1. \A w \in A : Position(s, w) \in Nat /\ s[Position(s, w)] = w
  BY PositionFacts
<1>2. ASSUME NEW a \in A, NEW b \in A
      PROVE  <<a, b>> \in R <=> Position(s, a) < Position(s, b)
  <2>1. <<a, b>> \in A \X A /\ <<a, b>>[1] = a /\ <<a, b>>[2] = b
    BY PairFacts
  <2> QED BY <2>1
<1> HIDE DEF R
<1>3. StrictOrder(R, A)
  <2>1. \A a, b \in A : a # b => Position(s, a) # Position(s, b)
    BY <1>1
  <2> QED BY <1>1, <1>2, <2>1 DEF StrictOrder
<1>4. IsFiniteSet(A)
  BY FS_Subset
<1> QED BY <1>3, <1>4, SortedFacts DEF Part, R

\* The members of Q come before the others.
Leads(Q, s) == \A i, j \in DOMAIN s : i < j /\ s[j] \in Q => s[i] \in Q

\* One sequence after another, of other members.
LEMMA JoinFacts ==
  ASSUME NEW A, NEW B, NEW s, NEW t, Lists(s, A), Lists(t, B), A \cap B = {},
         NEW Q, Q \subseteq A, Leads(Q, s)
  PROVE  Lists(s \o t, A \cup B) /\ Leads(Q, s \o t)
<1> DEFINE u == s \o t
           m == Len(s)
           n == Len(t)
<1>1. /\ m \in Nat /\ n \in Nat
      /\ \A i \in 1 .. m : s[i] \in A
      /\ \A i \in 1 .. n : t[i] \in B
  BY DEF Lists
<1>2. /\ u \in Seq(A \cup B) /\ Len(u) = m + n
      /\ \A i \in 1 .. m : u[i] = s[i]
      /\ \A i \in 1 .. n : u[m + i] = t[i]
  <2>1. s \in Seq(A \cup B) /\ t \in Seq(A \cup B)
    BY DEF Lists
  <2> QED BY <2>1
<1> HIDE DEF u, m, n
<1>3. \A i \in 1 .. m + n : i > m => i - m \in 1 .. n /\ u[i] = t[i - m]
  <2>1. SUFFICES ASSUME NEW i \in 1 .. m + n, i > m
                 PROVE  i - m \in 1 .. n /\ u[i] = t[i - m]
    OBVIOUS
  <2>2. i - m \in 1 .. n /\ i = m + (i - m)
    BY <1>1, <2>1
  <2> QED BY <1>2, <2>2
<1>4. \A i \in 1 .. m + n : (i <= m => i \in 1 .. m /\ u[i] = s[i] /\ u[i] \in A)
                         /\ (i > m => u[i] \in B)
  <2>1. SUFFICES ASSUME NEW i \in 1 .. m + n
                 PROVE  /\ i <= m => i \in 1 .. m /\ u[i] = s[i] /\ u[i] \in A
                        /\ i > m => u[i] \in B
    OBVIOUS
  <2>2. ASSUME i <= m PROVE i \in 1 .. m
    BY <1>1, <2>1, <2>2
  <2> QED BY <1>1, <1>2, <1>3, <2>1, <2>2
<1>5. ASSUME NEW i \in 1 .. m + n, NEW j \in 1 .. m + n, u[i] = u[j] PROVE i = j
  <2>1. CASE i <= m /\ j <= m
    <3>1. i \in 1 .. m /\ j \in 1 .. m /\ s[i] = s[j]
      BY <1>4, <1>5, <2>1
    <3> QED BY <3>1 DEF Lists, m
  <2>2. CASE i > m /\ j > m
    <3>1. i - m \in 1 .. n /\ j - m \in 1 .. n /\ t[i - m] = t[j - m]
      BY <1>3, <1>5, <2>2
    <3>2. i - m = j - m
      BY <3>1 DEF Lists, n
    <3> QED BY <1>1, <3>2
  <2>3. (i <= m \/ i > m) /\ (j <= m \/ j > m)
    BY <1>1
  <2>4. ~ (i <= m /\ j > m) /\ ~ (i > m /\ j <= m)
    BY <1>4, <1>5
  <2> QED BY <2>1, <2>2, <2>3, <2>4
<1>6. ASSUME NEW w \in A \cup B PROVE \E i \in 1 .. m + n : u[i] = w
  <2>1. CASE w \in A
    <3>1. PICK i \in 1 .. m : s[i] = w
      BY <2>1 DEF Lists, m
    <3> QED BY <1>1, <1>2, <3>1
  <2>2. CASE w \in B
    <3>1. PICK i \in 1 .. n : t[i] = w
      BY <2>2 DEF Lists, n
    <3>2. m + i \in 1 .. m + n /\ u[m + i] = w
      BY <1>1, <1>2, <3>1
    <3> QED BY <3>2
  <2> QED BY <2>1, <2>2
<1>7. ASSUME NEW i \in 1 .. m + n, NEW j \in 1 .. m + n, i < j, u[j] \in Q
      PROVE  u[i] \in Q
  <2>1. ~ (j > m)
    BY <1>4, <1>7
  <2>2. i <= m /\ j <= m
    BY <1>1, <1>7, <2>1
  <2>3. /\ i \in 1 .. m /\ j \in 1 .. m /\ DOMAIN s = 1 .. m
        /\ u[i] = s[i] /\ u[j] = s[j]
    BY <1>4, <2>2 DEF Lists, m
  <2> QED BY <1>7, <2>3 DEF Leads
<1>8. DOMAIN u = 1 .. m + n
  BY <1>2
<1> QED BY <1>2, <1>5, <1>6, <1>7, <1>8 DEF Lists, Leads, u

\* Two members trade their places.
LEMMA SwapFacts ==
  ASSUME NEW S, NEW s, Lists(s, S), NEW i \in 1 .. Len(s), NEW j \in 1 .. Len(s)
  PROVE  Lists([s EXCEPT ![i] = s[j], ![j] = s[i]], S)
<1> DEFINE u == [s EXCEPT ![i] = s[j], ![j] = s[i]]
<1>1. /\ Len(s) \in Nat /\ DOMAIN s = 1 .. Len(s)
      /\ \A k \in 1 .. Len(s) : s[k] \in S
  BY DEF Lists
<1>2. u \in Seq(S) /\ Len(u) = Len(s)
  <2>1. s \in Seq(S) /\ s[i] \in S /\ s[j] \in S
    BY <1>1 DEF Lists
  <2>2. s \in [1 .. Len(s) -> S]
    BY <2>1
  <2>3. u \in [1 .. Len(s) -> S]
    BY <2>1, <2>2
  <2> HIDE DEF u
  <2> QED BY <1>1, <2>3
<1>3. \A k \in 1 .. Len(s) : u[k] = IF k = j THEN s[i] ELSE IF k = i THEN s[j] ELSE s[k]
  BY <1>1
<1> HIDE DEF u
<1>4. ASSUME NEW k \in 1 .. Len(s), NEW l \in 1 .. Len(s), u[k] = u[l] PROVE k = l
  <2>1. \A a, b \in 1 .. Len(s) : s[a] = s[b] => a = b
    BY DEF Lists
  <2>2. CASE k = j
    BY <1>3, <1>4, <2>1, <2>2
  <2>3. CASE k = i
    BY <1>3, <1>4, <2>1, <2>3
  <2>4. CASE k # i /\ k # j
    BY <1>3, <1>4, <2>1, <2>4
  <2> QED BY <2>2, <2>3, <2>4
<1>5. ASSUME NEW w \in S PROVE \E k \in 1 .. Len(s) : u[k] = w
  <2>1. PICK k \in 1 .. Len(s) : s[k] = w
    BY DEF Lists
  <2>2. CASE k = i
    BY <1>3, <2>1, <2>2
  <2>3. CASE k = j
    <3>1. CASE i = j
      BY <1>3, <2>1, <2>3, <3>1
    <3>2. CASE i # j
      BY <1>3, <2>1, <2>3, <3>2
    <3> QED BY <3>1, <3>2
  <2>4. CASE k # i /\ k # j
    BY <1>3, <2>1, <2>4
  <2> QED BY <2>2, <2>3, <2>4
<1> QED BY <1>2, <1>4, <1>5 DEF Lists, u

\* In the preferences p the order of s is the order of the ranks, the pinned
\* ones first.
Ahead(order, a, b) ==
  /\ a \in DOMAIN order /\ b \in DOMAIN order /\ order[a].rank < order[b].rank
  /\ order[b].pinned => order[a].pinned
Ranks(p, s) == \A i, j \in DOMAIN s : i < j => Ahead(p.order, s[i], s[j])

\* apply_order gives the ranks of a sequence that holds the pinned ones first.
LEMMA AppliedRanks ==
  ASSUME NEW W, NEW p, Entries(p, W), NEW S, S \subseteq W, NEW k, Lists(k, S),
         NEW Q, Leads(Q, k)
  PROVE  Entries(apply_order(p, k, Q), W) /\ Ranks(apply_order(p, k, Q), k)
<1> DEFINE o == p.order
           c == [w \in (DOMAIN o) \cup ToSet(k) |->
                   IF w \in ToSet(k)
                   THEN [pinned |-> w \in Q, rank |-> Position(k, w)]
                   ELSE o[w]]
           d == apply_order(p, k, Q)
<1>1. /\ DOMAIN k = 1 .. Len(k) /\ Len(k) \in Nat /\ ToSet(k) = S
      /\ \A i \in 1 .. Len(k) : k[i] \in S /\ Position(k, k[i]) = i
      /\ \A w \in S : Position(k, w) \in 1 .. Len(k)
  BY PositionFacts
<1>2. d.order = c /\ DOMAIN d = {"order", "web"}
  BY DEF apply_order, Entries
<1>3. DOMAIN c = (DOMAIN o) \cup S
  BY <1>1
<1>4. \A w \in S : c[w].rank = Position(k, w) /\ (c[w].pinned <=> w \in Q)
                   /\ c[w].pinned \in BOOLEAN
  <2>1. SUFFICES ASSUME NEW w \in S
                 PROVE  /\ c[w].rank = Position(k, w) /\ c[w].pinned \in BOOLEAN
                        /\ c[w].pinned <=> w \in Q
    OBVIOUS
  <2>2. c[w] = [pinned |-> w \in Q, rank |-> Position(k, w)]
    BY <1>1
  <2>3. c[w].pinned = (w \in Q) /\ c[w].rank = Position(k, w)
    BY <2>2
  <2>4. c[w].pinned \in BOOLEAN /\ (c[w].pinned <=> w \in Q)
    <3> DEFINE x == c[w].pinned
               y == w \in Q
    <3>1. x = y /\ y \in BOOLEAN
      BY <2>3
    <3> HIDE DEF x, y
    <3>2. x \in BOOLEAN /\ (x <=> y)
      BY <3>1
    <3> QED BY <3>2 DEF x, y
  <2> QED BY <2>3, <2>4
<1>5. \A w \in (DOMAIN o) \ S : c[w] = o[w]
  BY <1>1
<1> HIDE DEF c, d
<1>6. Entries(d, W)
  <2>1. \A w \in S : c[w].rank \in Nat
    BY <1>1, <1>4
  <2>2. \A w \in (DOMAIN o) \ S : c[w].pinned \in BOOLEAN /\ c[w].rank \in Nat
    BY <1>5 DEF Entries
  <2>3. DOMAIN c \subseteq W
    BY <1>3 DEF Entries
  <2> QED BY <1>2, <1>3, <1>4, <2>1, <2>2, <2>3 DEF Entries
<1>7. ASSUME NEW i \in 1 .. Len(k), NEW j \in 1 .. Len(k), i < j
      PROVE  Ahead(c, k[i], k[j])
  <2>1. k[i] \in S /\ k[j] \in S /\ Position(k, k[i]) = i /\ Position(k, k[j]) = j
    BY <1>1
  <2>2. c[k[i]].rank < c[k[j]].rank
    BY <1>4, <1>7, <2>1
  <2>3. c[k[j]].pinned => c[k[i]].pinned
    BY <1>1, <1>4, <1>7, <2>1 DEF Leads
  <2> QED BY <1>3, <2>1, <2>2, <2>3 DEF Ahead
<1>8. Ranks(d, k)
  BY <1>1, <1>2, <1>7 DEF Ranks
<1> QED BY <1>6, <1>8 DEF d

LEMMA SoleFacts ==
  ASSUME NEW w
  PROVE  Lists(<<w>>, {w})
BY DEF Lists

\* A sequence of the first alone.
LEMMA AllLead ==
  ASSUME NEW A, NEW s, Lists(s, A)
  PROVE  Leads(A, s)
BY DEF Lists, Leads

\* Pinning and unpinning give the workspaces the ranks of the new order.
LEMMA ToggleFacts ==
  ASSUME NEW W, IsFiniteSet(W), NEW p, Entries(p, W), NEW S, S \subseteq W,
         NEW s, Lists(s, S), NEW w \in S
  PROVE  /\ Entries(toggle_pin(p, s, w), W)
         /\ Ranks(toggle_pin(p, s, w), toggled_keys(p, s, w))
         /\ toggled_keys(p, s, w) \in Seq(W)
<1> DEFINE T == PinnedOf(p, s)
           A == T \ {w}
           B == ToSet(s) \ (A \cup {w})
           k == toggled_keys(p, s, w)
           Q == IF w \in T THEN T \ {w} ELSE T \cup {w}
           x == Part(s, A)
           y == Part(s, B)
<1>1. ToSet(s) = S /\ T \subseteq S /\ IsFiniteSet(S)
  BY PositionFacts, FS_Subset DEF PinnedOf
<1>2. k = (x \o <<w>>) \o y
  BY DEF toggled_keys
<1>3. /\ A \subseteq S /\ B \subseteq S /\ A \cap {w} = {} /\ (A \cup {w}) \cap B = {}
      /\ (A \cup {w}) \cup B = S
      /\ \/ Q = A
         \/ Q = A \cup {w}
  BY <1>1
<1> HIDE DEF T, A, B, Q
<1>4. Lists(x, A) /\ Lists(y, B) /\ Lists(<<w>>, {w})
  BY <1>1, <1>3, PartFacts, SoleFacts
<1> HIDE DEF x, y
<1>5. /\ Lists(x \o <<w>>, A \cup {w}) /\ Leads(A, x \o <<w>>)
      /\ Leads(A \cup {w}, x \o <<w>>)
  BY <1>3, <1>4, JoinFacts, AllLead
<1>6. Lists(k, S) /\ Leads(Q, k)
  <2> DEFINE z == x \o <<w>>
  <2>1. Lists(z, A \cup {w}) /\ Leads(Q, z) /\ Q \subseteq A \cup {w}
    BY <1>3, <1>5
  <2>2. k = z \o y
    BY <1>2
  <2> HIDE DEF z, k
  <2> QED BY <1>3, <1>4, <2>1, <2>2, JoinFacts
<1>7. toggle_pin(p, s, w) = apply_order(p, k, Q)
  BY DEF toggle_pin, Q, T
<1> HIDE DEF k
<1>8. Entries(apply_order(p, k, Q), W) /\ Ranks(apply_order(p, k, Q), k)
  BY <1>6, AppliedRanks
<1>9. k \in Seq(W)
  BY <1>6 DEF Lists
<1> QED BY <1>7, <1>8, <1>9 DEF k

\* So does moving.
LEMMA MoveFacts ==
  ASSUME NEW W, IsFiniteSet(W), NEW p, Entries(p, W), NEW S, S \subseteq W,
         NEW s, Lists(s, S), NEW w \in S, NEW upwards \in BOOLEAN,
         can_move(p, s, w, upwards)
  PROVE  /\ Entries(move_workspace(p, s, w, upwards), W)
         /\ Ranks(move_workspace(p, s, w, upwards), moved_keys(p, s, w, upwards))
         /\ moved_keys(p, s, w, upwards) \in Seq(W)
<1> DEFINE T == PinnedOf(p, s)
           G == IF w \in T THEN T ELSE ToSet(s) \ T
           g == GroupOf(p, s, w)
           o == Part(s, ToSet(s) \ ToSet(g))
           j == SwappedWith(p, s, w, upwards)
           i == IF upwards THEN j + 1 ELSE j - 1
           v == [g EXCEPT ![i] = g[j], ![j] = g[i]]
           k == moved_keys(p, s, w, upwards)
<1>1. ToSet(s) = S /\ T \subseteq S /\ IsFiniteSet(S)
  BY PositionFacts, FS_Subset DEF PinnedOf
<1>2. g = Part(s, G) /\ G \subseteq S /\ w \in G
  BY <1>1 DEF GroupOf
<1>3. k = IF w \in T THEN v \o o ELSE o \o v
  BY DEF moved_keys
<1>4. IF w \in T THEN G = T /\ S \ G = S \ T ELSE G = S \ T /\ S \ G = T
  BY <1>1
<1>5. move_workspace(p, s, w, upwards) = apply_order(p, k, T)
  BY DEF move_workspace
<1> HIDE DEF T, G, k
<1>6. Lists(g, G)
  BY <1>1, <1>2, PartFacts
<1>7. Lists(o, S \ G)
  <2>1. ToSet(g) = G
    BY <1>6, PositionFacts
  <2>2. o = Part(s, S \ G)
    BY <1>1, <2>1
  <2> QED BY <1>1, <2>2, PartFacts
<1>8. i \in 1 .. Len(g) /\ j \in 1 .. Len(g)
  <2> DEFINE n == Position(g, w)
  <2>1. n \in 1 .. Len(g) /\ DOMAIN g = 1 .. Len(g) /\ Len(g) \in Nat
    BY <1>2, <1>6, PositionFacts
  <2>2. j \in DOMAIN g
    BY DEF can_move
  <2>3. j = IF upwards THEN n - 1 ELSE n + 1
    BY DEF SwappedWith
  <2> HIDE DEF n, j, g
  <2>4. i = n
    BY <2>1, <2>3
  <2> QED BY <2>1, <2>2, <2>4
<1>9. Lists(v, G)
  <2> HIDE DEF g, i, j
  <2> QED BY <1>6, <1>8, SwapFacts
<1> HIDE DEF v, o
<1>10. Lists(k, S) /\ Leads(T, k)
  <2>1. CASE w \in T
    <3>1. Lists(v, T) /\ Lists(o, S \ T) /\ T \cup (S \ T) = S /\ Leads(T, v)
      BY <1>1, <1>4, <1>7, <1>9, <2>1, AllLead
    <3>2. Lists(v \o o, S) /\ Leads(T, v \o o)
      <4>1. T \cap (S \ T) = {} /\ T \subseteq T
        OBVIOUS
      <4>2. Lists(v \o o, T \cup (S \ T)) /\ Leads(T, v \o o)
        BY <3>1, <4>1, JoinFacts
      <4> QED BY <3>1, <4>2
    <3> QED BY <1>3, <2>1, <3>2
  <2>2. CASE w \notin T
    <3>1. Lists(v, S \ T) /\ Lists(o, T) /\ T \cup (S \ T) = S /\ Leads(T, o)
      BY <1>1, <1>4, <1>7, <1>9, <2>2, AllLead
    <3>2. Lists(o \o v, S) /\ Leads(T, o \o v)
      <4>1. T \cap (S \ T) = {} /\ T \cup (S \ T) = S /\ T \subseteq T
        BY <3>1
      <4>2. Lists(o \o v, T \cup (S \ T)) /\ Leads(T, o \o v)
        BY <3>1, <4>1, JoinFacts
      <4> QED BY <4>1, <4>2
    <3> QED BY <1>3, <2>2, <3>2
  <2> QED BY <2>1, <2>2
<1>11. Entries(apply_order(p, k, T), W) /\ Ranks(apply_order(p, k, T), k)
  BY <1>10, AppliedRanks
<1>12. k \in Seq(W)
  BY <1>10 DEF Lists
<1> QED BY <1>5, <1>11, <1>12 DEF k

\* What the picker shows of a list: each workspace once, in the order of
\* listed_less.
LEMMA SortFacts ==
  ASSUME NEW W, W \subseteq Nat \X Nat, IsFiniteSet(W), NEW p, Entries(p, W),
         NEW l, Listing(l, W)
  PROVE  LET r == sort_workspaces(parse_order(p), l)
         IN  /\ Lists(r, DOMAIN l)
             /\ \A a, b \in DOMAIN l :
                  /\ Before(r, a, b) <=> listed_less(parse_order(p), l, a, b)
                  /\ listed_less(parse_order(p), l, a, b) =>
                       a # b /\ ~ listed_less(parse_order(p), l, b, a)
<1> DEFINE S == DOMAIN l
           o == parse_order(p)
           R == {q \in S \X S : listed_less(o, l, q[1], q[2])}
           r == sort_workspaces(o, l)
<1>1. StrictOrder(R, S)
  BY ListedOrder
<1>2. r = Sorted(S, R)
  BY DEF sort_workspaces
<1>3. IsFiniteSet(S)
  BY FS_Subset DEF Listing
<1>4. ASSUME NEW a \in S, NEW b \in S
      PROVE  <<a, b>> \in R <=> listed_less(o, l, a, b)
  <2>1. <<a, b>> \in S \X S /\ <<a, b>>[1] = a /\ <<a, b>>[2] = b
    BY PairFacts
  <2> QED BY <2>1
<1> HIDE DEF R, r, S
<1>5. /\ Lists(r, S)
      /\ \A i, j \in 1 .. Len(r) : i < j => <<r[i], r[j]>> \in R
  BY <1>1, <1>2, <1>3, SortedFacts
<1>6. DOMAIN r = 1 .. Len(r) /\ Len(r) \in Nat
  BY <1>5, PositionFacts
<1>7. \A a, b \in S : <<a, b>> \in R => a # b /\ <<b, a>> \notin R
  BY <1>1 DEF StrictOrder
<1>8. ASSUME NEW a \in S, NEW b \in S PROVE Before(r, a, b) <=> <<a, b>> \in R
  <2>1. Before(r, a, b) => <<a, b>> \in R
    BY <1>5, <1>6 DEF Before
  <2>2. ASSUME <<a, b>> \in R PROVE Before(r, a, b)
    <3>1. PICK i \in 1 .. Len(r) : r[i] = a
      BY <1>5 DEF Lists
    <3>2. PICK j \in 1 .. Len(r) : r[j] = b
      BY <1>5 DEF Lists
    <3>3. <<b, a>> \notin R /\ a # b
      BY <1>7, <2>2
    <3>4. i # j /\ ~ (j < i)
      BY <1>5, <3>1, <3>2, <3>3
    <3>5. i < j
      BY <1>6, <3>4
    <3> QED BY <1>6, <3>1, <3>2, <3>5 DEF Before
  <2> QED BY <2>1, <2>2
<1> QED BY <1>4, <1>5, <1>7, <1>8 DEF r, S

\* The picker shows two workspaces in the order in which the preferences rank
\* them.
LEMMA RanksShown ==
  ASSUME NEW W, W \subseteq Nat \X Nat, IsFiniteSet(W), NEW p, Entries(p, W),
         NEW l, Listing(l, W), NEW s \in Seq(W), Ranks(p, s),
         NEW a \in ToSet(s), NEW b \in ToSet(s), a \in DOMAIN l, b \in DOMAIN l
  PROVE  Before(sort_workspaces(parse_order(p), l), a, b) <=> Before(s, a, b)
<1> DEFINE o == parse_order(p)
           r == sort_workspaces(o, l)
           Less(x, y) == listed_less(o, l, x, y)
<1>1. ASSUME NEW x, NEW y, Ahead(o, x, y) PROVE Less(x, y)
  <2> DEFINE P(z) == is_pinned(o, z)
  <2>1. /\ P(x) <=> o[x].pinned
        /\ P(y) <=> o[y].pinned
        /\ {x, y} \subseteq DOMAIN o /\ o[x].rank < o[y].rank
    BY <1>1 DEF Ahead, is_pinned
  <2>2. P(x) \in BOOLEAN /\ P(y) \in BOOLEAN /\ (P(y) => P(x))
    BY <1>1, <2>1 DEF Ahead, is_pinned
  <2>3. (P(x) /\ ~ P(y)) \/ P(x) = P(y)
    <3> HIDE DEF P
    <3> QED BY <2>2
  <2> QED BY <2>1, <2>3 DEF listed_less
<1>2. /\ Before(r, a, b) <=> Less(a, b)
      /\ Less(a, b) => a # b /\ ~ Less(b, a)
  BY SortFacts
<1> HIDE DEF r, Less
<1>3. DOMAIN s = 1 .. Len(s) /\ Len(s) \in Nat
  OBVIOUS
<1>4. \A i, j \in 1 .. Len(s) : i < j => Less(s[i], s[j])
  BY <1>1, <1>3 DEF Ranks, parse_order
<1>5. Before(s, a, b) => Less(a, b)
  BY <1>3, <1>4 DEF Before
<1>6. ASSUME Less(a, b) PROVE Before(s, a, b)
  <2>1. PICK i \in 1 .. Len(s) : s[i] = a
    BY <1>3 DEF ToSet
  <2>2. PICK j \in 1 .. Len(s) : s[j] = b
    BY <1>3 DEF ToSet
  <2>3. i # j /\ ~ (j < i)
    BY <1>2, <1>4, <1>6, <2>1, <2>2
  <2>4. i < j
    BY <1>3, <2>3
  <2> QED BY <1>3, <2>1, <2>2, <2>4 DEF Before
<1> QED BY <1>2, <1>5, <1>6 DEF r

\* What the values are that the order is made of.
OrderTypes ==
  /\ Entries(prefs, Workspaces) /\ Entries(page, Workspaces)
  /\ \A d \in Copies : Entries(d, Workspaces)
  /\ Listing(items, Workspaces)
  /\ \A f \in Held(text, "list") : Listing(f.items, Workspaces)
  /\ catalog \subseteq Workspaces /\ arranged \in Seq(Workspaces)
  /\ goal.op = "create" => goal.ws \in Workspaces
  /\ \A f \in Held(up, "create") : f.ws \in Workspaces
  /\ Lists(rows, DOMAIN items)
  /\ place = "recheck" => rows # <<>>

\* From here a menu may still show something: on a dead wire nothing is left
\* but what had arrived, or a new connection after a row was chosen.
Served ==
  \/ alive
  \/ place \in {"open", "hold", "relay", "redial"}
  \/ place \in MenuPlaces \ {"prefs", "list"} /\ rows # <<>>
  \/ place = "list" /\ Held(text, "list") # {}

\* The menu's copy may be shown, or saved.
Loaded ==
  \/ alive /\ place \in MenuPlaces \ {"prefs"}
  \/ place = "list" /\ Held(text, "list") # {}

\* No save follows a question for the list, which the hub answers after it.
SavedFirst(u) == \A i, j \in DOMAIN u : i < j /\ u[i].t = "list" => u[j].t # "save"

Undisturbed == excused \cap {"load", "save", "order"} = {}

\* Every copy of the preferences that can still become what the picker shows
\* ranks the workspaces as the user arranged them.
OrderKept ==
  /\ refused = 0
  /\ SavedFirst(up)
  /\ Held(up, "save") # {} => place = "list" /\ Held(up, "list") # {}
  /\ Served => /\ \A f \in Held(up, "save") : Ranks(f.data, arranged)
               /\ Held(up, "save") = {} => Ranks(stored, arranged)
  /\ Loaded => Ranks(prefs, arranged)
  /\ alive /\ place = "prefs" =>
       \A f \in Held(text, "prefs") : Ranks(f.data, arranged)
  /\ OrderShown

OrderInv == OrderTypes /\ (Undisturbed => OrderKept)

-----------------------------------------------------------------------------
(* What is under way, as the order needs it                                *)

LEMMA NotHeld ==
  ASSUME NEW q, NEW T, Only(q, T), NEW t, t \notin T
  PROVE  Held(q, t) = {}
BY DEF Only, Held

LEMMA HeldAny ==
  ASSUME NEW q, NEW t
  PROVE  Held(q, t) = {} <=> \A i \in DOMAIN q : q[i].t # t
BY DEF Held

LEMMA NoPreferencesTyped ==
  /\ \A W : Entries(NoPreferences, W)
  /\ \A W : Listing(<<>>, W)
  /\ Lists(<<>>, {})
<1>1. DOMAIN <<>> = {}
  OBVIOUS
<1>2. DOMAIN NoPreferences = {"order", "web"} /\ NoPreferences.order = <<>>
  BY DEF NoPreferences
<1> QED BY <1>1, <1>2 DEF Entries, Listing, Lists

LEMMA HeldAppend ==
  ASSUME NEW q, IsQueue(q), NEW f, NEW t
  PROVE  /\ f.t # t => Held(Append(q, f), t) = Held(q, t)
         /\ f.t = t => Held(Append(q, f), t) = Held(q, t) \cup {f}
<1>1. Held(Append(q, f), t) = Held(q, t) \cup IF f.t = t THEN {f} ELSE {}
  BY HeldSteps
<1> QED BY <1>1

\* Two frames are sent.
LEMMA TwoSent ==
  ASSUME StepInv, NEW f, NEW g, Sent(<<f, g>>)
  PROVE  /\ IsQueue(up) /\ IsQueue(Append(up, f))
         /\ up' = IF alive THEN Append(Append(up, f), g) ELSE up
<1> DEFINE S == ToSet(up) \cup {f, g}
<1>1. up \in Seq(S) /\ f \in S /\ g \in S
  <2>1. up \in Seq(ToSet(up)) /\ ToSet(up) \subseteq S
    BY DEF StepInv, IsQueue
  <2> HIDE DEF S
  <2>2. up \in Seq(S)
    BY <2>1
  <2> QED BY <2>2 DEF S
<1>2. up \o <<f, g>> = Append(Append(up, f), g)
  <2> HIDE DEF S
  <2> QED BY <1>1
<1>3. IsQueue(up) /\ IsQueue(Append(up, f))
  BY QueueAppend DEF StepInv
<1> QED BY <1>2, <1>3 DEF Sent

\* Where the client awaits no list there is none on its way to it.
LEMMA NoListLeft ==
  ASSUME StepInv, refused = 0, ~ alive, place \notin {"list", "over"}
  PROVE  Held(text, "list") = {}
BY HeldAny DEF StepInv, Left

LEMMA NoPrefsLeft ==
  ASSUME StepInv, refused = 0, alive, place \in {"hold", "relay"}
  PROVE  Held(text, "prefs") = {}
<1>1. Fits(place, goal, asked, up, text, session)
  BY DEF StepInv
<1>2. Only(text, {"result", "error", "opened", "closed"})
  BY <1>1 DEF Fits, Quiet, InSession, Only, Noise
<1> QED BY <1>2, NotHeld

-----------------------------------------------------------------------------
(* The order in the menu                                                   *)

Unsaved == Held(up', "save") \subseteq Held(up, "save")

\* What a step of the menu does to what the picker shows.
RowsKept ==
  /\ UNCHANGED <<rows, items, arranged>> /\ Unsaved
  /\ prefs' = prefs \/ place = "prefs"
  /\ place' \notin {"picker", "open", "prefs"}
  /\ place = "prefs" => place' = "list"
  /\ place = "list" => place' = "over" /\ ~ alive
RowsShown ==
  /\ place = "list" /\ place' = "picker" /\ UNCHANGED <<up, prefs, arranged>>
  /\ text # <<>> /\ Head(text).t \in {"list", "error"}
  /\ items' = <<>> \/ \E f \in Held(text, "list") : items' = f.items
  /\ rows' = sort_workspaces(parse_order(prefs), items')
RowsLeft ==
  /\ rows' = <<>> /\ items' = <<>> /\ UNCHANGED arranged /\ Unsaved
  /\ prefs' = NoPreferences
  /\ place' = "open" /\ place \in {"picker", "recheck"} /\ rows # <<>>
RowsArranged ==
  /\ place = "picker" /\ place' = "list" /\ UNCHANGED <<rows, items>>
  /\ \E f, g : Sent(<<f, g>>) /\ f.t = "save" /\ f.data = prefs' /\ g.t = "list"
  /\ \E w \in ToSet(rows) :
       \/ /\ prefs' = toggle_pin(prefs, rows, w)
          /\ arranged' = toggled_keys(prefs, rows, w)
       \/ \E u \in BOOLEAN :
            /\ can_move(prefs, rows, w, u)
            /\ prefs' = move_workspace(prefs, rows, w, u)
            /\ arranged' = moved_keys(prefs, rows, w, u)

Created == \A f \in Held(up', "create") : f \in Held(up, "create") \/ f.ws \in Workspaces

LEMMA MenuRows ==
  ASSUME StepInv, OrderTypes, Menu
  PROVE  /\ UNCHANGED <<catalog, refused>> /\ Created
         /\ goal'.op = "create" => goal'.ws \in Workspaces
         /\ place' = "list" => place # "list"
         /\ place' = "recheck" => rows' # <<>>
         /\ RowsKept \/ RowsShown \/ RowsLeft \/ RowsArranged
<1> USE DEF OnlyMenu, hub, menu, drop, wire, bounds, history
<1> DEFINE Rest == UNCHANGED <<catalog, refused>>
           Goal == goal'.op = "create" => goal'.ws \in Workspaces
           Same == UNCHANGED <<rows, items, arranged, prefs>>
<1>0. NoGoal.op = "none"
  BY DEF NoGoal
<1>1. ASSUME NEW f, Sent(<<f>>), f.t \notin {"create", "save"} PROVE Created /\ Unsaved
  BY <1>1, FramesSent DEF Created, Unsaved
<1>2. up' = up => Created /\ Unsaved
  BY DEF Created, Unsaved
<1>3. AskList.t = "list"
  BY DEF AskList
<1>4. \A w : Open(w).t = "open"
  BY DEF Open
<1>5. goal' = goal => Goal
  BY DEF OrderTypes
<1>6. goal' = NoGoal => Goal
  BY <1>0
<1>7. HasChosen => rows # <<>> /\ Chosen \in ToSet(rows)
  BY DEF HasChosen, Chosen, ToSet
<1>8. CASE PrefsLoaded
  <2>1. /\ Rest /\ UNCHANGED <<rows, items, arranged>> /\ Sent(<<AskList>>)
        /\ goal' = NoGoal /\ place = "prefs" /\ place' = "list"
    BY <1>8 DEF PrefsLoaded, GetAndSend, Relist
  <2> QED BY <1>1, <1>3, <1>6, <2>1 DEF RowsKept
<1>9. CASE PrefsLost
  <2>1. Rest /\ Same /\ up' = up /\ goal' = NoGoal /\ place = "prefs" /\ place' = "list"
    BY <1>9 DEF PrefsLost, Relist
  <2> QED BY <1>2, <1>6, <2>1 DEF RowsKept
<1>10. CASE ListShown
  <2>1. /\ Rest /\ up' = up /\ goal' = goal /\ place = "list" /\ place' = "picker"
        /\ arranged' = arranged /\ prefs' = prefs /\ Get
    BY <1>10 DEF ListShown, Show, GetOnly, Get
  <2>2. ASSUME NEW l, Show(l) PROVE items' = l /\ rows' = sort_workspaces(parse_order(prefs), items')
    BY <2>1, <2>2 DEF Show
  <2>3. CASE Got({"list"}) /\ Show(Head(text).items)
    <3>1. Head(text) \in Held(text, "list") /\ text # <<>> /\ Head(text).t = "list"
      BY <2>1, <2>3, FramesGot DEF Got
    <3> QED BY <1>2, <1>5, <2>1, <2>2, <2>3, <3>1 DEF RowsShown
  <2>4. CASE Got({"error"}) /\ Show(<<>>)
    <3>1. text # <<>> /\ Head(text).t = "error"
      BY <2>4 DEF Got
    <3> QED BY <1>2, <1>5, <2>1, <2>2, <2>4, <3>1 DEF RowsShown
  <2> QED BY <1>10, <2>3, <2>4 DEF ListShown
<1>11. CASE ListLost
  <2>1. /\ Rest /\ Same /\ UNCHANGED <<up, goal>> /\ place' = "over" /\ ~ alive
        /\ place # "prefs"
    BY <1>11 DEF ListLost, Lost
  <2> QED BY <1>2, <1>5, <2>1 DEF RowsKept
<1>12. CASE Quit
  <2>1. /\ Rest /\ Same /\ goal' = goal /\ place' = "over" /\ place = "picker"
        /\ Sent(<<[t |-> "close"]>>) /\ [t |-> "close"].t \notin {"create", "save"}
    BY <1>12 DEF Quit, SendOnly
  <2> QED BY <1>1, <1>5, <2>1 DEF RowsKept
<1>13. CASE Move \/ Decline \/ Dismiss
  <2>1. /\ Rest /\ Same /\ Sent(<<AskList>>) /\ goal' = NoGoal
        /\ place \in {"picker", "confirm", "agent", "message"} /\ place' = "list"
    BY <1>13 DEF Move, Decline, Dismiss, SendOnly, Relist
  <2> QED BY <1>1, <1>3, <1>6, <2>1 DEF RowsKept
<1>14. CASE AskConfirm
  <2>1. /\ Rest /\ Same /\ up' = up /\ place = "picker" /\ place' = "confirm"
        /\ \E op \in {"delete", "reset"} : goal' = [op |-> op, ws |-> Chosen]
    BY <1>14 DEF AskConfirm
  <2>2. goal'.op # "create"
    BY <2>1
  <2> QED BY <1>2, <2>1, <2>2 DEF RowsKept
<1>15. CASE Confirm
  <2>1. /\ Rest /\ Same /\ goal' = goal /\ place = "confirm" /\ place' = "request"
        /\ Sent(<<[t |-> goal.op, ws |-> goal.ws]>>)
    BY <1>15 DEF Confirm, SendOnly
  <2> DEFINE f == [t |-> goal.op, ws |-> goal.ws]
  <2>2. f.t = goal.op /\ f.ws = goal.ws
    OBVIOUS
  <2> HIDE DEF f
  <2>3. Held(up', "create") \subseteq Held(up, "create") \cup IF f.t = "create" THEN {f} ELSE {}
    BY <2>1, FramesSent DEF f
  <2>4. f.t = "create" => f.ws \in Workspaces
    BY <2>2 DEF OrderTypes
  <2>5. Created
    BY <2>3, <2>4 DEF Created
  <2>6. f.t # "save"
    BY <2>1, <2>2 DEF StepInv
  <2>7. Unsaved
    BY <2>1, <2>6, FramesSent DEF Unsaved, f
  <2> QED BY <1>5, <2>1, <2>5, <2>7 DEF RowsKept
<1>25. ASSUME NEW o, NEW w, NEW p, Rearranged(o, w, p)
       PROVE  /\ Created /\ Goal /\ place' = "list" /\ prefs' = p /\ arranged' = o
              /\ \E f, g : Sent(<<f, g>>) /\ f.t = "save" /\ f.data = prefs' /\ g.t = "list"
  <2> DEFINE f == [t |-> "save", data |-> p]
             g == AskList
  <2>1. /\ goal' = NoGoal /\ place' = "list" /\ prefs' = p /\ arranged' = o
        /\ Sent(<<f, g>>)
    BY <1>25 DEF Rearranged, Relist
  <2>2. f.t = "save" /\ f.data = p /\ g.t = "list"
    BY <1>3
  <2> HIDE DEF f, g
  <2>3. /\ IsQueue(up) /\ IsQueue(Append(up, f))
        /\ up' = IF alive THEN Append(Append(up, f), g) ELSE up
    BY <2>1, TwoSent
  <2>4. Held(Append(up, f), "create") = Held(up, "create")
    BY <2>2, <2>3, HeldAppend
  <2>5. Held(Append(Append(up, f), g), "create") = Held(Append(up, f), "create")
    BY <2>2, <2>3, HeldAppend
  <2>6. Created
    BY <2>3, <2>4, <2>5 DEF Created
  <2> QED BY <1>6, <2>1, <2>2, <2>6
<1>16. CASE TogglePin
  <2>1. /\ Rearranged(toggled_keys(prefs, rows, Chosen), Chosen, toggle_pin(prefs, rows, Chosen))
        /\ Rest /\ place = "picker" /\ Chosen \in ToSet(rows) /\ UNCHANGED <<rows, items>>
    BY <1>7, <1>16 DEF TogglePin, Rearranged
  <2>2. /\ Created /\ Goal /\ place' = "list" /\ prefs' = toggle_pin(prefs, rows, Chosen)
        /\ arranged' = toggled_keys(prefs, rows, Chosen)
        /\ \E f, g : Sent(<<f, g>>) /\ f.t = "save" /\ f.data = prefs' /\ g.t = "list"
    BY <1>25, <2>1
  <2> QED BY <2>1, <2>2 DEF RowsArranged
<1>17. CASE MoveWorkspace
  <2>1. PICK u \in BOOLEAN :
          /\ can_move(prefs, rows, Chosen, u)
          /\ Rearranged(moved_keys(prefs, rows, Chosen, u), Chosen,
                        move_workspace(prefs, rows, Chosen, u))
    BY <1>17 DEF MoveWorkspace
  <2>2. Rest /\ place = "picker" /\ Chosen \in ToSet(rows) /\ UNCHANGED <<rows, items>>
    BY <1>7, <1>17 DEF MoveWorkspace, Rearranged
  <2>3. /\ Created /\ Goal /\ place' = "list"
        /\ prefs' = move_workspace(prefs, rows, Chosen, u)
        /\ arranged' = moved_keys(prefs, rows, Chosen, u)
        /\ \E f, g : Sent(<<f, g>>) /\ f.t = "save" /\ f.data = prefs' /\ g.t = "list"
    BY <1>25, <2>1
  <2> QED BY <2>1, <2>2, <2>3 DEF RowsArranged
<1>18. CASE NameGiven
  <2>1. /\ Rest /\ Same /\ place = "picker" /\ place' = "agents"
        /\ \E w \in Workspaces : goal' = [op |-> "create", ws |-> w]
        /\ Sent(<<[t |-> "agents"]>>) /\ [t |-> "agents"].t \notin {"create", "save"}
    BY <1>18 DEF NameGiven, SendOnly
  <2>2. Goal
    BY <2>1
  <2> QED BY <1>1, <2>1, <2>2 DEF RowsKept
<1>19. CASE AgentsListed
  <2>1. /\ Rest /\ Same /\ up' = up /\ goal' \in {goal, NoGoal} /\ place = "agents"
        /\ place' \in {"over", "message", "agent"}
    BY <1>19 DEF AgentsListed, GetOnly
  <2> QED BY <1>2, <1>5, <1>6, <2>1 DEF RowsKept
<1>20. CASE AgentPicked
  <2>1. /\ Rest /\ Same /\ goal' = goal /\ place = "agent" /\ place' = "request"
        /\ Sent(<<[t |-> "create", ws |-> goal.ws]>>) /\ goal # NoGoal
    BY <1>20 DEF AgentPicked, SendOnly
  <2>2. goal.ws \in Workspaces
    BY <2>1 DEF StepInv, OrderTypes
  <2> DEFINE f == [t |-> "create", ws |-> goal.ws]
  <2>3. f.ws = goal.ws /\ f.t # "save"
    OBVIOUS
  <2> HIDE DEF f
  <2>4. Held(up', "create") \subseteq Held(up, "create") \cup {f}
    BY <2>1, FramesSent DEF f
  <2>5. Created
    BY <2>2, <2>3, <2>4 DEF Created
  <2>6. Unsaved
    BY <2>1, <2>3, FramesSent DEF Unsaved, f
  <2> QED BY <1>5, <2>1, <2>5, <2>6 DEF RowsKept
<1>21. CASE Requested
  <2>1. /\ Rest /\ Same /\ goal' = NoGoal /\ place = "request" /\ place' = "list"
        /\ Sent(<<AskList>>)
    BY <1>21 DEF Requested, GetAndSend, Relist
  <2> QED BY <1>1, <1>3, <1>6, <2>1 DEF RowsKept
<1>22. CASE RequestRefused
  <2>1. Rest /\ Same /\ UNCHANGED <<up, goal>> /\ place = "request" /\ place' = "message"
    BY <1>22 DEF RequestRefused, GetOnly
  <2> QED BY <1>2, <1>5, <2>1 DEF RowsKept
<1>23. CASE Pick
  <2>1. Rest /\ rows # <<>> /\ arranged' = arranged /\ place = "picker"
    BY <1>7, <1>23 DEF Pick
  <2>2. CASE LeaveMenu(Chosen) /\ SendOnly(Open(Chosen))
    <3>1. /\ rows' = <<>> /\ items' = <<>> /\ place' = "open" /\ prefs' = NoPreferences
          /\ Sent(<<Open(Chosen)>>)
          /\ goal' = [op |-> "open", ws |-> Chosen]
      BY <2>2 DEF LeaveMenu, SendOnly
    <3>2. goal'.op # "create"
      BY <3>1
    <3> QED BY <1>1, <1>4, <2>1, <3>1, <3>2 DEF RowsLeft
  <2>3. CASE place' = "recheck"
    <3>1. /\ Same /\ goal' = [op |-> "open", ws |-> Chosen]
          /\ Sent(<<[t |-> "agents"]>>) /\ [t |-> "agents"].t \notin {"create", "save"}
      BY <1>23, <2>3 DEF Pick, LeaveMenu, SendOnly
    <3>2. goal'.op # "create"
      BY <3>1
    <3> QED BY <1>1, <2>1, <2>3, <3>1, <3>2 DEF RowsKept
  <2> QED BY <1>23, <2>2, <2>3 DEF Pick
<1>24. CASE Rechecked
  <2>1. Rest /\ rows # <<>> /\ arranged' = arranged /\ place = "recheck"
    BY <1>24 DEF Rechecked, OrderTypes
  <2>2. CASE LeaveMenu(goal.ws) /\ GetAndSend(Open(goal.ws))
    <3>1. /\ rows' = <<>> /\ items' = <<>> /\ place' = "open" /\ prefs' = NoPreferences
          /\ Sent(<<Open(goal.ws)>>)
          /\ goal' = [op |-> "open", ws |-> goal.ws]
      BY <2>2 DEF LeaveMenu, GetAndSend
    <3>2. goal'.op # "create"
      BY <3>1
    <3> QED BY <1>1, <1>4, <2>1, <3>1, <3>2 DEF RowsLeft
  <2>3. CASE place' = "message" /\ UNCHANGED <<goal, menu>>
    <3>1. up' = up
      BY <1>24, <2>3 DEF Rechecked, LeaveMenu, GetOnly
    <3> QED BY <1>2, <1>5, <2>1, <2>3, <3>1 DEF RowsKept
  <2> QED BY <1>24, <2>2, <2>3 DEF Rechecked
<1> QED BY <1>8, <1>9, <1>10, <1>11, <1>12, <1>13, <1>14, <1>15, <1>16, <1>17,
           <1>18, <1>19, <1>20, <1>21, <1>22, <1>23, <1>24 DEF Menu

LEMMA WorkspaceFacts == Workspaces \subseteq Nat \X Nat /\ IsFiniteSet(Workspaces)
BY ClientAssumption

\* What pinning and moving do to the copy and the order that was given.
LEMMA Arranged ==
  ASSUME OrderTypes, RowsArranged
  PROVE  /\ Entries(prefs', Workspaces) /\ Ranks(prefs', arranged')
         /\ arranged' \in Seq(Workspaces)
<1>1. /\ Entries(prefs, Workspaces) /\ Lists(rows, DOMAIN items)
      /\ DOMAIN items \subseteq Workspaces /\ IsFiniteSet(Workspaces)
  BY WorkspaceFacts DEF OrderTypes, Listing
<1>2. ToSet(rows) = DOMAIN items
  BY <1>1, PositionFacts
<1>3. PICK w \in ToSet(rows) :
        \/ /\ prefs' = toggle_pin(prefs, rows, w)
           /\ arranged' = toggled_keys(prefs, rows, w)
        \/ \E u \in BOOLEAN :
             /\ can_move(prefs, rows, w, u)
             /\ prefs' = move_workspace(prefs, rows, w, u)
             /\ arranged' = moved_keys(prefs, rows, w, u)
  BY DEF RowsArranged
<1>4. CASE prefs' = toggle_pin(prefs, rows, w) /\ arranged' = toggled_keys(prefs, rows, w)
  BY <1>1, <1>2, <1>4, ToggleFacts
<1>5. ASSUME NEW u \in BOOLEAN, can_move(prefs, rows, w, u),
             prefs' = move_workspace(prefs, rows, w, u),
             arranged' = moved_keys(prefs, rows, w, u)
      PROVE  /\ Entries(prefs', Workspaces) /\ Ranks(prefs', arranged')
             /\ arranged' \in Seq(Workspaces)
  BY <1>1, <1>2, <1>5, MoveFacts
<1> QED BY <1>3, <1>4, <1>5

LEMMA MenuTypes ==
  ASSUME StepInv, OrderTypes, Menu
  PROVE  OrderTypes'
<1>1. /\ UNCHANGED <<stored, page>>
      /\ \A t : Held(text', t) \subseteq Held(text, t)
      /\ PrefsKept \/ PrefsDropped \/ PrefsCopied \/ PrefsChanged
  BY MenuFrames
<1>2. /\ catalog' = catalog /\ Created
      /\ goal'.op = "create" => goal'.ws \in Workspaces
      /\ place' = "recheck" => rows' # <<>>
      /\ RowsKept \/ RowsShown \/ RowsLeft \/ RowsArranged
  BY MenuRows
<1>3. Entries(prefs', Workspaces)
  <2>1. CASE PrefsKept
    BY <2>1 DEF PrefsKept, OrderTypes
  <2>2. CASE PrefsDropped
    BY <2>2, NoPreferencesTyped DEF PrefsDropped
  <2>3. CASE PrefsCopied
    <3>1. prefs' = NoPreferences \/ prefs' \in Copies
      BY <2>3 DEF PrefsCopied, Copies
    <3> QED BY <3>1, NoPreferencesTyped DEF OrderTypes
  <2>4. CASE PrefsChanged
    <3>1. place = "picker"
      BY <2>4 DEF PrefsChanged
    <3>2. CASE RowsArranged
      BY <3>2, Arranged
    <3>3. CASE RowsKept \/ RowsShown \/ RowsLeft
      <4>1. prefs' \in {prefs, NoPreferences}
        BY <3>1, <3>3 DEF RowsKept, RowsShown, RowsLeft
      <4> QED BY <4>1, NoPreferencesTyped DEF OrderTypes
    <3> QED BY <1>2, <3>2, <3>3
  <2> QED BY <1>1, <2>1, <2>2, <2>3, <2>4
<1>4. ASSUME NEW d \in Copies' PROVE Entries(d, Workspaces)
  <2>1. Copies' \subseteq Copies \cup {prefs'}
    BY <1>1 DEF Copies, PrefsKept, PrefsDropped, PrefsCopied, PrefsChanged
  <2> QED BY <1>3, <2>1 DEF OrderTypes
<1>5. \A f \in Held(text', "list") : Listing(f.items, Workspaces)
  BY <1>1 DEF OrderTypes
<1>6. \A f \in Held(up', "create") : f.ws \in Workspaces
  BY <1>2 DEF Created, OrderTypes
<1>7. /\ Listing(items', Workspaces) /\ Lists(rows', DOMAIN (items'))
      /\ arranged' \in Seq(Workspaces)
  <2>1. CASE RowsKept
    BY <2>1 DEF RowsKept, OrderTypes
  <2>2. CASE RowsShown
    <3>1. Listing(items', Workspaces)
      BY <2>2, NoPreferencesTyped DEF RowsShown, OrderTypes
    <3>2. Entries(prefs, Workspaces) /\ arranged' \in Seq(Workspaces)
      BY <2>2 DEF RowsShown, OrderTypes
    <3>3. Lists(sort_workspaces(parse_order(prefs), items'), DOMAIN (items'))
      BY <3>1, <3>2, SortFacts, WorkspaceFacts
    <3> QED BY <2>2, <3>1, <3>2, <3>3 DEF RowsShown
  <2>3. CASE RowsLeft
    <3>1. DOMAIN <<>> = {} /\ Listing(<<>>, Workspaces) /\ Lists(<<>>, {})
      BY NoPreferencesTyped
    <3> QED BY <2>3, <3>1 DEF RowsLeft, OrderTypes
  <2>4. CASE RowsArranged
    BY <2>4, Arranged DEF RowsArranged, OrderTypes
  <2> QED BY <1>2, <2>1, <2>2, <2>3, <2>4
<1>8. Entries(page', Workspaces)
  BY <1>1 DEF OrderTypes
<1> QED BY <1>2, <1>3, <1>4, <1>5, <1>6, <1>7, <1>8 DEF OrderTypes

\* The question for the list has been answered where its answer is read.
LEMMA ShownUnsaved ==
  ASSUME StepInv, OrderKept, RowsShown
  PROVE  Held(up, "save") = {}
<1>1. /\ place = "list" /\ text # <<>> /\ Head(text).t # "result" /\ refused = 0
      /\ Held(up, "save") # {} => Held(up, "list") # {}
  BY DEF RowsShown, OrderKept
<1>2. CASE ~ alive
  <2>1. up = <<>>
    BY <1>2 DEF StepInv
  <2>2. Held(<<>>, "save") = {}
    BY HeldStart
  <2> QED BY <2>1, <2>2
<1>3. CASE alive
  <2>1. Asked(up, text, "list") /\ IsQueue(text)
    BY <1>1, <1>3 DEF StepInv, Fits
  <2>2. ~ Only(text, Noise)
    BY <1>1, <2>1, OnlyTail, Kinds
  <2>3. Only(up, Silent)
    BY <2>1, <2>2 DEF Asked
  <2>4. Held(up, "list") = {}
    BY <2>3, NotHeld, Kinds
  <2> QED BY <1>1, <2>4
<1> QED BY <1>2, <1>3

LEMMA NothingSaved ==
  ASSUME NEW u, Held(u, "save") = {}
  PROVE  SavedFirst(u)
BY HeldAny DEF SavedFirst

LEMMA KeptRows ==
  ASSUME StepInv, OrderTypes, OrderKept, Menu, Undisturbed', RowsKept
  PROVE  OrderKept'
<1>1. /\ place \in MenuPlaces /\ place' \in MenuPlaces \cup {"open", "over"}
      /\ UNCHANGED <<alive, stored>>
      /\ \A t : Held(text', t) \subseteq Held(text, t)
      /\ PrefsKept \/ PrefsDropped \/ PrefsCopied \/ PrefsChanged
  BY MenuFrames
<1>2. /\ refused' = refused /\ refused = 0
      /\ place' = "list" => place # "list"
  BY MenuRows DEF OrderKept
<1>3. /\ UNCHANGED <<rows, arranged>> /\ Held(up', "save") \subseteq Held(up, "save")
      /\ prefs' = prefs \/ place = "prefs"
      /\ place' \notin {"picker", "open", "prefs"}
      /\ place = "prefs" => place' = "list"
      /\ place = "list" => place' = "over" /\ ~ alive
  BY DEF RowsKept, Unsaved
<1>4. Held(up, "save") = {}
  <2>1. CASE place = "list"
    <3>1. up = <<>>
      BY <1>3, <2>1 DEF StepInv
    <3>2. Held(<<>>, "save") = {}
      BY HeldStart
    <3> QED BY <3>1, <3>2
  <2> QED BY <2>1 DEF OrderKept
<1>5. Held(up', "save") = {} /\ SavedFirst(up')
  BY <1>3, <1>4, NothingSaved
<1>6. ASSUME ~ alive, place' = "list" PROVE Held(text', "list") = {}
  <2>1. place \notin {"list", "over"}
    BY <1>1, <1>2, <1>6 DEF MenuPlaces
  <2> QED BY <1>1, <1>2, <1>6, <2>1, NoListLeft
<1>7. Served' => Served
  BY <1>1, <1>3, <1>6 DEF Served, MenuPlaces
<1>8. ASSUME Loaded' PROVE Ranks(prefs', arranged')
  <2>1. alive /\ place' \in MenuPlaces \ {"prefs"}
    BY <1>1, <1>6, <1>8 DEF Loaded, MenuPlaces
  <2>2. CASE place = "prefs"
    <3>1. \A f \in Held(text, "prefs") : Ranks(f.data, arranged)
      BY <2>1, <2>2 DEF OrderKept
    <3>2. PrefsCopied
      BY <1>1, <2>1, <2>2 DEF PrefsKept, PrefsDropped, PrefsChanged
    <3>3. "load" \notin excused'
      BY DEF Undisturbed
    <3> QED BY <1>3, <3>1, <3>2, <3>3 DEF PrefsCopied
  <2>3. CASE place # "prefs"
    <3>1. Loaded
      BY <1>1, <2>1, <2>3 DEF Loaded
    <3> QED BY <1>3, <2>3, <3>1 DEF OrderKept
  <2> QED BY <2>2, <2>3
<1>9. OrderShown'
  BY <1>3 DEF OrderShown
<1> QED BY <1>1, <1>2, <1>3, <1>4, <1>5, <1>7, <1>8, <1>9 DEF OrderKept

LEMMA ShownRows ==
  ASSUME StepInv, OrderTypes, OrderTypes', OrderKept, Menu, Undisturbed', RowsShown
  PROVE  OrderKept'
<1>1. /\ UNCHANGED <<alive, stored, refused>>
      /\ \A t : Held(text', t) \subseteq Held(text, t)
  BY MenuFrames, MenuRows
<1>2. /\ place = "list" /\ place' = "picker" /\ UNCHANGED <<up, prefs, arranged>>
      /\ items' = <<>> \/ Held(text, "list") # {}
      /\ rows' = sort_workspaces(parse_order(prefs), items')
  BY DEF RowsShown
<1>3. Held(up', "save") = {} /\ SavedFirst(up')
  BY <1>2, ShownUnsaved, NothingSaved
<1>4. Lists(rows', DOMAIN (items')) /\ Listing(items', Workspaces)
  BY DEF OrderTypes
<1>5. ASSUME rows' # <<>> PROVE items' # <<>>
  <2>1. SUFFICES ASSUME items' = <<>> PROVE rows' = <<>>
    BY <1>5
  <2>2. Lists(rows', {})
    BY <1>4, <2>1
  <2>3. rows' \in Seq({})
    BY <2>2 DEF Lists
  <2> QED BY <2>3
<1>6. Served' => Served
  BY <1>1, <1>2, <1>5 DEF Served
<1>7. Loaded' => Loaded
  BY <1>1, <1>2 DEF Loaded, MenuPlaces
<1>8. OrderShown'
  <2>1. SUFFICES ASSUME NEW a \in ToSet(arranged'), NEW b \in ToSet(arranged'),
                        a \in ToSet(rows'), b \in ToSet(rows')
                 PROVE  Before(rows', a, b) <=> Before(arranged', a, b)
    BY DEF OrderShown
  <2>2. ToSet(rows') = DOMAIN (items')
    BY <1>4, PositionFacts
  <2>3. items' # <<>>
    BY <2>1, <2>2
  <2>4. Ranks(prefs, arranged)
    BY <1>2, <2>3 DEF OrderKept, Loaded
  <2>5. /\ Entries(prefs, Workspaces) /\ arranged \in Seq(Workspaces)
        /\ a \in ToSet(arranged) /\ b \in ToSet(arranged)
    BY <1>2, <2>1 DEF OrderTypes
  <2>6. Before(sort_workspaces(parse_order(prefs), items'), a, b) <=> Before(arranged, a, b)
    BY <1>4, <2>1, <2>2, <2>4, <2>5, RanksShown, WorkspaceFacts
  <2> QED BY <1>2, <2>6
<1>9. Held(up, "save") = {} /\ refused' = 0
  BY <1>1, ShownUnsaved DEF OrderKept
<1> QED BY <1>1, <1>2, <1>3, <1>6, <1>7, <1>8, <1>9 DEF OrderKept

LEMMA LeftRows ==
  ASSUME StepInv, OrderTypes, OrderKept, Menu, Undisturbed', RowsLeft
  PROVE  OrderKept'
<1>1. UNCHANGED <<alive, stored, refused>>
  BY MenuFrames, MenuRows
<1>2. /\ UNCHANGED arranged /\ Held(up', "save") \subseteq Held(up, "save")
      /\ place' = "open" /\ place \in {"picker", "recheck"} /\ rows # <<>>
  BY DEF RowsLeft, Unsaved
<1>3. Held(up, "save") = {} /\ Served
  BY <1>2 DEF OrderKept, Served, MenuPlaces
<1>4. Held(up', "save") = {} /\ SavedFirst(up')
  BY <1>2, <1>3, NothingSaved
<1>5. ~ Loaded'
  BY <1>2 DEF Loaded, MenuPlaces
<1>6. OrderShown'
  BY <1>2 DEF OrderShown
<1> QED BY <1>1, <1>2, <1>3, <1>4, <1>5, <1>6 DEF OrderKept

LEMMA ArrangedRows ==
  ASSUME StepInv, OrderTypes, OrderKept, Menu, Undisturbed', RowsArranged
  PROVE  OrderKept'
<1>1. /\ UNCHANGED <<alive, stored, refused>>
      /\ \A t : Held(text', t) \subseteq Held(text, t)
  BY MenuFrames, MenuRows
<1>2. place = "picker" /\ place' = "list" /\ refused = 0 /\ Held(up, "save") = {}
  BY DEF RowsArranged, OrderKept
<1>3. Ranks(prefs', arranged')
  BY Arranged
<1>4. PICK f, g : Sent(<<f, g>>) /\ f.t = "save" /\ f.data = prefs' /\ g.t = "list"
  BY DEF RowsArranged
<1>5. /\ IsQueue(up) /\ IsQueue(Append(up, f))
      /\ up' = IF alive THEN Append(Append(up, f), g) ELSE up
  BY <1>4, TwoSent
<1>6. OrderShown'
  BY <1>2 DEF OrderShown
<1>7. CASE ~ alive
  <2>1. Held(text, "list") = {}
    BY <1>2, <1>7, NoListLeft
  <2>2. ~ Served' /\ ~ Loaded'
    BY <1>1, <1>2, <1>7, <2>1 DEF Served, Loaded
  <2>3. up' = up /\ SavedFirst(up')
    BY <1>5, <1>7 DEF OrderKept
  <2> QED BY <1>1, <1>2, <1>6, <1>7, <2>2, <2>3 DEF OrderKept
<1>8. CASE alive
  <2> DEFINE v == Append(up, f)
             u == Append(v, g)
  <2>1. up' = u /\ IsQueue(v)
    BY <1>5, <1>8
  <2>2. Only(up, Silent)
    BY <1>2, <1>8 DEF StepInv, Fits, Quiet
  <2>3. Held(v, "save") = {f}
    <3>1. Held(v, "save") = Held(up, "save") \cup {f}
      BY <1>4, <1>5, HeldAppend
    <3> QED BY <1>2, <3>1
  <2>4. Held(u, "save") = {f} /\ g \in Held(u, "list")
    <3> HIDE DEF v
    <3>1. Held(u, "save") = Held(v, "save")
      BY <1>4, <2>1, HeldAppend
    <3>2. Held(u, "list") = Held(v, "list") \cup {g}
      BY <1>4, <2>1, HeldAppend
    <3> HIDE DEF u
    <3> QED BY <2>3, <3>1, <3>2
  <2>5. SavedFirst(u)
    <3>1. /\ Len(up) \in Nat /\ DOMAIN up = 1 .. Len(up)
          /\ DOMAIN v = 1 .. Len(up) + 1
          /\ \A i \in 1 .. Len(up) : v[i] = up[i]
          /\ v[Len(up) + 1] = f
      BY <1>5, QueueAppend
    <3>2. Only(v, Silent)
      BY <1>4, <1>5, <2>2, OnlyAppend, Kinds
    <3> HIDE DEF v
    <3>3. /\ Len(v) \in Nat /\ DOMAIN v = 1 .. Len(v)
          /\ DOMAIN u = 1 .. Len(v) + 1
          /\ \A i \in 1 .. Len(v) : u[i] = v[i]
      BY <2>1, QueueAppend
    <3>4. \A i \in 1 .. Len(v) : u[i].t # "list"
      BY <3>2, <3>3, Kinds DEF Only
    <3> HIDE DEF u
    <3>5. ASSUME NEW i \in DOMAIN u, NEW j \in DOMAIN u, i < j PROVE u[i].t # "list"
      <4>1. i \in 1 .. Len(v)
        BY <3>3, <3>5
      <4> QED BY <3>4, <4>1
    <3> QED BY <3>5 DEF SavedFirst
  <2> HIDE DEF u
  <2>6. Held(up', "save") = {f} /\ Held(up', "list") # {} /\ SavedFirst(up')
    BY <2>1, <2>4, <2>5
  <2>7. \A h \in Held(up', "save") : Ranks(h.data, arranged')
    BY <1>3, <1>4, <2>6
  <2> QED BY <1>1, <1>2, <1>3, <1>6, <2>6, <2>7 DEF OrderKept
<1> QED BY <1>7, <1>8

LEMMA OrderMenu ==
  ASSUME StepInv, OrderInv, Menu
  PROVE  OrderInv'
<1>1. OrderTypes /\ OrderTypes'
  BY MenuTypes DEF OrderInv
<1>2. ASSUME Undisturbed' PROVE OrderKept'
  <2>1. excused \subseteq excused'
    BY MenuFrames
  <2>2. OrderKept
    BY <1>2, <2>1 DEF OrderInv, Undisturbed
  <2>3. RowsKept \/ RowsShown \/ RowsLeft \/ RowsArranged
    BY <1>1, MenuRows
  <2> QED BY <1>1, <1>2, <2>2, <2>3, KeptRows, ShownRows, LeftRows, ArrangedRows
<1> QED BY <1>1, <1>2 DEF OrderInv

-----------------------------------------------------------------------------
(* The order out of the menu                                               *)

\* Nothing about the order is touched, and nothing is sent that asks for it.
OrderStays ==
  /\ UNCHANGED <<place, alive, prefs, rows, items, refused>>
  /\ up' = up \/ \E f : Sent(<<f>>) /\ f.t \in {"upload", "input"}

\* From the choice of a row until a menu is entered anew.
OrderOut ==
  /\ place \in {"open", "hold", "relay", "redial"}
  /\ place' \in {"open", "hold", "relay", "redial", "prefs", "over"}
  /\ place' = "prefs" /\ alive' => alive /\ place \in {"hold", "relay"}
  /\ \/ UNCHANGED <<rows, items>>
     \/ rows' = <<>> /\ items' = <<>>
  /\ refused' \in {0, refused}

LEMMA OtherRows ==
  ASSUME StepInv, Skip \/ Session \/ Relay
  PROVE  /\ UNCHANGED <<arranged, catalog>>
         /\ goal' \in {goal, NoGoal}
         /\ Held(up', "create") \subseteq Held(up, "create")
         /\ OrderStays \/ OrderOut
<1> USE DEF hub, menu, drop, wire, bounds, history, OnlyDrop
<1> DEFINE Rest == UNCHANGED <<arranged, catalog>> /\ goal' \in {goal, NoGoal}
           Up == Held(up', "create") \subseteq Held(up, "create")
           Same == UNCHANGED <<place, alive, prefs, rows, items, refused>>
           Rows == UNCHANGED <<rows, items>> \/ (rows' = <<>> /\ items' = <<>>)
<1>1. ASSUME NEW f, Sent(<<f>>), f.t # "create" PROVE Up
  BY <1>1, FramesSent
<1>2. \A w : Open(w).t = "open"
  BY DEF Open
<1>3. CASE Skip
  <2>1. Rest /\ Same /\ up' = up
    BY <1>3 DEF Skip, GetOnly, Get
  <2> QED BY <2>1 DEF OrderStays
<1>4. CASE Opened \/ OpenRefused
  <2>1. /\ Rest /\ Rows /\ refused' = refused /\ up' = up
        /\ place = "open" /\ place' \in {"relay", "hold"}
    BY <1>4 DEF Opened, OpenRefused, GetOnly
  <2> QED BY <2>1 DEF OrderOut
<1>5. CASE TryAgain
  <2>1. /\ Rest /\ Rows /\ refused' = refused /\ Sent(<<Open(goal.ws)>>)
        /\ place = "hold" /\ place' = "open"
    BY <1>5 DEF TryAgain, SendOnly
  <2> QED BY <1>1, <1>2, <2>1 DEF OrderOut
<1>6. CASE GiveUp
  <2>1. /\ Rest /\ Rows /\ UNCHANGED <<alive, refused>> /\ Sent(<<[t |-> "prefs"]>>)
        /\ [t |-> "prefs"].t # "create" /\ place = "hold" /\ place' = "prefs"
    BY <1>6 DEF GiveUp, EnterMenu, SendOnly
  <2> QED BY <1>1, <2>1 DEF OrderOut
<1>7. CASE HubLost
  <2>1. /\ Rest /\ Rows /\ UNCHANGED <<up, refused>>
        /\ place \in {"open", "relay"} /\ place' = "redial"
    BY <1>7 DEF HubLost
  <2> QED BY <2>1 DEF OrderOut
<1>8. CASE Reconnected
  <2>1. /\ Rest /\ Rows /\ refused' = 0 /\ up' = <<Open(goal.ws)>>
        /\ place = "redial" /\ place' = "open"
    BY <1>8 DEF Reconnected
  <2>2. Held(<<Open(goal.ws)>>, "create") = {}
    BY <1>2, HeldStart
  <2> QED BY <2>1, <2>2 DEF OrderOut
<1>9. CASE ReconnectRejected
  <2>1. /\ Rest /\ Rows /\ UNCHANGED <<up, alive, refused>>
        /\ place = "redial" /\ place' = "prefs"
    BY <1>9 DEF ReconnectRejected, EnterMenu
  <2>2. ~ alive
    BY <2>1 DEF StepInv
  <2> QED BY <2>1, <2>2 DEF OrderOut
<1>10. CASE ReconnectCancelled
  <2>1. /\ Rest /\ Rows /\ UNCHANGED <<up, refused>>
        /\ place = "redial" /\ place' = "over"
    BY <1>10 DEF ReconnectCancelled
  <2> QED BY <2>1 DEF OrderOut
<1>11. CASE SessionEnds
  <2>1. Rest /\ refused' = refused /\ place = "relay" /\ Get
    BY <1>11 DEF SessionEnds, GetAndSend, EnterMenu
  <2>2. alive' = alive
    BY <2>1 DEF Get
  <2>3. CASE place' = "open" /\ GetAndSend(Open(goal.ws)) /\ UNCHANGED <<goal, menu>>
    <3>1. Sent(<<Open(goal.ws)>>) /\ Rows
      BY <2>3 DEF GetAndSend
    <3> QED BY <1>1, <1>2, <2>1, <2>3, <3>1 DEF OrderOut
  <2>4. CASE EnterMenu /\ GetAndSend([t |-> "prefs"])
    <3>1. /\ Sent(<<[t |-> "prefs"]>>) /\ [t |-> "prefs"].t # "create" /\ Rows
          /\ place' = "prefs"
      BY <2>4 DEF GetAndSend, EnterMenu
    <3> QED BY <1>1, <2>1, <2>2, <3>1 DEF OrderOut
  <2> QED BY <1>11, <2>3, <2>4 DEF SessionEnds
<1>12. ASSUME NEW b \in Batches, Drop(b) \/ UploadAnswered(b) \/ UploadGivenUp(b)
       PROVE  Rest /\ Up /\ OrderStays
  <2>1. Rest /\ Same /\ up' = up
    BY <1>12 DEF Drop, UploadAnswered, UploadGivenUp
  <2> QED BY <2>1 DEF OrderStays
<1>13. ASSUME NEW b \in Batches, Upload(b) PROVE Rest /\ Up /\ OrderStays
  <2> DEFINE f == [t |-> "upload", r |-> Request(b)]
  <2>1. Rest /\ Same /\ Sent(<<f>>)
    BY <1>13 DEF Upload, SendOnly
  <2>2. f.t = "upload"
    OBVIOUS
  <2> HIDE DEF f
  <2> QED BY <1>1, <2>1, <2>2 DEF OrderStays
<1>14. ASSUME NEW b \in Batches, Inject(b) \/ Respond(b)
       PROVE  Rest /\ Up /\ OrderStays
  <2> DEFINE f == [t |-> "input"]
  <2>1. Rest /\ Same /\ (up' = up \/ Sent(<<f>>))
    BY <1>14 DEF Inject, Respond, SendOnly
  <2>2. f.t = "input"
    OBVIOUS
  <2> HIDE DEF f
  <2> QED BY <1>1, <2>1, <2>2 DEF OrderStays
<1>15. CASE RouteResult \/ RelaySkips
  <2>1. Rest /\ Same /\ up' = up
    BY <1>15 DEF RouteResult, RelaySkips, GetOnly, Get
  <2> QED BY <2>1 DEF OrderStays
<1> QED BY <1>3, <1>4, <1>5, <1>6, <1>7, <1>8, <1>9, <1>10, <1>11, <1>12, <1>13,
           <1>14, <1>15 DEF Session, Relay

LEMMA OrderOther ==
  ASSUME StepInv, OrderInv, Skip \/ Session \/ Relay
  PROVE  OrderInv'
<1>1. /\ UNCHANGED <<stored, page, excused>>
      /\ \A t : Held(text', t) \subseteq Held(text, t)
      /\ Held(up', "save") \subseteq Held(up, "save")
      /\ \/ prefs' = prefs /\ place' = place /\ alive' = alive
         \/ prefs' \in {prefs, NoPreferences} /\ place' \notin MenuPlaces \ {"prefs"}
  BY OtherFrames
<1>2. /\ UNCHANGED <<arranged, catalog>>
      /\ goal' \in {goal, NoGoal}
      /\ Held(up', "create") \subseteq Held(up, "create")
      /\ OrderStays \/ OrderOut
  BY OtherRows
<1>3. OrderTypes'
  <2>1. Copies' \subseteq Copies
    BY <1>1, FewerCopies
  <2>2. Entries(prefs', Workspaces)
    BY <1>1, NoPreferencesTyped DEF OrderInv, OrderTypes
  <2>3. Listing(items', Workspaces) /\ Lists(rows', DOMAIN (items'))
    <3>1. DOMAIN <<>> = {} /\ Listing(<<>>, Workspaces) /\ Lists(<<>>, {})
      BY NoPreferencesTyped
    <3>2. UNCHANGED <<rows, items>> \/ (rows' = <<>> /\ items' = <<>>)
      BY <1>2 DEF OrderStays, OrderOut
    <3> QED BY <3>1, <3>2 DEF OrderInv, OrderTypes
  <2>4. goal'.op = "create" => goal'.ws \in Workspaces
    BY <1>2 DEF OrderInv, OrderTypes, NoGoal
  <2>5. place' = "recheck" => rows' # <<>>
    BY <1>2 DEF OrderInv, OrderTypes, OrderStays, OrderOut
  <2>6. /\ \A d \in Copies' : Entries(d, Workspaces)
        /\ \A f \in Held(text', "list") : Listing(f.items, Workspaces)
        /\ \A f \in Held(up', "create") : f.ws \in Workspaces
        /\ catalog' \subseteq Workspaces /\ arranged' \in Seq(Workspaces)
        /\ Entries(page', Workspaces)
    BY <1>1, <1>2, <2>1 DEF OrderInv, OrderTypes
  <2> QED BY <2>2, <2>3, <2>4, <2>5, <2>6 DEF OrderTypes
<1>4. ASSUME Undisturbed' PROVE OrderKept'
  <2>1. OrderKept
    BY <1>1, <1>4 DEF OrderInv, Undisturbed
  <2>2. CASE OrderStays
    <3>1. UNCHANGED <<place, alive, prefs, rows, items, refused>>
      BY <2>2 DEF OrderStays
    <3>2. /\ Held(up', "save") = Held(up, "save") /\ Held(up', "list") = Held(up, "list")
          /\ SavedFirst(up')
      <4>1. CASE up' = up
        BY <2>1, <4>1 DEF OrderKept
      <4>2. ASSUME NEW f, Sent(<<f>>), f.t \in {"upload", "input"}, alive
            PROVE  /\ Held(up', "save") = Held(up, "save")
                   /\ Held(up', "list") = Held(up, "list") /\ SavedFirst(up')
        <5>1. up' = Append(up, f) /\ IsQueue(up)
          BY <4>2, SentFacts DEF StepInv
        <5>2. /\ Len(up) \in Nat /\ DOMAIN up = 1 .. Len(up)
              /\ DOMAIN Append(up, f) = 1 .. Len(up) + 1
              /\ \A i \in 1 .. Len(up) : Append(up, f)[i] = up[i]
              /\ Append(up, f)[Len(up) + 1] = f
          BY <5>1, QueueAppend
        <5>3. SavedFirst(Append(up, f))
          <6>1. ASSUME NEW i \in DOMAIN Append(up, f), NEW j \in DOMAIN Append(up, f),
                       i < j, Append(up, f)[i].t = "list"
                PROVE  Append(up, f)[j].t # "save"
            <7>1. i \in DOMAIN up /\ up[i].t = "list"
              BY <5>2, <6>1
            <7>2. CASE j \in DOMAIN up
              BY <2>1, <5>2, <6>1, <7>1, <7>2 DEF OrderKept, SavedFirst
            <7>3. CASE j \notin DOMAIN up
              BY <4>2, <5>2, <7>3
            <7> QED BY <7>2, <7>3
          <6> QED BY <6>1 DEF SavedFirst
        <5>4. /\ Held(Append(up, f), "save") = Held(up, "save")
              /\ Held(Append(up, f), "list") = Held(up, "list")
          BY <4>2, <5>1, HeldAppend
        <5> QED BY <5>1, <5>3, <5>4
      <4>3. CASE \E f : Sent(<<f>>) /\ f.t \in {"upload", "input"}
        <5>1. CASE alive
          BY <4>2, <4>3, <5>1
        <5>2. CASE ~ alive
          BY <4>1, <4>3, <5>2 DEF Sent
        <5> QED BY <5>1, <5>2
      <4> QED BY <2>2, <4>1, <4>3 DEF OrderStays
    <3>3. (Served' => Served) /\ (Loaded' => Loaded)
      BY <1>1, <3>1 DEF Served, Loaded
    <3>4. OrderShown'
      BY <1>1, <1>2, <2>1, <3>1 DEF OrderKept, OrderShown
    <3> QED BY <1>1, <1>2, <2>1, <3>1, <3>2, <3>3, <3>4 DEF OrderKept
  <2>3. CASE OrderOut
    <3>1. /\ place \in {"open", "hold", "relay", "redial"}
          /\ place' \in {"open", "hold", "relay", "redial", "prefs", "over"}
          /\ place' = "prefs" /\ alive' => alive /\ place \in {"hold", "relay"}
          /\ refused' \in {0, refused}
      BY <2>3 DEF OrderOut
    <3>2. Held(up, "save") = {} /\ Served /\ refused = 0
      BY <2>1, <3>1 DEF OrderKept, Served
    <3>3. Held(up', "save") = {} /\ SavedFirst(up')
      BY <1>1, <3>2, NothingSaved
    <3>4. ~ Loaded'
      BY <3>1 DEF Loaded, MenuPlaces
    <3>5. place' = "prefs" /\ alive' => Held(text', "prefs") = {}
      <4>1. place' = "prefs" /\ alive' => Held(text, "prefs") = {}
        BY <3>1, <3>2, NoPrefsLeft
      <4> QED BY <1>1, <4>1
    <3>6. OrderShown'
      BY <3>1 DEF OrderShown
    <3> QED BY <1>1, <1>2, <2>1, <3>1, <3>2, <3>3, <3>4, <3>5, <3>6 DEF OrderKept
  <2> QED BY <1>2, <2>2, <2>3
<1> QED BY <1>3, <1>4 DEF OrderInv

-----------------------------------------------------------------------------
(* The order and the hub                                                   *)

\* The row is as it was, or a save of the client's copy.
StoredKept ==
  \/ /\ stored'.order = stored.order
     /\ Held(up', "save") = {} => Held(up, "save") = {}
  \/ \E f \in Held(up, "save") : stored' = f.data

LEMMA HubOrder ==
  ASSUME StepInv, OrderInv,
         UNCHANGED <<place, goal, prefs, rows, items, arranged>>,
         excused \subseteq excused', alive' => alive, alive \/ text' = text,
         catalog' \subseteq Workspaces, Entries(stored', Workspaces),
         page' = page \/ Entries(page', Workspaces),
         \A f \in Held(text', "prefs") :
           \/ f \in Held(text, "prefs") \/ f.data = stored
           \/ f.data = NoPreferences /\ "load" \in excused',
         \A f \in Held(text', "list") :
           f \in Held(text, "list") \/ Listing(f.items, Workspaces),
         Held(up', "save") \subseteq Held(up, "save"),
         Held(up', "create") \subseteq Held(up, "create"),
         Undisturbed' =>
           /\ refused' = refused /\ SavedFirst(up') /\ StoredKept
           /\ Held(up', "save") # {} => Held(up', "list") = Held(up, "list")
  PROVE  OrderInv'
<1>1. OrderTypes'
  <2>1. \A d \in Copies' : d \in Copies \cup {NoPreferences, stored'}
    BY DEF Copies
  <2>2. \A d \in Copies' : Entries(d, Workspaces)
    BY <2>1, NoPreferencesTyped DEF OrderInv, OrderTypes
  <2> QED BY <2>2 DEF OrderInv, OrderTypes
<1>2. ASSUME Undisturbed' PROVE OrderKept'
  <2>1. OrderKept /\ "load" \notin excused'
    BY <1>2 DEF OrderInv, Undisturbed
  <2>2. (Served' => Served) /\ (Loaded' => Loaded)
    <3>1. CASE alive
      BY <3>1 DEF Served, Loaded, MenuPlaces
    <3>2. CASE ~alive
      <4>1. text' = text /\ ~alive'
        BY <3>2
      <4>2. Held(text', "list") = Held(text, "list")
        BY <4>1
      <4> QED BY <3>2, <4>1, <4>2 DEF Served, Loaded
    <3> QED BY <3>1, <3>2
  <2>3. ASSUME Served'
        PROVE  /\ \A f \in Held(up', "save") : Ranks(f.data, arranged')
               /\ Held(up', "save") = {} => Ranks(stored', arranged')
    <3>1. /\ \A f \in Held(up, "save") : Ranks(f.data, arranged)
          /\ Held(up, "save") = {} => Ranks(stored, arranged)
      BY <2>1, <2>2, <2>3 DEF OrderKept
    <3>2. StoredKept
      BY <1>2
    <3>3. CASE \E f \in Held(up, "save") : stored' = f.data
      BY <3>1, <3>3
    <3>4. CASE stored'.order = stored.order /\ (Held(up', "save") = {} => Held(up, "save") = {})
      BY <3>1, <3>4 DEF Ranks
    <3> QED BY <3>2, <3>3, <3>4 DEF StoredKept
  <2>4. ASSUME alive', place' = "prefs", NEW f \in Held(text', "prefs")
        PROVE  Ranks(f.data, arranged')
    <3>1. alive /\ place = "prefs"
      BY <2>4
    <3>2. Held(up, "save") = {} /\ Served
      BY <2>1, <3>1 DEF OrderKept, Served
    <3>3. Ranks(stored, arranged) /\ \A g \in Held(text, "prefs") : Ranks(g.data, arranged)
      BY <2>1, <3>1, <3>2 DEF OrderKept
    <3> QED BY <2>1, <2>4, <3>3
  <2>5. OrderShown'
    BY <1>2, <2>1 DEF OrderKept, OrderShown, Undisturbed
  <2> QED BY <1>2, <2>1, <2>2, <2>3, <2>4, <2>5 DEF OrderKept
<1> QED BY <1>1, <1>2 DEF OrderInv

\* The hub takes the next frame.
LEMMA TakenOrder ==
  ASSUME StepInv, NEW k, Take(k)
  PROVE  /\ alive /\ Held(up', "save") \subseteq Held(up, "save")
         /\ Held(up', "create") \subseteq Held(up, "create")
         /\ k # "save" => Held(up', "save") = Held(up, "save")
         /\ k # "list" => Held(up', "list") = Held(up, "list")
         /\ k = "save" => Head(up) \in Held(up, "save")
         /\ k = "create" => Head(up) \in Held(up, "create")
         /\ SavedFirst(up) =>
              /\ SavedFirst(up')
              /\ k = "list" => Held(up', "save") = {}
<1>1. /\ alive /\ up # <<>> /\ up' = Tail(up) /\ Head(up).t = k /\ IsQueue(up)
  BY DEF Take, StepInv
<1>2. /\ Len(up) \in Nat \ {0} /\ DOMAIN up = 1 .. Len(up)
      /\ DOMAIN Tail(up) = 1 .. Len(up) - 1
      /\ \A i \in 1 .. Len(up) - 1 : Tail(up)[i] = up[i + 1]
      /\ Head(up) = up[1]
  BY <1>1, QueueTail
<1>3. ASSUME SavedFirst(up)
      PROVE  /\ SavedFirst(Tail(up))
             /\ k = "list" => Held(Tail(up), "save") = {}
  <2>1. ASSUME NEW i \in DOMAIN Tail(up), NEW j \in DOMAIN Tail(up), i < j,
               Tail(up)[i].t = "list"
        PROVE  Tail(up)[j].t # "save"
    <3>1. /\ i + 1 \in DOMAIN up /\ j + 1 \in DOMAIN up /\ i + 1 < j + 1
          /\ Tail(up)[i] = up[i + 1] /\ Tail(up)[j] = up[j + 1]
      BY <1>2, <2>1
    <3> QED BY <1>3, <2>1, <3>1 DEF SavedFirst
  <2>2. ASSUME k = "list", NEW i \in DOMAIN Tail(up) PROVE Tail(up)[i].t # "save"
    <3>1. /\ 1 \in DOMAIN up /\ i + 1 \in DOMAIN up /\ 1 < i + 1
          /\ Tail(up)[i] = up[i + 1] /\ up[1].t = "list"
      BY <1>1, <1>2, <2>2
    <3> QED BY <1>3, <3>1 DEF SavedFirst
  <2>3. k = "list" => Held(Tail(up), "save") = {}
    BY <2>2, HeldAny
  <2> QED BY <2>1, <2>3 DEF SavedFirst
<1> QED BY <1>1, <1>3, FramesTaken

LEMMA OrderHub ==
  ASSUME StepInv, OrderInv, Hub \/ World
  PROVE  OrderInv'
<1> USE DEF hub, menu, wire, OnlyHub
<1> DEFINE Same == UNCHANGED <<place, goal, prefs, rows, items, arranged>>
           Rest == /\ Same /\ excused \subseteq excused' /\ (alive' => alive)
                   /\ page' = page \/ Entries(page', Workspaces)
                   /\ (Undisturbed' => refused' = refused)
           Told(t) == Held(text', t) = Held(text, t)
<1>1. /\ catalog \subseteq Workspaces /\ Entries(stored, Workspaces)
      /\ \A f \in Held(up, "create") : f.ws \in Workspaces
      /\ \A f \in Held(up, "save") : Entries(f.data, Workspaces)
  BY DEF OrderInv, OrderTypes, Copies
<1>2. excused \subseteq excused' /\ Undisturbed' => OrderKept
  BY DEF OrderInv, Undisturbed
<1>3. ASSUME NEW f, Reply(f) PROVE \A t : f.t # t => Told(t)
  BY <1>3, FramesReplied
<1>4. text' = text => \A t : Told(t)
  OBVIOUS
\* A frame is taken that is no save, or none.
<1>5. ASSUME NEW k, Take(k), k # "save", Rest, stored' = stored,
             catalog' \subseteq Workspaces,
             \A f \in Held(text', "prefs") :
               \/ f \in Held(text, "prefs") \/ f.data = stored
               \/ f.data = NoPreferences /\ "load" \in excused',
             \A f \in Held(text', "list") :
               f \in Held(text, "list") \/ Listing(f.items, Workspaces)
      PROVE  OrderInv'
  <2>1. /\ alive /\ Held(up', "save") = Held(up, "save")
        /\ Held(up', "create") \subseteq Held(up, "create")
        /\ k # "list" => Held(up', "list") = Held(up, "list")
        /\ SavedFirst(up) => /\ SavedFirst(up')
                             /\ k = "list" => Held(up', "save") = {}
    BY <1>5, TakenOrder
  <2>2. ASSUME Undisturbed'
        PROVE  /\ refused' = refused /\ SavedFirst(up') /\ StoredKept
               /\ Held(up', "save") # {} => Held(up', "list") = Held(up, "list")
    <3>1. SavedFirst(up)
      BY <1>2, <1>5, <2>2 DEF OrderKept
    <3> QED BY <1>5, <2>1, <2>2, <3>1 DEF StoredKept
  <2> QED BY <1>1, <1>5, <2>1, <2>2, HubOrder
<1>6. ASSUME up' = up, alive \/ text' = text, Rest,
             Undisturbed' => stored'.order = stored.order,
             Entries(stored', Workspaces), catalog' \subseteq Workspaces,
             Told("prefs"), Told("list")
      PROVE  OrderInv'
  <2>1. ASSUME Undisturbed'
        PROVE  /\ refused' = refused /\ SavedFirst(up') /\ StoredKept
    BY <1>2, <1>6, <2>1 DEF OrderKept, StoredKept
  <2> QED BY <1>1, <1>6, <2>1, HubOrder
<1>7. CASE HubList
  <2> DEFINE l == [w \in catalog |-> w[1] \in online]
             f == [t |-> "list", q |-> Frame.q, items |-> l]
  <2>1. Take("list") /\ Rest /\ UNCHANGED <<stored, catalog>> /\ (Reply(f) \/ ErrorReply)
    BY <1>7 DEF HubList
  <2>2. Listing(l, Workspaces) /\ f.t = "list" /\ f.items = l
    <3>1. DOMAIN l = catalog /\ \A w \in catalog : l[w] = (w[1] \in online)
      OBVIOUS
    <3>2. \A w \in catalog : l[w] \in BOOLEAN
      BY <3>1
    <3>3. f.t = "list" /\ f.items = l
      OBVIOUS
    <3> HIDE DEF l, f
    <3> QED BY <1>1, <3>1, <3>2, <3>3 DEF Listing
  <2> HIDE DEF l, f
  <2>3. Told("prefs")
    BY <1>3, <2>1, <2>2 DEF ErrorReply
  <2>4. \A g \in Held(text', "list") :
          g \in Held(text, "list") \/ Listing(g.items, Workspaces)
    <3>1. CASE Reply(f)
      <4>1. Held(text', "list") \subseteq Held(text, "list") \cup {f}
        BY <2>2, <3>1, FramesReplied
      <4> QED BY <2>2, <4>1
    <3>2. CASE ErrorReply
      BY <1>3, <3>2 DEF ErrorReply
    <3> QED BY <2>1, <3>1, <3>2
  <2> QED BY <1>1, <1>5, <2>1, <2>3, <2>4
<1>8. CASE HubAgents
  <2>1. /\ Take("agents") /\ Rest /\ UNCHANGED <<stored, catalog>>
        /\ Reply([t |-> "agents", agents |-> online])
    BY <1>8 DEF HubAgents
  <2>2. Told("prefs") /\ Told("list")
    BY <1>3, <2>1
  <2> QED BY <1>1, <1>5, <2>1, <2>2
<1>9. CASE HubPrefs
  <2>1. /\ Take("prefs") /\ Rest /\ UNCHANGED <<stored, catalog>>
    BY <1>9 DEF HubPrefs, Befalls
  <2>2. PICK f : /\ Reply(f) /\ f.t = "prefs"
                 /\ f.data = stored \/ (f.data = NoPreferences /\ "load" \in excused')
    <3>1. CASE Reply([t |-> "prefs", data |-> stored])
      BY <3>1
    <3>2. CASE Reply([t |-> "prefs", data |-> NoPreferences]) /\ Befalls("load")
      BY <3>2 DEF Befalls
    <3> QED BY <1>9, <3>1, <3>2 DEF HubPrefs
  <2>3. Held(text', "prefs") = Held(text, "prefs") \cup {f} /\ Told("list")
    BY <1>3, <2>2, FramesReplied
  <2> QED BY <1>1, <1>5, <2>1, <2>2, <2>3
<1>10. CASE HubSave
  <2>1. /\ Take("save") /\ Same /\ excused \subseteq excused'
        /\ UNCHANGED <<alive, catalog, page>>
        /\ \/ stored' = Frame.data /\ UNCHANGED <<text, refused>>
           \/ "save" \in excused' /\ ErrorReply /\ stored' = stored
    BY <1>10 DEF HubSave, Befalls
  <2>2. /\ alive /\ Held(up', "save") \subseteq Held(up, "save")
        /\ Held(up', "create") \subseteq Held(up, "create")
        /\ Held(up', "list") = Held(up, "list")
        /\ Frame \in Held(up, "save")
        /\ SavedFirst(up) => SavedFirst(up')
    BY <2>1, TakenOrder DEF Frame
  <2>3. Told("prefs") /\ Told("list")
    BY <1>3, <1>4, <2>1 DEF ErrorReply
  <2>4. Entries(stored', Workspaces)
    BY <1>1, <2>1, <2>2
  <2>5. ASSUME Undisturbed'
        PROVE  refused' = refused /\ SavedFirst(up') /\ StoredKept
    <3>1. stored' = Frame.data /\ refused' = refused
      BY <2>1, <2>5 DEF Undisturbed
    <3> QED BY <1>2, <2>1, <2>2, <2>5, <3>1 DEF StoredKept, OrderKept
  <2> QED BY <1>1, <2>1, <2>2, <2>3, <2>4, <2>5, HubOrder
<1>11. CASE HubOperation
  <2>1. PICK op \in {"create", "delete", "reset"} :
          /\ Take(op)
          /\ \/ Reply([t |-> op]) /\ catalog' = Done(op, Frame.ws)
             \/ ErrorReply /\ catalog' = catalog
          /\ Rest /\ stored' = stored
    BY <1>11 DEF HubOperation
  <2>2. Told("prefs") /\ Told("list")
    BY <1>3, <2>1 DEF ErrorReply
  <2>3. catalog' \subseteq Workspaces
    <3>1. op = "create" => Frame.ws \in Workspaces
      BY <1>1, <2>1, TakenOrder DEF Frame
    <3> QED BY <1>1, <2>1, <3>1 DEF Done
  <2>4. op # "save"
    OBVIOUS
  <2> QED BY <1>5, <2>1, <2>2, <2>3, <2>4
<1>12. CASE HubOpen
  <2>1. /\ Take("open") /\ Rest /\ UNCHANGED <<stored, catalog>>
        /\ Reply([t |-> "opened"]) \/ ErrorReply
    BY <1>12 DEF HubOpen
  <2>2. Told("prefs") /\ Told("list")
    BY <1>3, <2>1 DEF ErrorReply
  <2> QED BY <1>1, <1>5, <2>1, <2>2
<1>13. CASE HubUpload \/ HubInput \/ HubClose
  <2>1. /\ Rest /\ UNCHANGED <<stored, catalog, text>>
        /\ \E k \in {"upload", "input", "close"} : Take(k)
    BY <1>13 DEF HubUpload, HubInput, HubClose
  <2>2. PICK k \in {"upload", "input", "close"} : Take(k)
    BY <2>1
  <2>3. k # "save" /\ Told("prefs") /\ Told("list")
    BY <1>4, <2>1
  <2> QED BY <1>1, <1>5, <2>1, <2>2, <2>3
<1>14. CASE UploadEnds \/ ToolEnds \/ ToolFails \/ AgentDrops \/ AgentReturns \/ AdminDeletes
  <2>1. /\ Rest /\ UNCHANGED <<stored, up>> /\ catalog' \subseteq catalog
    BY <1>14 DEF UploadEnds, ToolEnds, ToolFails, AgentDrops, AgentReturns, AdminDeletes, EndSession
  <2>2. \/ text' = text
        \/ alive /\ \E f : Reply(f) /\ f.t \notin {"prefs", "list"}
    <3>1. \A r : [t |-> "closed", reason |-> r].t \notin {"prefs", "list"}
      OBVIOUS
    <3>2. session # None => alive
      BY DEF StepInv
    <3>3. CASE UploadEnds
      <4>1. PICK u \in uploads : Reply([t |-> "result", r |-> u])
        BY <3>3 DEF UploadEnds
      <4>2. [t |-> "result", r |-> u].t \notin {"prefs", "list"} /\ alive
        BY <3>3 DEF UploadEnds
      <4> QED BY <4>1, <4>2
    <3>4. CASE ToolEnds \/ ToolFails \/ AgentDrops \/ AgentReturns \/ AdminDeletes
      BY <3>1, <3>2, <3>4 DEF ToolEnds, ToolFails, AgentDrops, AgentReturns,
                              AdminDeletes, EndSession, ErrorReply
    <3> QED BY <1>14, <3>3, <3>4
  <2>3. Told("prefs") /\ Told("list") /\ (alive \/ text' = text)
    BY <1>3, <1>4, <2>2
  <2>4. catalog' \subseteq Workspaces
    BY <1>1, <2>1
  <2> QED BY <1>1, <1>6, <2>1, <2>3, <2>4
<1>15. CASE WireDies
  <2>1. /\ Same /\ UNCHANGED <<stored, page, catalog, refused>> /\ excused \subseteq excused'
        /\ alive /\ ~ alive' /\ up' = <<>>
        /\ "save" \in excused' \/ \A i \in DOMAIN up : up[i].t # "save"
    BY <1>15 DEF WireDies, Befalls
  <2>2. PICK n \in 0 .. Len(text) : text' = SubSeq(text, 1, n)
    BY <1>15 DEF WireDies
  <2>3. \A t : Held(text', t) \subseteq Held(text, t)
    BY <2>2, HeldSteps DEF StepInv
  <2>4. \A t : Held(up', t) = {}
    BY <2>1, HeldStart
  <2>5. ASSUME Undisturbed'
        PROVE  refused' = refused /\ SavedFirst(up') /\ StoredKept
    <3>1. Held(up, "save") = {}
      BY <2>1, <2>5, HeldAny DEF Undisturbed
    <3> QED BY <2>1, <2>4, <3>1, NothingSaved DEF StoredKept
  <2> QED BY <1>1, <2>1, <2>3, <2>4, <2>5, HubOrder
<1>16. CASE WebLoads
  <2>1. /\ Same /\ page' \in {stored, NoPreferences}
        /\ UNCHANGED <<alive, up, text, catalog, refused, stored, excused>>
    BY <1>16 DEF WebLoads, OnlyWeb
  <2>2. Entries(page', Workspaces)
    BY <1>1, <2>1, NoPreferencesTyped
  <2> QED BY <1>1, <1>6, <2>1, <2>2
<1>17. CASE WebSaves
  <2>1. /\ Same /\ UNCHANGED <<alive, up, text, catalog, refused>> /\ excused \subseteq excused'
        /\ page' = [page EXCEPT !.web = keys']
        /\ stored' \in {stored, page'}
        /\ stored' = stored \/ page.order = stored.order \/ "order" \in excused'
    BY <1>17 DEF WebSaves, OnlyWeb
  <2>2. Entries(page, Workspaces)
    BY DEF OrderInv, OrderTypes
  <2>3. DOMAIN page = {"order", "web"}
    BY <2>2 DEF Entries
  <2>4. page'.order = page.order /\ DOMAIN (page') = DOMAIN page
    BY <2>1, <2>3
  <2>5. Entries(page', Workspaces) /\ Entries(stored', Workspaces)
    BY <1>1, <2>1, <2>2, <2>4 DEF Entries
  <2>6. Undisturbed' => stored'.order = stored.order
    BY <2>1, <2>4 DEF Undisturbed
  <2> QED BY <1>1, <1>6, <2>1, <2>5, <2>6
<1> QED BY <1>7, <1>8, <1>9, <1>10, <1>11, <1>12, <1>13, <1>14, <1>15, <1>16, <1>17
     DEF Hub, World

\* The order the user gave by pinning and moving is the order the picker shows
\* from then on.
THEOREM OrderIsShown == Spec => []OrderShown
<1>1. Init => OrderInv
  <2>1. SUFFICES ASSUME Init PROVE OrderInv
    OBVIOUS
  <2>2. /\ place = "prefs" /\ prefs = NoPreferences /\ stored = NoPreferences
        /\ text = <<>> /\ up = <<[t |-> "prefs"]>> /\ goal.op = "none"
        /\ rows = <<>> /\ items = <<>> /\ arranged = <<>> /\ refused = 0
        /\ catalog = Workspaces /\ page = NoPreferences
    BY <2>1 DEF Init, NoGoal
  <2>3. \A t : Held(text, t) = {}
    BY <2>2, HeldStart
  <2>4. Held(up, "save") = {} /\ Held(up, "create") = {}
    BY <2>2, HeldStart
  <2>5. Copies = {NoPreferences}
    BY <2>2, <2>3, <2>4 DEF Copies
  <2>6. DOMAIN <<>> = {} /\ \A p : Ranks(p, <<>>)
    BY DEF Ranks
  <2>7. OrderTypes
    BY <2>2, <2>3, <2>4, <2>5, <2>6, NoPreferencesTyped DEF OrderTypes
  <2>8. OrderKept
    BY <2>2, <2>3, <2>4, <2>6, NothingSaved DEF OrderKept, OrderShown
  <2> QED BY <2>7, <2>8 DEF OrderInv
<1>2. StepInv /\ OrderInv /\ [Next]_vars => OrderInv'
  <2>1. SUFFICES ASSUME StepInv, OrderInv, [Next]_vars PROVE OrderInv'
    OBVIOUS
  <2>2. CASE UNCHANGED vars
    <3>1. /\ UNCHANGED <<place, goal, prefs, rows, items, arranged, alive, text, up>>
          /\ UNCHANGED <<stored, page, catalog, refused, excused>>
      BY <2>2 DEF vars, menu, wire, hub, history
    <3>2. ASSUME Undisturbed' PROVE refused' = refused /\ SavedFirst(up') /\ StoredKept
      BY <2>1, <3>1, <3>2 DEF OrderInv, OrderKept, StoredKept, Undisturbed
    <3>3. catalog \subseteq Workspaces /\ Entries(stored, Workspaces)
      BY <2>1 DEF OrderInv, OrderTypes, Copies
    <3> QED BY <2>1, <3>1, <3>2, <3>3, HubOrder
  <2>3. CASE Next
    BY <2>1, <2>3, OrderMenu, OrderOther, OrderHub DEF Next
  <2> QED BY <2>1, <2>2, <2>3
<1>3. OrderInv => OrderShown
  BY DEF OrderInv, OrderKept, OrderShown, Undisturbed
<1> QED BY <1>1, <1>2, <1>3, InStep, PTL DEF Spec

=============================================================================
