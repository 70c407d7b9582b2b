-------------------------- MODULE McpBridge_proofs --------------------------
(* Proofs about McpBridge: that a post that waits can be reached, that a   *)
(* call gets the answer to a call of its own number, and that a backend is *)
(* fed an initialize first.                                                *)
EXTENDS McpBridge, SequenceTheorems, FiniteSetTheorems, TLAPS

USE BridgeAssumption

-----------------------------------------------------------------------------
(* Posts: what a handler never changes                                     *)

Same(r, t) ==
  r.caller = t.caller /\ r.id = t.id /\ r.kind = t.kind /\ r.sess = t.sess

\* A table of as many posts is again a sequence of posts.
LEMMA Rewritten ==
  ASSUME post \in Seq(Post),
         NEW f, f = [p \in DOMAIN post |-> f[p]], \A p \in DOMAIN post : f[p] \in Post
  PROVE  f \in Seq(Post) /\ Len(f) = Len(post) /\ DOMAIN f = DOMAIN post
<1>1. DOMAIN post = 1 .. Len(post) /\ Len(post) \in Nat
  BY LenProperties
<1>2. f \in [1 .. Len(post) -> Post]
  BY <1>1
<1>3. f \in Seq(Post)
  BY <1>1, <1>2
<1> QED BY <1>1, <1>2, <1>3, LenProperties

Verdicts == {"result", "error", "fallback", "accepted"}

\* An answer settles a post and leaves its number.
LEMMA AnsweredPost ==
  \A r \in Post, verdict \in Verdicts, q \in 0 .. MaxPost :
    /\ Answered(r, verdict, q) \in Post
    /\ Same(Answered(r, verdict, q), r)
    /\ Answered(r, verdict, q).stage = "done"
    /\ Answered(r, verdict, q).reply = verdict
    /\ Answered(r, verdict, q).of = q
<1> SUFFICES ASSUME NEW r \in Post, NEW verdict \in Verdicts, NEW q \in 0 .. MaxPost
             PROVE  /\ Answered(r, verdict, q) \in Post
                    /\ Same(Answered(r, verdict, q), r)
                    /\ Answered(r, verdict, q).stage = "done"
                    /\ Answered(r, verdict, q).reply = verdict
                    /\ Answered(r, verdict, q).of = q
  OBVIOUS
<1> QED BY DEF Answered, Post, Same, Verdicts

-----------------------------------------------------------------------------
(* Numbers: a connection of the tool never uses one twice                  *)

Numbers == {p \in DOMAIN post : post[p].caller = caller /\ post[p].id # 0}

\* A handler under way has a session, and one that waits or waited for an
\* answer a number.
Live == {"routed", "checked", "waiting", "cut"}
PostOK ==
  \A p \in DOMAIN post :
    /\ post[p].caller <= caller
    /\ post[p].stage \in Live => post[p].sess \in Sids
    /\ post[p].stage \in {"waiting", "cut"} => post[p].id # 0
    /\ post[p].kind = "initialize" => post[p].id # 0

PostTypes ==
  /\ post \in Seq(Post) /\ Len(post) <= MaxPost /\ caller \in 0 .. MaxCaller
  /\ route \in 0 .. MaxSid /\ attached \subseteq Sids

PostInv ==
  /\ PostTypes
  /\ PostOK
  /\ \A p \in Numbers : post[p].id < NextId
  /\ \A p \in DOMAIN post, q \in DOMAIN post :
       post[p].caller = post[q].caller /\ post[p].id = post[q].id /\ post[p].id # 0
         => p = q

\* There are at most MaxPost posts, each with its parts.
LEMMA PostsAreTyped ==
  ASSUME post \in Seq(Post), Len(post) <= MaxPost
  PROVE  /\ Len(post) \in 0 .. MaxPost /\ DOMAIN post = 1 .. Len(post)
         /\ DOMAIN post \subseteq Posts
         /\ \A p \in DOMAIN post : post[p] \in Post
BY LenProperties, ElementOfSeq DEF Posts

\* The next number is positive and one a post may have.
LEMMA NextNumber ==
  ASSUME post \in Seq(Post), Len(post) <= MaxPost
  PROVE  /\ IsFiniteSet(Numbers)
         /\ NextId = Cardinality(Numbers) + 1
         /\ NextId \in 1 .. Len(post) + 1
<1>1. DOMAIN post = 1 .. Len(post) /\ Len(post) \in Nat
  BY PostsAreTyped
<1>2. IsFiniteSet(1 .. Len(post)) /\ Cardinality(1 .. Len(post)) = Len(post)
  <2>1. 1 \in Int /\ Len(post) \in Int
    BY <1>1
  <2>2. /\ IsFiniteSet(1 .. Len(post))
        /\ Cardinality(1 .. Len(post)) = IF 1 > Len(post) THEN 0 ELSE Len(post) - 1 + 1
    BY <2>1, FS_Interval, Zenon
  <2> QED BY <1>1, <2>2
<1>3. Numbers \subseteq 1 .. Len(post)
  BY <1>1 DEF Numbers
<1>4. IsFiniteSet(Numbers) /\ Cardinality(Numbers) <= Len(post)
  BY <1>2, <1>3, FS_Subset
<1>5. Cardinality(Numbers) \in Nat
  BY <1>4, FS_CardinalityType
<1> QED BY <1>1, <1>4, <1>5 DEF Numbers, NextId

\* A post keeps its number and its session, for ever.
PostsKept ==
  DOMAIN post \subseteq DOMAIN post' /\ \A p \in DOMAIN post : Same(post'[p], post[p])

\* One post more; of the others none begins to wait and none is answered.
Arrives ==
  /\ PostsKept
  /\ \A p \in DOMAIN post :
       /\ post'[p].reply = post[p].reply /\ post'[p].of = post[p].of
       /\ post'[p].stage = post[p].stage
  /\ \A p \in DOMAIN post' \ DOMAIN post :
       post'[p].stage # "waiting" /\ post'[p].reply # "result"

\* Steps of handlers: none moves back, none changes its number.
Settles ==
  /\ post' \in Seq(Post) /\ Len(post') = Len(post) /\ caller' = caller
  /\ \A p \in DOMAIN post :
       /\ Same(post'[p], post[p])
       /\ \/ post'[p] = post[p]
          \/ post'[p].stage \in {"done", "gone"}
          \/ post[p].stage = "waiting" /\ post'[p].stage = "cut"
          \/ post[p].stage = "routed" /\ post'[p].stage = "checked"
          \/ post[p].stage = "checked" /\ post'[p].stage = "waiting" /\ post[p].id # 0

\* Handlers that settle keep the numbers and the sessions of their posts.
LEMMA SettlesKeeps ==
  ASSUME PostInv, Settles, UNCHANGED route, attached' \subseteq Sids
  PROVE  PostInv' /\ PostsKept
<1>1. DOMAIN post' = DOMAIN post
  BY LenProperties DEF Settles, PostInv, PostTypes
<1>2. Numbers' = Numbers
  BY <1>1 DEF Numbers, Settles, Same
<1>3. NextId' = NextId
  BY <1>2 DEF Numbers, NextId
<1>4. PostTypes'
  BY DEF PostInv, PostTypes, Settles
<1>5. PostOK'
  <2> SUFFICES ASSUME NEW p \in DOMAIN post
               PROVE  /\ post'[p].caller <= caller
                      /\ post'[p].stage \in Live => post'[p].sess \in Sids
                      /\ post'[p].stage \in {"waiting", "cut"} => post'[p].id # 0
                      /\ post'[p].kind = "initialize" => post'[p].id # 0
    BY <1>1 DEF PostOK, Settles
  <2> QED BY DEF PostInv, PostOK, Settles, Same, Live
<1>6. \A p \in Numbers' : post'[p].id < NextId'
  BY <1>2, <1>3 DEF PostInv, Numbers, Settles, Same
<1>7. \A p \in DOMAIN post', q \in DOMAIN post' :
        post'[p].caller = post'[q].caller /\ post'[p].id = post'[q].id /\ post'[p].id # 0
          => p = q
  BY <1>1 DEF PostInv, Settles, Same
<1>8. PostsKept
  BY <1>1 DEF PostsKept, Settles
<1> QED BY <1>4, <1>5, <1>6, <1>7, <1>8 DEF PostInv

\* A post that arrives is routed to a session or answered at once.
LEMMA ReceivedPost ==
  ASSUME PostTypes, NEW c \in 1 .. MaxCaller, NEW id \in 0 .. MaxPost, NEW kind \in Kinds
  PROVE  LET r == Received(c, id, kind) IN
         /\ r \in Post /\ r.caller = c /\ r.id = id /\ r.kind = kind /\ r.sess = route
         /\ r.stage = "done" \/ (r.stage = "routed" /\ route \in Sids)
         /\ r.reply # "result"
<1> DEFINE r == [caller |-> c, id |-> id, kind |-> kind, sess |-> route,
                 stage |-> "routed", reply |-> "none", of |-> NoPost]
<1>1. r \in Post
  BY DEF Post, PostTypes, NoPost
<1>2. CASE route # NoSid
  <2>1. Received(c, id, kind) = r
    BY <1>2 DEF Received
  <2> QED BY <1>1, <1>2, <2>1 DEF PostTypes, Sids, NoSid
<1>3. CASE route = NoSid
  <2> DEFINE verdict == IF id = 0 THEN "accepted" ELSE "error"
             a == Answered(r, verdict, NoPost)
  <2>1. Received(c, id, kind) = a
    BY <1>3 DEF Received
  <2>2. verdict \in Verdicts /\ NoPost \in 0 .. MaxPost
    BY DEF NoPost, Verdicts
  <2>4. r.caller = c /\ r.id = id /\ r.kind = kind /\ r.sess = route
    OBVIOUS
  <2> HIDE DEF verdict, r
  <2>3. /\ a \in Post /\ Same(a, r) /\ a.stage = "done" /\ a.reply = verdict
    BY <1>1, <2>2, AnsweredPost
  <2>5. verdict # "result"
    BY DEF verdict
  <2> HIDE DEF a
  <2> QED BY <2>1, <2>3, <2>4, <2>5 DEF Same
<1> QED BY <1>2, <1>3

\* The tool numbers a new call past those of its connection.
LEMMA ToolPostsKeeps ==
  ASSUME PostInv, NEW kind \in {"initialized", "call"}, ToolPosts(kind)
  PROVE  PostInv' /\ Arrives
<1> DEFINE id == IF kind = "call" THEN NextId ELSE 0
           r  == Received(caller, id, kind)
           n  == Len(post) + 1
<1>1. /\ post' = Append(post, r) /\ Len(post) < MaxPost
      /\ UNCHANGED <<route, attached, caller>>
  BY DEF ToolPosts
<1>2. /\ DOMAIN post = 1 .. Len(post) /\ Len(post) \in Nat
      /\ \A p \in DOMAIN post : post[p] \in Post
  BY PostsAreTyped DEF PostInv, PostTypes
<1>3. caller \in 1 .. MaxCaller
  <2>1. \E p \in DOMAIN post : post[p].caller = caller
    BY DEF ToolPosts, Mine
  <2> QED BY <1>2, <2>1 DEF Post
<1>4. /\ IsFiniteSet(Numbers) /\ NextId = Cardinality(Numbers) + 1
      /\ NextId \in 1 .. Len(post) + 1
  BY NextNumber DEF PostInv, PostTypes
<1>5. id \in 0 .. MaxPost /\ (id # 0 => id = NextId)
  BY <1>1, <1>2, <1>4
<1>6. /\ r \in Post /\ r.caller = caller /\ r.id = id /\ r.sess = route
      /\ r.kind # "initialize" /\ r.reply # "result"
      /\ r.stage = "done" \/ (r.stage = "routed" /\ route \in Sids)
  BY <1>3, <1>5, ReceivedPost DEF PostInv, Kinds
<1>7. /\ post' \in Seq(Post) /\ Len(post') = n /\ DOMAIN post' = 1 .. n
      /\ \A p \in DOMAIN post : post'[p] = post[p]
      /\ post'[n] = r
  <2>1. post' \in Seq(Post) /\ Len(post') = n
    BY <1>1, <1>6, AppendProperties DEF PostInv, PostTypes
  <2> QED BY <1>1, <1>2, <1>6, <2>1, AppendProperties, LenProperties DEF PostInv, PostTypes
<1> HIDE DEF id, r
<1>8. Numbers' = IF id = 0 THEN Numbers ELSE Numbers \cup {n}
  BY <1>1, <1>2, <1>6, <1>7 DEF Numbers
<1>9. NextId' = IF id = 0 THEN NextId ELSE NextId + 1
  <2>1. n \notin Numbers
    BY <1>2 DEF Numbers
  <2>2. id # 0 => Cardinality(Numbers') = Cardinality(Numbers) + 1
    BY <1>4, <1>8, <2>1, FS_AddElement
  <2>3. NextId' = Cardinality(Numbers') + 1
    BY DEF NextId, Numbers
  <2> QED BY <1>4, <1>8, <2>2, <2>3
<1>10. PostTypes'
  BY <1>1, <1>2, <1>7 DEF PostInv, PostTypes
<1>11. PostOK'
  <2> SUFFICES ASSUME NEW p \in 1 .. n
               PROVE  /\ post'[p].caller <= caller
                      /\ post'[p].stage \in Live => post'[p].sess \in Sids
                      /\ post'[p].stage \in {"waiting", "cut"} => post'[p].id # 0
                      /\ post'[p].kind = "initialize" => post'[p].id # 0
    BY <1>1, <1>7 DEF PostOK
  <2>1. CASE p = n
    BY <1>3, <1>6, <1>7, <2>1 DEF Live
  <2>2. CASE p \in DOMAIN post
    BY <1>7, <2>2 DEF PostInv, PostOK
  <2> QED BY <1>2, <2>1, <2>2
<1>12. \A p \in Numbers' : post'[p].id < NextId'
  <2>1. \A p \in Numbers : post'[p].id < NextId
    BY <1>7 DEF PostInv, Numbers
  <2>2. \A p \in Numbers : post'[p].id \in Nat
    BY <1>2, <1>7 DEF Numbers, Post
  <2> QED BY <1>4, <1>5, <1>6, <1>7, <1>8, <1>9, <2>1, <2>2 DEF Numbers
<1>13. \A p \in DOMAIN post', q \in DOMAIN post' :
        post'[p].caller = post'[q].caller /\ post'[p].id = post'[q].id /\ post'[p].id # 0
          => p = q
  <2>1. ASSUME NEW p \in DOMAIN post, post[p].caller = caller, post[p].id = id, id # 0
        PROVE  FALSE
    <3>1. p \in Numbers
      BY <2>1 DEF Numbers
    <3>2. post[p].id < NextId
      BY <3>1 DEF PostInv
    <3> QED BY <1>4, <1>5, <2>1, <3>2
  <2>2. \A p \in DOMAIN post' : p = n \/ p \in DOMAIN post
    BY <1>2, <1>7
  <2> QED BY <1>6, <1>7, <2>1, <2>2 DEF PostInv
<1>14. Arrives
  <2>1. PostsKept
    BY <1>2, <1>7 DEF PostsKept, Same
  <2>2. \A p \in DOMAIN post' \ DOMAIN post : p = n
    BY <1>2, <1>7
  <2> QED BY <1>6, <1>7, <2>1, <2>2 DEF Arrives
<1> QED BY <1>10, <1>11, <1>12, <1>13, <1>14 DEF PostInv

\* The tool's new connection starts with number 1.
LEMMA ToolConnectsKeeps ==
  ASSUME PostInv, ToolConnects
  PROVE  PostInv' /\ Arrives
<1> DEFINE r == Received(caller + 1, 1, "initialize")
           n == Len(post) + 1
<1>1. /\ post' = Append(post, r) /\ Len(post) < MaxPost
      /\ caller' = caller + 1 /\ caller' \in 1 .. MaxCaller
      /\ UNCHANGED <<route, attached>>
  BY DEF ToolConnects, PostInv, PostTypes
<1>2. /\ DOMAIN post = 1 .. Len(post) /\ Len(post) \in Nat
      /\ \A p \in DOMAIN post : post[p] \in Post
  BY PostsAreTyped DEF PostInv, PostTypes
<1>3. /\ r \in Post /\ r.caller = caller' /\ r.id = 1 /\ r.reply # "result"
      /\ r.stage = "done" \/ (r.stage = "routed" /\ r.sess \in Sids)
  BY <1>1, ReceivedPost DEF PostInv, Kinds
<1>4. /\ post' \in Seq(Post) /\ Len(post') = n /\ DOMAIN post' = 1 .. n
      /\ \A p \in DOMAIN post : post'[p] = post[p]
      /\ post'[n] = r
  <2> HIDE DEF r
  <2>1. post' \in Seq(Post) /\ Len(post') = n
    BY <1>1, <1>3, AppendProperties DEF PostInv, PostTypes
  <2> QED BY <1>1, <1>2, <1>3, <2>1, AppendProperties, LenProperties
          DEF PostInv, PostTypes
<1> HIDE DEF r
<1>5. \A p \in DOMAIN post : post'[p].caller < caller'
  <2>1. \A p \in DOMAIN post : post[p].caller \in Nat /\ post[p].caller <= caller
    BY <1>2 DEF PostInv, PostOK, Post
  <2>2. caller \in Nat /\ caller' = caller + 1
    BY <1>1 DEF PostInv, PostTypes
  <2> QED BY <1>4, <2>1, <2>2
<1>6. \A p \in DOMAIN post' : p = n \/ p \in DOMAIN post
  BY <1>2, <1>4
<1>7. Numbers' = {n} /\ NextId' = 2
  <2>1. Numbers' = {n}
    BY <1>1, <1>2, <1>3, <1>4, <1>5, <1>6 DEF Numbers
  <2>2. Cardinality(Numbers') = 1
    BY <2>1, FS_Singleton
  <2>3. NextId' = Cardinality(Numbers') + 1
    BY DEF Numbers, NextId
  <2> QED BY <2>1, <2>2, <2>3
<1>8. PostTypes'
  BY <1>1, <1>2, <1>4 DEF PostInv, PostTypes
<1>9. PostOK'
  <2> SUFFICES ASSUME NEW p \in 1 .. n
               PROVE  /\ post'[p].caller <= caller'
                      /\ post'[p].stage \in Live => post'[p].sess \in Sids
                      /\ post'[p].stage \in {"waiting", "cut"} => post'[p].id # 0
                      /\ post'[p].kind = "initialize" => post'[p].id # 0
    BY <1>4 DEF PostOK
  <2>1. CASE p = n
    BY <1>1, <1>3, <1>4, <2>1 DEF Live
  <2>2. CASE p \in DOMAIN post
    <3>1. post'[p].caller \in Nat /\ caller' \in Nat
      <4>1. post'[p] = post[p] /\ post[p] \in Post
        BY <1>2, <1>4, <2>2
      <4>2. post'[p].caller \in 1 .. MaxCaller
        BY <4>1 DEF Post
      <4> QED BY <1>1, <4>2
    <3> QED BY <1>4, <1>5, <2>2, <3>1 DEF PostInv, PostOK
  <2> QED BY <1>2, <2>1, <2>2
<1>10. \A p \in Numbers' : post'[p].id < NextId'
  BY <1>3, <1>4, <1>7
<1>11. \A p \in DOMAIN post', q \in DOMAIN post' :
        post'[p].caller = post'[q].caller /\ post'[p].id = post'[q].id /\ post'[p].id # 0
          => p = q
  BY <1>1, <1>3, <1>4, <1>5, <1>6 DEF PostInv
<1>12. Arrives
  <2>1. PostsKept
    BY <1>2, <1>4 DEF PostsKept, Same
  <2>2. \A p \in DOMAIN post' \ DOMAIN post : p = n
    BY <1>2, <1>4
  <2> QED BY <1>3, <1>4, <2>1, <2>2 DEF Arrives
<1> QED BY <1>8, <1>9, <1>10, <1>11, <1>12 DEF PostInv

-----------------------------------------------------------------------------
(* The table of the posts that wait                                        *)

Requests(s) == {p \in DOMAIN post : post[p].sess = s /\ post[p].id # 0}

\* An entry is a post of its session under its own number ...
PendingOK ==
  /\ pending \in [Sids -> [Posts -> 0 .. MaxPost]]
  /\ \A s \in Sids, i \in Posts : pending[s][i] # NoPost =>
       /\ pending[s][i] \in DOMAIN post
       /\ post[pending[s][i]].sess = s /\ post[pending[s][i]].id = i

\* ... and what comes back to a session is the response to a request of its
\* own, or one that waited for artifacts, of a session of the same connection.
Returned(s) ==
  {p \in DOMAIN post :
     /\ post[p].id # 0
     /\ \/ post[p].sess = s
        \/ p \in carried /\ wire[post[p].sess] = wire[s]}
DownOK == \A s \in Sids : down[s] \subseteq Returned(s)

\* A post that loses its sender wakes up, with its number.
LEMMA CutPost ==
  \A r \in Post :
    /\ Cut(r) \in Post /\ Same(Cut(r), r)
    /\ Cut(r).reply = r.reply /\ Cut(r).of = r.of
    /\ Cut(r).stage # "waiting"
    /\ Cut(r) = r \/ (r.stage = "waiting" /\ Cut(r).stage = "cut")
<1> SUFFICES ASSUME NEW r \in Post
             PROVE  /\ Cut(r) \in Post /\ Same(Cut(r), r)
                    /\ Cut(r).reply = r.reply /\ Cut(r).of = r.of
                    /\ Cut(r).stage # "waiting"
                    /\ Cut(r) = r \/ (r.stage = "waiting" /\ Cut(r).stage = "cut")
  OBVIOUS
<1>1. CASE r.stage = "waiting"
  <2>1. Cut(r) = [r EXCEPT !.stage = "cut"]
    BY <1>1 DEF Cut
  <2> QED BY <1>1, <2>1 DEF Post, Same
<1>2. CASE r.stage # "waiting"
  <2>1. Cut(r) = [r EXCEPT !.stage = r.stage]
    BY <1>2 DEF Cut
  <2>2. Cut(r) = r
    BY <2>1 DEF Post
  <2> QED BY <1>2, <2>2 DEF Same
<1> QED BY <1>1, <1>2

\* What the steps of the proxy make of the posts
LEMMA HandlersSettle ==
  ASSUME PostInv, PendingOK, DownOK,
         \/ \E p \in DOMAIN post :
              CheckAttached(p) \/ Forward(p) \/ Expire(p) \/ Dropped(p)
         \/ \E s \in Sids, q \in Posts : ReadResponse(s, q)
         \/ \E s \in Sids : FailPending(s) /\ UNCHANGED caller
  PROVE  Settles
<1> USE DEF PostInv, PostTypes, NoPost
<1>0. /\ DOMAIN post = 1 .. Len(post) /\ Len(post) \in Nat
      /\ \A p \in DOMAIN post : post[p] \in Post
      /\ DOMAIN post \subseteq Posts
  BY PostsAreTyped
<1>1. ASSUME NEW p \in DOMAIN post, NEW r \in Post, post' = [post EXCEPT ![p] = r],
             Same(r, post[p]),
             \/ r.stage \in {"done", "gone"}
             \/ post[p].stage = "routed" /\ r.stage = "checked",
             UNCHANGED caller
      PROVE  Settles
  BY <1>0, <1>1, ExceptSeq DEF Settles, Same
\* One post is replaced and the one it displaces is cut.
<1>8. ASSUME NEW p \in DOMAIN post, NEW r \in Post, NEW h,
             post' = [q \in DOMAIN post |->
                        IF q = p THEN r ELSE IF q = h THEN Cut(post[q]) ELSE post[q]],
             Same(r, post[p]),
             \/ r.stage = "done"
             \/ post[p].stage = "checked" /\ r.stage = "waiting" /\ post[p].id # 0,
             UNCHANGED caller
      PROVE  Settles
  <2> DEFINE f == post'
  <2>1. \A q \in DOMAIN post :
          /\ f[q] \in Post /\ Same(f[q], post[q])
          /\ \/ f[q] = post[q] \/ f[q].stage = "done"
             \/ post[q].stage = "waiting" /\ f[q].stage = "cut"
             \/ post[q].stage = "checked" /\ f[q].stage = "waiting" /\ post[q].id # 0
    <3> SUFFICES ASSUME NEW q \in DOMAIN post
                 PROVE  /\ f[q] \in Post /\ Same(f[q], post[q])
                        /\ \/ f[q] = post[q] \/ f[q].stage = "done"
                           \/ post[q].stage = "waiting" /\ f[q].stage = "cut"
                           \/ post[q].stage = "checked" /\ f[q].stage = "waiting"
                                /\ post[q].id # 0
      OBVIOUS
    <3>1. CASE q = p
      BY <1>8, <3>1
    <3>2. CASE q # p /\ q = h
      <4>1. f[q] = Cut(post[q]) /\ post[q] \in Post
        BY <1>0, <1>8, <3>2
      <4> HIDE DEF f
      <4> QED BY <4>1, CutPost
    <3>3. CASE q # p /\ q # h
      <4>1. f[q] = post[q] /\ post[q] \in Post
        BY <1>0, <1>8, <3>3
      <4> QED BY <4>1 DEF Same
    <3> QED BY <3>1, <3>2, <3>3
  <2>2. f = [q \in DOMAIN post |-> f[q]]
    BY <1>8
  <2> HIDE DEF f
  <2>3. f \in Seq(Post) /\ Len(f) = Len(post)
    BY <2>1, <2>2, Rewritten
  <2> QED BY <1>8, <2>1, <2>3 DEF Settles, f
<1>5. ASSUME NEW p \in DOMAIN post, NEW verdict \in Verdicts, UNCHANGED caller,
             NEW q \in 0 .. MaxPost,
             post' = [post EXCEPT ![p] = Answered(post[p], verdict, q)]
      PROVE  Settles
  <2> DEFINE r == Answered(post[p], verdict, q)
  <2>1. r \in Post /\ Same(r, post[p]) /\ r.stage = "done"
    <3>1. post[p] \in Post
      BY <1>0
    <3> HIDE DEF PostInv
    <3> QED BY <3>1, AnsweredPost
  <2>2. post' = [post EXCEPT ![p] = r]
    BY <1>5
  <2> HIDE DEF r
  <2> QED BY <1>1, <1>5, <2>1, <2>2
<1>2. ASSUME NEW p \in DOMAIN post, CheckAttached(p) PROVE Settles
  <2>1. CASE post[p].sess \in attached
    <3>1. post' = [post EXCEPT ![p] = [post[p] EXCEPT !.stage = "checked"]]
      BY <1>2, <2>1 DEF CheckAttached
    <3>2. /\ [post[p] EXCEPT !.stage = "checked"] \in Post
          /\ Same([post[p] EXCEPT !.stage = "checked"], post[p])
          /\ [post[p] EXCEPT !.stage = "checked"].stage = "checked"
      BY <1>0 DEF Post, Same
    <3> QED BY <1>1, <1>2, <3>1, <3>2 DEF CheckAttached
  <2>2. CASE post[p].sess \notin attached
    <3> DEFINE verdict == IF post[p].id = 0 THEN "accepted" ELSE "fallback"
    <3>1. post' = [post EXCEPT ![p] = Answered(post[p], verdict, 0)]
      BY <1>2, <2>2 DEF CheckAttached
    <3>2. verdict \in Verdicts
      BY DEF Verdicts
    <3> HIDE DEF verdict
    <3>3. UNCHANGED caller /\ 0 \in 0 .. MaxPost
      BY <1>2 DEF CheckAttached
    <3> QED BY <3>1, <3>2, <3>3, <1>5
  <2> QED BY <2>1, <2>2
<1>3. ASSUME NEW p \in DOMAIN post, Forward(p) PROVE Settles
  <2>1. CASE post[p].id = 0
    <3>1. post' = [post EXCEPT ![p] = Answered(post[p], "accepted", 0)]
      BY <1>3, <2>1 DEF Forward
    <3>2. UNCHANGED caller
      BY <1>3 DEF Forward
    <3>3. "accepted" \in Verdicts /\ 0 \in 0 .. MaxPost
      BY DEF Verdicts
    <3> QED BY <3>1, <3>2, <3>3, <1>5
  <2>2. CASE post[p].id # 0
    <3> DEFINE r == [post[p] EXCEPT !.stage = "waiting"]
               h == Holder(p)
    <3>1. post' = [q \in DOMAIN post |->
                     IF q = p THEN r ELSE IF q = h THEN Cut(post[q]) ELSE post[q]]
      BY <1>3, <2>2 DEF Forward
    <3>2. r \in Post /\ Same(r, post[p]) /\ r.stage = "waiting"
      BY <1>0 DEF Post, Same
    <3>3. post[p].stage = "checked" /\ UNCHANGED caller
      BY <1>3 DEF Forward
    <3> HIDE DEF r, h
    <3> QED BY <1>8, <2>2, <3>1, <3>2, <3>3
  <2> QED BY <2>1, <2>2
<1>4. ASSUME NEW p \in DOMAIN post, Expire(p) PROVE Settles
  <2> DEFINE r == Answered(post[p], "error", 0)
             h == Holder(p)
  <2>1. post' = [q \in DOMAIN post |->
                   IF q = p THEN r ELSE IF q = h THEN Cut(post[q]) ELSE post[q]]
    BY <1>4 DEF Expire
  <2>2. UNCHANGED caller
    BY <1>4 DEF Expire
  <2>3. "error" \in Verdicts /\ 0 \in 0 .. MaxPost /\ post[p] \in Post
    BY <1>0 DEF Verdicts
  <2>4. r \in Post /\ Same(r, post[p]) /\ r.stage = "done"
    <3> HIDE DEF PostInv
    <3> QED BY <2>3, AnsweredPost
  <2> HIDE DEF r, h
  <2> QED BY <1>8, <2>1, <2>2, <2>4
<1>9. ASSUME NEW p \in DOMAIN post, Dropped(p) PROVE Settles
  <2> DEFINE r == [post[p] EXCEPT !.stage = "gone"]
  <2>1. post' = [post EXCEPT ![p] = r] /\ UNCHANGED caller
    BY <1>9 DEF Dropped
  <2>2. r \in Post /\ Same(r, post[p]) /\ r.stage = "gone"
    BY <1>0 DEF Post, Same
  <2> HIDE DEF r
  <2> QED BY <1>1, <2>1, <2>2
<1>6. ASSUME NEW s \in Sids, NEW q \in Posts, ReadResponse(s, q) PROVE Settles
  <2> DEFINE p == pending[s][post[q].id]
  <2>1. UNCHANGED caller
    BY <1>6 DEF ReadResponse
  <2>2. q \in DOMAIN post /\ post[q].id \in Posts
    <3>1. q \in down[s]
      BY <1>6 DEF ReadResponse
    <3>2. q \in DOMAIN post /\ post[q].id # 0
      BY <3>1 DEF DownOK, Returned
    <3>3. post[q] \in Post
      BY <1>0, <3>2
    <3>4. post[q].id \in 0 .. MaxPost
      BY <3>3 DEF Post
    <3> QED BY <3>2, <3>4 DEF Posts
  <2>3. p # 0 => p \in DOMAIN post
    BY <2>2 DEF PendingOK
  <2>4. q \in 0 .. MaxPost /\ "result" \in Verdicts
    BY DEF Posts, Verdicts
  <2>5. post' = IF p # 0 /\ post[p].stage = "waiting"
                  THEN [post EXCEPT ![p] = Answered(post[p], "result", q)] ELSE post
    BY <1>6 DEF ReadResponse
  <2> HIDE DEF p
  <2>6. CASE p # 0 /\ post[p].stage = "waiting"
    BY <1>5, <2>1, <2>3, <2>4, <2>5, <2>6
  <2>7. CASE ~(p # 0 /\ post[p].stage = "waiting")
    BY <1>0, <2>1, <2>5, <2>7 DEF Settles, Same
  <2> QED BY <2>6, <2>7
<1>7. ASSUME NEW s \in Sids, FailPending(s), UNCHANGED caller PROVE Settles
  <2>1. \A p \in DOMAIN post : post'[p] = post[p] \/ post'[p] = Answered(post[p], "error", 0)
    BY <1>7 DEF FailPending
  <2>2. "error" \in Verdicts /\ 0 \in 0 .. MaxPost
    BY DEF Verdicts
  <2>3. \A p \in DOMAIN post :
          /\ post'[p] \in Post /\ Same(post'[p], post[p])
          /\ post'[p] = post[p] \/ post'[p].stage = "done"
    <3> SUFFICES ASSUME NEW p \in DOMAIN post
                 PROVE  /\ post'[p] \in Post /\ Same(post'[p], post[p])
                        /\ post'[p] = post[p] \/ post'[p].stage = "done"
      OBVIOUS
    <3>1. CASE post'[p] = post[p]
      BY <1>0, <3>1 DEF Same
    <3>2. CASE post'[p] = Answered(post[p], "error", 0)
      <4>1. post[p] \in Post
        BY <1>0
      <4> QED BY <2>2, <3>2, <4>1, AnsweredPost
    <3> QED BY <2>1, <3>1, <3>2
  <2>4. post' \in Seq(Post) /\ Len(post') = Len(post)
    <3> DEFINE f == post'
    <3>1. f = [p \in DOMAIN post |-> f[p]]
      BY <1>7 DEF FailPending
    <3>2. \A p \in DOMAIN post : f[p] \in Post
      BY <2>3
    <3> HIDE DEF f
    <3>3. f \in Seq(Post) /\ Len(f) = Len(post)
      BY <3>1, <3>2, Rewritten
    <3> QED BY <3>3 DEF f
  <2> QED BY <1>7, <2>3, <2>4 DEF Settles
<1> QED BY <1>2, <1>3, <1>4, <1>6, <1>7, <1>9

\* Every step keeps the numbers: it settles posts, or one arrives, or none is
\* touched.
LEMMA PostsStep ==
  ASSUME PostInv, PendingOK, DownOK, [Next]_vars
  PROVE  PostInv' /\ (Settles \/ Arrives)
<1> USE DEF agentVars, linkVars
<1>1. ASSUME UNCHANGED <<post, caller>>, route' \in 0 .. MaxSid, attached' \subseteq Sids
      PROVE  PostInv' /\ (Settles \/ Arrives)
  <2>1. PostsKept /\ Arrives
    BY <1>1 DEF PostsKept, Arrives, Same
  <2> QED BY <1>1, <2>1 DEF PostInv, PostTypes, PostOK, Numbers, NextId
<1>2. ASSUME UNCHANGED <<post, caller, route, attached>>
      PROVE  PostInv' /\ (Settles \/ Arrives)
  BY <1>1, <1>2 DEF PostInv, PostTypes
<1>3. ASSUME NEW s \in Sids, FailPending(s), UNCHANGED <<caller, route>>,
             attached' \subseteq Sids
      PROVE  PostInv' /\ (Settles \/ Arrives)
  BY <1>3, HandlersSettle, SettlesKeeps
<1>4. CASE UNCHANGED vars
  BY <1>2, <1>4 DEF vars
<1>5. CASE AgentStep
  <2>1. ASSUME NEW s \in Sids, NEW capable \in BOOLEAN, OpenSession(s, capable)
        PROVE  PostInv' /\ (Settles \/ Arrives)
    <3>1. UNCHANGED <<post, caller>> /\ route' \in 0 .. MaxSid /\ attached' \subseteq Sids
      BY <2>1 DEF OpenSession, PostInv, PostTypes, Sids
    <3> QED BY <1>1, <3>1
  <2>2. ASSUME NEW s \in Sids, OpenCompletes(s) \/ OpenAborts(s)
        PROVE  PostInv' /\ (Settles \/ Arrives)
    BY <1>2, <2>2 DEF OpenCompletes, OpenAborts, FinishOpen
  <2>3. ASSUME NEW s \in Sids, Detach(s) PROVE PostInv' /\ (Settles \/ Arrives)
    BY <1>3, <2>3 DEF Detach, PostInv, PostTypes
  <2>4. ASSUME NEW s \in Sids, ReadClosed(s) PROVE PostInv' /\ (Settles \/ Arrives)
    BY <1>3, <2>4 DEF ReadClosed, PostInv, PostTypes
  <2>5. ASSUME NEW s \in Sids, NEW q \in Posts, ReadResponse(s, q)
        PROVE  PostInv' /\ (Settles \/ Arrives)
    <3>1. UNCHANGED <<route, attached>>
      BY <2>5 DEF ReadResponse
    <3> QED BY <2>5, <3>1, HandlersSettle, SettlesKeeps DEF PostInv, PostTypes
  <2>6. CASE Unregister
    <3>1. UNCHANGED <<post, caller, attached>> /\ route' \in 0 .. MaxSid
      BY <2>6 DEF Unregister, NoSid
    <3> QED BY <1>1, <3>1 DEF PostInv, PostTypes
  <2>7. CASE ToolConnects
    BY <2>7, ToolConnectsKeeps
  <2>8. ASSUME NEW kind \in {"initialized", "call"}, ToolPosts(kind)
        PROVE  PostInv' /\ (Settles \/ Arrives)
    BY <2>8, ToolPostsKeeps
  <2>9. ASSUME NEW p \in DOMAIN post,
               CheckAttached(p) \/ Forward(p) \/ Expire(p) \/ Dropped(p)
        PROVE  PostInv' /\ (Settles \/ Arrives)
    <3>1. UNCHANGED <<route, attached>>
      BY <2>9 DEF CheckAttached, Forward, Expire, Dropped
    <3> QED BY <2>9, <3>1, HandlersSettle, SettlesKeeps DEF PostInv, PostTypes
  <2> QED
    BY <1>5, <2>1, <2>2, <2>3, <2>4, <2>5, <2>6, <2>7, <2>8, <2>9 DEF AgentStep
<1>6. CASE LinkBreaks
  BY <1>2, <1>6 DEF LinkBreaks
<1>7. ASSUME NEW s \in Sids, HubStep(s) PROVE PostInv' /\ (Settles \/ Arrives)
  BY <1>2, <1>7 DEF HubStep, FirstFrame, OpenTimesOut, ClientLeaves, PtyEnds, RelayEnds
<1>8. ASSUME NEW s \in Sids, ClientStep(s) PROVE PostInv' /\ (Settles \/ Arrives)
  BY <1>2, <1>8 DEF ClientStep, Feed, FeedFails, SpawnRefused, SpawnFails, Start,
    StartReplayed, ReplayDone, ReplayFails, ReplayEnds, CooldownEnds, BackendTakes,
    BackendAnswers, BackendDies, Delivered, Bounced, HostStep
<1>9. ASSUME NEW p \in Posts, TransferEnds(p) PROVE PostInv' /\ (Settles \/ Arrives)
  BY <1>2, <1>9 DEF TransferEnds
<1> QED BY <1>4, <1>5, <1>6, <1>7, <1>8, <1>9 DEF Next

\* Either way no post loses its number.
LEMMA StepKeepsPosts ==
  ASSUME PostInv, Settles \/ Arrives
  PROVE  PostsKept
BY SettlesKeeps, LenProperties DEF Settles, Arrives, PostsKept, PostInv, PostTypes

-----------------------------------------------------------------------------
(* Who waits is in the table, and gets the answer to a call of its number  *)

WaiterInv == PendingOK /\ WaiterRegistered /\ AnswersOwnCall

\* A session stays on its connection, and what waited for artifacts did so.
ArtifactsKept == carried \subseteq carried' /\ wire' = wire

\* No step forgets either.
LEMMA ArtifactsStep ==
  ASSUME [Next]_vars
  PROVE  ArtifactsKept
<1> USE DEF agentVars, linkVars, artifacts, ArtifactsKept
<1>1. CASE UNCHANGED vars
  BY <1>1 DEF vars
<1>2. CASE AgentStep
  BY <1>2 DEF AgentStep, OpenSession, OpenCompletes, OpenAborts, FinishOpen, Detach,
    ReadResponse, ReadClosed, Unregister, ToolConnects, ToolPosts, CheckAttached,
    Forward, Expire, Dropped
<1>3. CASE LinkBreaks
  BY <1>3 DEF LinkBreaks
<1>4. ASSUME NEW s \in Sids, HubStep(s) PROVE ArtifactsKept
  BY <1>4 DEF HubStep, FirstFrame, OpenTimesOut, ClientLeaves, PtyEnds, RelayEnds
<1>5. ASSUME NEW s \in Sids, ClientStep(s) PROVE ArtifactsKept
  BY <1>5 DEF ClientStep, Feed, FeedFails, SpawnRefused, SpawnFails, Start,
    StartReplayed, ReplayDone, ReplayFails, ReplayEnds, CooldownEnds, BackendTakes,
    BackendAnswers, BackendDies, Delivered, Bounced, HostStep
<1>6. ASSUME NEW p \in Posts, TransferEnds(p) PROVE ArtifactsKept
  BY <1>6 DEF TransferEnds
<1> QED BY <1>1, <1>2, <1>3, <1>4, <1>5, <1>6 DEF Next

\* Steps after which nobody else waits and nobody else has a result
LEMMA WaiterKept ==
  ASSUME PostInv, WaiterInv, PostsKept, ArtifactsKept, UNCHANGED pending,
         \A p \in DOMAIN post' :
           /\ post'[p].stage = "waiting" => p \in DOMAIN post /\ post[p].stage = "waiting"
           /\ post'[p].reply = "result" =>
                p \in DOMAIN post /\ post[p].reply = "result" /\ post[p].of = post'[p].of
  PROVE  WaiterInv'
<1>1. PendingOK'
  BY DEF WaiterInv, PendingOK, PostsKept, Same
<1>2. WaiterRegistered'
  BY DEF WaiterInv, WaiterRegistered, PostsKept, Same
<1>3. AnswersOwnCall'
  BY DEF WaiterInv, AnswersOwnCall, PostsKept, Same, ArtifactsKept
<1> QED BY <1>1, <1>2, <1>3 DEF WaiterInv

\* Every step keeps the table of those who wait, and answers by number.
LEMMA WaiterStep ==
  ASSUME PostInv, WaiterInv, DownOK, PostsKept, ArtifactsKept, Settles \/ Arrives,
         [Next]_vars
  PROVE  WaiterInv'
<1> USE DEF agentVars, linkVars, NoPost
<1>0. /\ DOMAIN post = 1 .. Len(post) /\ Len(post) \in Nat
      /\ \A p \in DOMAIN post : post[p] \in Post
      /\ DOMAIN post \subseteq Posts
  BY PostsAreTyped DEF PostInv, PostTypes
<1>1. CASE UNCHANGED <<post, pending>>
  BY <1>1, WaiterKept
<1>2. CASE Arrives /\ UNCHANGED pending
  <2>1. \A p \in DOMAIN post' :
          /\ post'[p].stage = "waiting" => p \in DOMAIN post /\ post[p].stage = "waiting"
          /\ post'[p].reply = "result" =>
               p \in DOMAIN post /\ post[p].reply = "result" /\ post[p].of = post'[p].of
    BY <1>2 DEF Arrives
  <2> QED BY <1>2, <2>1, WaiterKept
<1>3. ASSUME NEW p \in DOMAIN post, CheckAttached(p)
      PROVE  WaiterInv'
  <2>1. /\ DOMAIN post' = DOMAIN post /\ UNCHANGED pending
        /\ \A q \in DOMAIN post \ {p} : post'[q] = post[q]
        /\ post[p].stage = "routed"
    BY <1>3 DEF CheckAttached
  <2>2. post'[p].stage # "waiting" /\
          (post'[p].reply = "result" => post[p].reply = "result" /\ post[p].of = post'[p].of)
    <3>1. CASE post[p].sess \in attached
      <4>1. post'[p] = [post[p] EXCEPT !.stage = "checked"]
        BY <1>3, <3>1 DEF CheckAttached
      <4> QED BY <1>0, <4>1 DEF Post
    <3>2. CASE post[p].sess \notin attached
      <4> DEFINE verdict == IF post[p].id = 0 THEN "accepted" ELSE "fallback"
      <4>1. post'[p] = Answered(post[p], verdict, 0)
        BY <1>3, <3>2 DEF CheckAttached
      <4>2. verdict \in Verdicts /\ verdict # "result" /\ 0 \in 0 .. MaxPost /\ post[p] \in Post
        BY <1>0 DEF Verdicts
      <4> HIDE DEF verdict
      <4> QED BY <4>1, <4>2, AnsweredPost
    <3> QED BY <3>1, <3>2
  <2> QED BY <2>1, <2>2, WaiterKept
<1>4. ASSUME NEW p \in DOMAIN post, Forward(p)
      PROVE  WaiterInv'
  <2> DEFINE s == post[p].sess
             i == post[p].id
  <2>1. s \in Sids /\ i \in 0 .. MaxPost /\ p \in Posts
    BY <1>0, <1>4 DEF Forward, PostInv, PostOK, Post, Live
  <2>2. DOMAIN post' = DOMAIN post
    BY <1>4 DEF Forward
  <2>3. CASE i = 0
    <3>1. /\ post'[p] = Answered(post[p], "accepted", 0) /\ UNCHANGED pending
          /\ \A q \in DOMAIN post \ {p} : post'[q] = post[q]
      BY <1>4, <2>3 DEF Forward
    <3>2. post'[p].stage = "done" /\ post'[p].reply = "accepted"
      <4>1. "accepted" \in Verdicts /\ 0 \in 0 .. MaxPost /\ post[p] \in Post
        BY <1>0 DEF Verdicts
      <4> QED BY <3>1, <4>1, AnsweredPost
    <3> QED BY <2>2, <3>1, <3>2, WaiterKept
  <2>4. CASE i # 0
    <3> DEFINE h == pending[s][i]
    <3>1. /\ post'[p] = [post[p] EXCEPT !.stage = "waiting"]
          /\ \A q \in DOMAIN post \ {p} :
               post'[q] = IF q = h THEN Cut(post[q]) ELSE post[q]
          /\ pending' = [pending EXCEPT ![s][i] = p]
      BY <1>4, <2>4 DEF Forward, Holder
    <3>2. \A q \in DOMAIN post : post'[q].reply = post[q].reply /\ post'[q].of = post[q].of
      <4> HIDE DEF h
      <4>1. post'[p].reply = post[p].reply /\ post'[p].of = post[p].of
        BY <1>0, <3>1 DEF Post
      <4> QED BY <1>0, <3>1, <4>1, CutPost
    <3>3. i \in Posts
      BY <2>1, <2>4 DEF Posts
    <3>4. /\ pending' \in [Sids -> [Posts -> 0 .. MaxPost]] /\ pending'[s][i] = p
          /\ \A t \in Sids, j \in Posts : t # s \/ j # i => pending'[t][j] = pending[t][j]
      <4>1. pending \in [Sids -> [Posts -> 0 .. MaxPost]] /\ p \in 0 .. MaxPost
        BY <2>1 DEF WaiterInv, PendingOK, Posts
      <4> QED BY <2>1, <3>1, <3>3, <4>1
    <3>5. \A q \in DOMAIN post : Same(post'[q], post[q])
      BY DEF PostsKept
    <3>6. h = pending[s][i]
      OBVIOUS
    <3> HIDE DEF s, i, h
    <3>7. PendingOK'
      BY <2>2, <3>4, <3>5 DEF WaiterInv, PendingOK, Same, s, i
    <3>8. WaiterRegistered'
      <4> SUFFICES ASSUME NEW q \in DOMAIN post, q # p, post'[q].stage = "waiting"
                   PROVE  pending'[post[q].sess][post[q].id] = q
        BY <2>2, <3>4, <3>5 DEF WaiterRegistered, Same, s, i
      <4>1. q # h /\ post'[q] = post[q]
        BY <1>0, <3>1, CutPost
      <4>2. /\ post[q].sess \in Sids /\ post[q].id \in Posts
            /\ pending[post[q].sess][post[q].id] = q
        BY <1>0, <4>1 DEF PostInv, PostOK, Live, WaiterInv, WaiterRegistered, Post, Posts
      <4>3. post[q].sess # s \/ post[q].id # i
        BY <3>6, <4>1, <4>2
      <4> QED BY <3>4, <4>2, <4>3
    <3>9. AnswersOwnCall'
      BY <2>2, <3>2, <3>5 DEF WaiterInv, AnswersOwnCall, Same, ArtifactsKept
    <3> QED BY <3>7, <3>8, <3>9 DEF WaiterInv
  <2> QED BY <2>3, <2>4
<1>5. ASSUME NEW p \in DOMAIN post, Expire(p)
      PROVE  WaiterInv'
  <2> DEFINE s == post[p].sess
             i == post[p].id
             h == pending[s][i]
  <2>1. s \in Sids /\ i \in Posts
    BY <1>0, <1>5 DEF Expire, PostInv, PostOK, Live, Post, Posts
  <2>2. /\ DOMAIN post' = DOMAIN post
        /\ \A q \in DOMAIN post \ {p} :
             post'[q] = IF q = h THEN Cut(post[q]) ELSE post[q]
        /\ post'[p] = Answered(post[p], "error", 0)
        /\ pending' = [pending EXCEPT ![s][i] = 0]
    BY <1>5 DEF Expire, Holder
  <2>3. post'[p].stage = "done" /\ post'[p].reply = "error"
    <3>1. "error" \in Verdicts /\ 0 \in 0 .. MaxPost /\ post[p] \in Post
      BY <1>0 DEF Verdicts
    <3> QED BY <2>2, <3>1, AnsweredPost
  <2>4. /\ pending' \in [Sids -> [Posts -> 0 .. MaxPost]] /\ pending'[s][i] = 0
        /\ \A t \in Sids, j \in Posts : t # s \/ j # i => pending'[t][j] = pending[t][j]
    BY <2>1, <2>2 DEF WaiterInv, PendingOK
  <2>5. \A q \in DOMAIN post : Same(post'[q], post[q])
    BY DEF PostsKept
  <2>9. h = pending[s][i]
    OBVIOUS
  <2> HIDE DEF s, i, h
  <2>10. \A q \in DOMAIN post \ {p} :
           /\ post'[q].reply = post[q].reply /\ post'[q].of = post[q].of
           /\ post'[q].stage = "waiting" => q # h /\ post'[q] = post[q]
    BY <1>0, <2>2, CutPost
  <2>6. PendingOK'
    BY <2>2, <2>4, <2>5 DEF WaiterInv, PendingOK, Same
  <2>7. WaiterRegistered'
    <3> SUFFICES ASSUME NEW q \in DOMAIN post, q # p, post'[q].stage = "waiting"
                 PROVE  pending'[post[q].sess][post[q].id] = q
      BY <2>2, <2>3, <2>5 DEF WaiterRegistered, Same
    <3>1. q # h /\ post[q].stage = "waiting"
      BY <2>10
    <3>2. /\ post[q].sess \in Sids /\ post[q].id \in Posts
          /\ pending[post[q].sess][post[q].id] = q
      BY <1>0, <3>1 DEF PostInv, PostOK, Live, WaiterInv, WaiterRegistered, Post, Posts
    <3>3. post[q].sess # s \/ post[q].id # i
      BY <2>9, <3>1, <3>2
    <3> QED BY <2>4, <3>2, <3>3
  <2>8. AnswersOwnCall'
    BY <2>2, <2>3, <2>5, <2>10 DEF WaiterInv, AnswersOwnCall, Same, ArtifactsKept
  <2> QED BY <2>6, <2>7, <2>8 DEF WaiterInv
<1>13. ASSUME NEW p \in DOMAIN post, Dropped(p)
      PROVE  WaiterInv'
  <2>1. /\ DOMAIN post' = DOMAIN post /\ UNCHANGED pending
        /\ \A q \in DOMAIN post \ {p} : post'[q] = post[q]
        /\ post'[p] = [post[p] EXCEPT !.stage = "gone"]
    BY <1>13 DEF Dropped
  <2>2. /\ post'[p].stage = "gone" /\ post'[p].reply = post[p].reply
        /\ post'[p].of = post[p].of
    BY <1>0, <2>1 DEF Post
  <2> QED BY <2>1, <2>2, WaiterKept
<1>6. ASSUME NEW s \in Sids, NEW q \in Posts, ReadResponse(s, q)
      PROVE  WaiterInv'
  <2> DEFINE i == post[q].id
             p == pending[s][i]
  <2>1. /\ q \in DOMAIN post /\ i \in Posts
        /\ post[q].sess = s \/ (q \in carried /\ wire[post[q].sess] = wire[s])
    <3>1. q \in down[s]
      BY <1>6 DEF ReadResponse
    <3>2. /\ q \in DOMAIN post /\ post[q].id # 0
          /\ post[q].sess = s \/ (q \in carried /\ wire[post[q].sess] = wire[s])
      BY <3>1 DEF DownOK, Returned
    <3> QED BY <1>0, <3>2 DEF Post, Posts
  <2>2. p # 0 => p \in DOMAIN post /\ post[p].sess = s /\ post[p].id = i
    BY <2>1 DEF WaiterInv, PendingOK
  <2>3. /\ pending' = [pending EXCEPT ![s][i] = 0]
        /\ post' = IF p # 0 /\ post[p].stage = "waiting"
                   THEN [post EXCEPT ![p] = Answered(post[p], "result", q)] ELSE post
    BY <1>6 DEF ReadResponse
  <2>4. /\ pending' \in [Sids -> [Posts -> 0 .. MaxPost]] /\ pending'[s][i] = 0
        /\ \A t \in Sids, j \in Posts : t # s \/ j # i => pending'[t][j] = pending[t][j]
    BY <2>1, <2>3 DEF WaiterInv, PendingOK
  <2>5. \A x \in DOMAIN post : Same(post'[x], post[x])
    BY DEF PostsKept
  <2> HIDE DEF i, p
  <2>6. DOMAIN post' = DOMAIN post /\ \A x \in DOMAIN post : x # p => post'[x] = post[x]
    BY <2>3
  <2>7. PendingOK'
    BY <2>4, <2>5, <2>6 DEF WaiterInv, PendingOK, Same
  <2>8. p # 0 /\ post[p].stage = "waiting" =>
          post'[p].stage = "done" /\ post'[p].reply = "result" /\ post'[p].of = q
    <3> SUFFICES ASSUME p # 0, post[p].stage = "waiting"
                 PROVE  post'[p].stage = "done" /\ post'[p].reply = "result" /\ post'[p].of = q
      OBVIOUS
    <3>1. "result" \in Verdicts /\ q \in 0 .. MaxPost /\ post[p] \in Post
      BY <1>0, <2>2 DEF Verdicts, Posts
    <3>2. post'[p] = Answered(post[p], "result", q)
      BY <2>2, <2>3
    <3> QED BY <3>1, <3>2, AnsweredPost
  <2>9. WaiterRegistered'
    <3> SUFFICES ASSUME NEW x \in DOMAIN post, post'[x].stage = "waiting"
                 PROVE  pending'[post[x].sess][post[x].id] = x
      BY <2>5, <2>6 DEF WaiterRegistered, Same
    <3>1. x # p /\ post[x].stage = "waiting"
      <4>1. CASE p # 0 /\ post[p].stage = "waiting"
        BY <2>6, <2>8, <4>1
      <4>2. CASE ~(p # 0 /\ post[p].stage = "waiting")
        BY <1>0, <2>3, <4>2
      <4> QED BY <4>1, <4>2
    <3>2. /\ post[x].sess \in Sids /\ post[x].id \in Posts
          /\ pending[post[x].sess][post[x].id] = x
      BY <1>0, <3>1 DEF PostInv, PostOK, Live, WaiterInv, WaiterRegistered, Post, Posts
    <3> QED BY <2>1, <2>4, <3>1, <3>2 DEF p
  <2>10. AnswersOwnCall'
    <3>1. CASE p # 0 /\ post[p].stage = "waiting"
      <4>1. q = p \/ post[q].caller # post[p].caller
        BY <2>1, <2>2, <3>1 DEF PostInv, i, PostOK
      <4> QED BY <2>1, <2>2, <2>5, <2>6, <2>8, <3>1, <4>1
          DEF WaiterInv, AnswersOwnCall, Same, ArtifactsKept, i
    <3>2. CASE ~(p # 0 /\ post[p].stage = "waiting")
      BY <2>3, <3>2 DEF WaiterInv, AnswersOwnCall, ArtifactsKept
    <3> QED BY <3>1, <3>2
  <2> QED BY <2>7, <2>9, <2>10 DEF WaiterInv
<1>7. ASSUME NEW s \in Sids, FailPending(s)
      PROVE  WaiterInv'
  <2>1. /\ DOMAIN post' = DOMAIN post
        /\ pending' = [pending EXCEPT ![s] = [i \in Posts |-> 0]]
        /\ \A p \in DOMAIN post :
             post'[p] = IF post[p].stage = "waiting" /\ \E i \in Posts : pending[s][i] = p
                        THEN Answered(post[p], "error", 0) ELSE post[p]
    BY <1>7 DEF FailPending
  <2>2. \A p \in DOMAIN post :
          /\ Answered(post[p], "error", 0).stage = "done"
          /\ Answered(post[p], "error", 0).reply = "error"
    <3>1. "error" \in Verdicts /\ 0 \in 0 .. MaxPost
      BY DEF Verdicts
    <3> QED BY <1>0, <3>1, AnsweredPost
  <2>3. \A x \in DOMAIN post : Same(post'[x], post[x])
    BY DEF PostsKept
  <2>4. /\ pending' \in [Sids -> [Posts -> 0 .. MaxPost]]
        /\ \A i \in Posts : pending'[s][i] = 0
        /\ \A t \in Sids \ {s} : pending'[t] = pending[t]
    BY <2>1 DEF WaiterInv, PendingOK
  <2>5. PendingOK'
    BY <2>1, <2>3, <2>4 DEF WaiterInv, PendingOK, Same
  <2>6. WaiterRegistered'
    <3> SUFFICES ASSUME NEW x \in DOMAIN post, post'[x].stage = "waiting"
                 PROVE  pending'[post[x].sess][post[x].id] = x
      BY <2>1, <2>3 DEF WaiterRegistered, Same
    <3>1. post[x].stage = "waiting" /\ ~ \E i \in Posts : pending[s][i] = x
      BY <2>1, <2>2
    <3>2. /\ post[x].sess \in Sids /\ post[x].id \in Posts
          /\ pending[post[x].sess][post[x].id] = x
      BY <1>0, <3>1 DEF PostInv, PostOK, Live, WaiterInv, WaiterRegistered, Post, Posts
    <3> QED BY <2>4, <3>1, <3>2
  <2>7. AnswersOwnCall'
    BY <2>1, <2>2, <2>3 DEF WaiterInv, AnswersOwnCall, Same, ArtifactsKept
  <2> QED BY <2>5, <2>6, <2>7 DEF WaiterInv
<1>8. CASE UNCHANGED vars
  BY <1>1, <1>8 DEF vars
<1>9. CASE AgentStep
  <2>1. ASSUME NEW s \in Sids,
               \/ \E capable \in BOOLEAN : OpenSession(s, capable)
               \/ OpenCompletes(s) \/ OpenAborts(s)
        PROVE  WaiterInv'
    BY <1>1, <2>1 DEF OpenSession, OpenCompletes, OpenAborts, FinishOpen
  <2>2. ASSUME NEW s \in Sids, Detach(s) \/ ReadClosed(s) PROVE WaiterInv'
    BY <1>7, <2>2 DEF Detach, ReadClosed
  <2>3. CASE Unregister
    BY <1>1, <2>3 DEF Unregister
  <2>4. CASE ToolConnects
    BY <1>2, <2>4, ToolConnectsKeeps DEF ToolConnects
  <2>5. ASSUME NEW kind \in {"initialized", "call"}, ToolPosts(kind) PROVE WaiterInv'
    BY <1>2, <2>5, ToolPostsKeeps DEF ToolPosts
  <2> QED BY <1>3, <1>4, <1>5, <1>6, <1>9, <1>13, <2>1, <2>2, <2>3, <2>4, <2>5
          DEF AgentStep
<1>10. CASE LinkBreaks
  BY <1>1, <1>10 DEF LinkBreaks
<1>11. ASSUME NEW s \in Sids, HubStep(s) PROVE WaiterInv'
  BY <1>1, <1>11 DEF HubStep, FirstFrame, OpenTimesOut, ClientLeaves, PtyEnds, RelayEnds
<1>12. ASSUME NEW s \in Sids, ClientStep(s) PROVE WaiterInv'
  BY <1>1, <1>12 DEF ClientStep, Feed, FeedFails, SpawnRefused, SpawnFails, Start,
    StartReplayed, ReplayDone, ReplayFails, ReplayEnds, CooldownEnds, BackendTakes,
    BackendAnswers, BackendDies, Delivered, Bounced, HostStep
<1>14. ASSUME NEW p \in Posts, TransferEnds(p) PROVE WaiterInv'
  BY <1>1, <1>14 DEF TransferEnds
<1> QED BY <1>8, <1>9, <1>10, <1>11, <1>12, <1>14 DEF Next

-----------------------------------------------------------------------------
(* Channels: which frames reach the hub before and after the open          *)

Of(s) == {p \in DOMAIN post : post[p].sess = s}
Frames == 0 .. MaxPost + 1

\* Among posts of the session, the one frame that says how its open went
Marked(s, m) ==
  \E k \in DOMAIN up[s] :
    up[s][k] = m /\ \A i \in DOMAIN up[s] \ {k} : up[s][i] \in Of(s)

ChannelOK(s) ==
  /\ hub[s] = "open" => opening[s] = "opened"
  /\ hub[s] = "open" \/ (hub[s] = "waiting" /\ opening[s] \in {"no", "attached"}) =>
       up[s] \in Seq(Of(s))
  /\ hub[s] = "waiting" /\ opening[s] = "opened" => Marked(s, Opened)
  /\ hub[s] = "waiting" /\ opening[s] = "refused" => Marked(s, PtyError)

ChannelInv ==
  /\ opening \in [Sids -> {"no", "attached", "opened", "refused"}]
  /\ hub \in [Sids -> {"waiting", "open", "rejected", "timeout", "left"}]
  /\ up \in [Sids -> Seq(Frames)]
  /\ \A s \in Sids : ChannelOK(s)

\* A sequence whose members are all in S is one over S.
LEMMA SeqOf ==
  ASSUME NEW T, NEW q \in Seq(T), NEW S, \A i \in DOMAIN q : q[i] \in S
  PROVE  q \in Seq(S)
<1>1. DOMAIN q = 1 .. Len(q) /\ Len(q) \in Nat /\ q \in [1 .. Len(q) -> T]
  BY LenProperties
<1>2. q \in [1 .. Len(q) -> S]
  BY <1>1
<1> QED BY <1>1, <1>2

\* A session keeps its posts.
LEMMA OfGrows ==
  ASSUME PostsKept, NEW s
  PROVE  Of(s) \subseteq Of(s)' /\ Requests(s) \subseteq Requests(s)'
BY DEF PostsKept, Of, Requests, Same

\* A session whose channel, handler and open stay as they are
LEMMA ChannelKept ==
  ASSUME PostsKept, NEW s \in Sids, ChannelInv,
         up'[s] = up[s], hub'[s] = hub[s], opening'[s] = opening[s]
  PROVE  ChannelOK(s)'
<1>1. Of(s) \subseteq Of(s)'
  BY OfGrows
<1>2. up[s] \in Seq(Of(s)) => up[s] \in Seq(Of(s)')
  BY <1>1, SeqMonotonic
<1>3. \A m : Marked(s, m) => Marked(s, m)'
  BY <1>1 DEF Marked
<1> QED BY <1>2, <1>3 DEF ChannelInv, ChannelOK

\* A frame more
LEMMA FrameAdded ==
  ASSUME NEW s \in Sids, up \in [Sids -> Seq(Frames)], NEW m \in Frames,
         up' = [up EXCEPT ![s] = Append(@, m)]
  PROVE  /\ up' \in [Sids -> Seq(Frames)]
         /\ \A t \in Sids \ {s} : up'[t] = up[t]
         /\ up'[s] # <<>>
         /\ DOMAIN up[s] = 1 .. Len(up[s]) /\ Len(up[s]) \in Nat
         /\ DOMAIN up'[s] = 1 .. Len(up[s]) + 1
         /\ \A i \in DOMAIN up[s] : up'[s][i] = up[s][i]
         /\ up'[s][Len(up[s]) + 1] = m
         /\ \A S : up[s] \in Seq(S) /\ m \in S => up'[s] \in Seq(S)
<1>1. up[s] \in Seq(Frames) /\ up'[s] = Append(up[s], m)
  OBVIOUS
<1>2. /\ up'[s] \in Seq(Frames) /\ up'[s] # <<>> /\ Len(up'[s]) = Len(up[s]) + 1
      /\ \A i \in 1 .. Len(up[s]) : up'[s][i] = up[s][i]
      /\ up'[s][Len(up[s]) + 1] = m
  BY <1>1, AppendProperties
<1>3. DOMAIN up[s] = 1 .. Len(up[s]) /\ Len(up[s]) \in Nat
  BY <1>1, LenProperties
<1>4. DOMAIN up'[s] = 1 .. Len(up[s]) + 1
  BY <1>2, LenProperties
<1>5. \A S : up[s] \in Seq(S) /\ m \in S => up'[s] \in Seq(S)
  BY <1>1, AppendProperties
<1> QED BY <1>2, <1>3, <1>4, <1>5

\* The frames of a channel, without the first
LEMMA FirstTaken ==
  ASSUME NEW S, NEW q \in Seq(S), q # <<>>
  PROVE  /\ Head(q) \in S /\ Tail(q) \in Seq(S) /\ Head(q) = q[1] /\ 1 \in DOMAIN q
         /\ \A i \in DOMAIN Tail(q) : i + 1 \in DOMAIN q /\ Tail(q)[i] = q[i + 1] /\ i + 1 # 1
<1>1. /\ Head(q) \in S /\ Tail(q) \in Seq(S) /\ Len(Tail(q)) = Len(q) - 1
      /\ \A i \in 1 .. Len(Tail(q)) : Tail(q)[i] = q[i + 1]
  BY HeadTailProperties
<1>2. DOMAIN q = 1 .. Len(q) /\ DOMAIN Tail(q) = 1 .. Len(Tail(q)) /\ Len(q) \in Nat
  BY <1>1, LenProperties
<1>3. Len(q) # 0
  BY EmptySeq
<1> QED BY <1>1, <1>2, <1>3

Takes(s) ==
  /\ hub[s] = "open" /\ up[s] # <<>> /\ up' = [up EXCEPT ![s] = Tail(@)]
  /\ UNCHANGED <<post, hub, opening>>

\* What the agent sends is a post of the session, or how its open went, once.
LEMMA ChannelStep ==
  ASSUME PostInv, ChannelInv, PostsKept, [Next]_vars,
         \A s \in Sids : host[s].chan = "replaying" => hub[s] = "open" /\ up[s] # <<>>
  PROVE  ChannelInv'
<1> USE DEF agentVars, linkVars
<1>0. /\ DOMAIN post \subseteq Posts
      /\ \A s : Of(s) \subseteq Posts
      /\ Opened \in Frames /\ PtyError \in Frames
      /\ Opened \notin Posts /\ PtyError \notin Posts /\ Opened # PtyError
      /\ \A p \in Posts : p \in Frames
  BY PostsAreTyped DEF PostInv, PostTypes, Posts, Of, Opened, PtyError, NoPost, Frames
<1>1. CASE UNCHANGED <<up, hub, opening>>
  BY <1>1, ChannelKept DEF ChannelInv
<1>2. ASSUME NEW s \in Sids, NEW capable, OpenSession(s, capable) PROVE ChannelInv'
  <2>1. /\ opening[s] = "no" /\ opening' = [opening EXCEPT ![s] = "attached"]
        /\ UNCHANGED <<up, hub>>
    BY <1>2 DEF OpenSession, Asked
  <2>2. \A t \in Sids \ {s} : ChannelOK(t)'
    BY <2>1, ChannelKept DEF ChannelInv
  <2>3. ChannelOK(s)'
    <3>1. up[s] \in Seq(Of(s)) => up[s] \in Seq(Of(s)')
      BY OfGrows, SeqMonotonic
    <3> QED BY <2>1, <3>1 DEF ChannelInv, ChannelOK
  <2> QED BY <2>1, <2>2, <2>3 DEF ChannelInv
<1>3. ASSUME NEW s \in Sids, OpenCompletes(s) \/ OpenAborts(s) PROVE ChannelInv'
  <2>1. PICK m \in {Opened, PtyError} :
          /\ opening[s] \in {"no", "attached"} /\ up' = Upward(s, m) /\ UNCHANGED hub
          /\ opening' = [opening EXCEPT ![s] = IF m = Opened THEN "opened" ELSE "refused"]
    <3>1. CASE OpenCompletes(s)
      BY <3>1 DEF OpenCompletes, FinishOpen
    <3>2. CASE OpenAborts(s)
      BY <1>0, <3>2 DEF OpenAborts, Asked, FinishOpen
    <3> QED BY <1>3, <3>1, <3>2
  <2>2. CASE ~ HasChannel(s)
    <3>1. UNCHANGED <<up, hub>>
      BY <2>1, <2>2 DEF Upward
    <3>2. \A t \in Sids \ {s} : ChannelOK(t)'
      BY <2>1, <3>1, ChannelKept DEF ChannelInv
    <3>3. ChannelOK(s)'
      BY <2>2, <3>1 DEF ChannelOK, HasChannel
    <3> QED BY <2>1, <3>1, <3>2, <3>3 DEF ChannelInv
  <2>3. CASE HasChannel(s)
    <3>1. up' = [up EXCEPT ![s] = Append(@, m)] /\ m \in Frames
      BY <1>0, <2>1, <2>3 DEF Upward
    <3>2. up \in [Sids -> Seq(Frames)]
      BY DEF ChannelInv
    <3>3. /\ up' \in [Sids -> Seq(Frames)]
          /\ \A t \in Sids \ {s} : up'[t] = up[t]
          /\ DOMAIN up[s] = 1 .. Len(up[s]) /\ Len(up[s]) \in Nat
          /\ DOMAIN up'[s] = 1 .. Len(up[s]) + 1
          /\ \A i \in DOMAIN up[s] : up'[s][i] = up[s][i]
          /\ up'[s][Len(up[s]) + 1] = m
      BY <3>1, <3>2, FrameAdded
    <3>4. \A t \in Sids \ {s} : ChannelOK(t)'
      BY <2>1, <3>3, ChannelKept DEF ChannelInv
    <3>5. hub[s] = "waiting" /\ up[s] \in Seq(Of(s))
      BY <2>1, <2>3 DEF ChannelInv, ChannelOK, HasChannel
    <3>6. Marked(s, m)'
      <4>1. \A i \in DOMAIN up[s] : up[s][i] \in Of(s)'
        BY <3>3, <3>5, ElementOfSeq, OfGrows
      <4> DEFINE k == Len(up[s]) + 1
      <4>2. k \in DOMAIN up'[s] /\ up'[s][k] = m
        BY <3>3
      <4>3. \A i \in DOMAIN up'[s] \ {k} : up'[s][i] \in Of(s)'
        BY <3>3, <4>1
      <4> HIDE DEF k
      <4> QED BY <4>2, <4>3 DEF Marked
    <3>7. ChannelOK(s)'
      BY <1>0, <2>1, <3>5, <3>6 DEF ChannelOK, ChannelInv
    <3> QED BY <1>0, <2>1, <3>3, <3>4, <3>7 DEF ChannelInv
  <2> QED BY <2>2, <2>3
<1>4. ASSUME NEW p \in DOMAIN post, Forward(p) PROVE ChannelInv'
  <2>1. PICK s \in Sids :
          s = post[p].sess /\ up' = Upward(s, p) /\ UNCHANGED <<hub, opening>>
    BY <1>4 DEF Forward, PostInv, PostOK, Live
  <2>2. p \in Of(s) /\ p \in Of(s)' /\ p \in Frames /\ p \in Posts
    BY <1>0, <2>1, OfGrows DEF Of
  <2>3. CASE ~ HasChannel(s)
    BY <1>1, <2>1, <2>3 DEF Upward
  <2>4. CASE HasChannel(s)
    <3>1. up' = [up EXCEPT ![s] = Append(@, p)]
      BY <2>1, <2>4 DEF Upward
    <3>2. up \in [Sids -> Seq(Frames)]
      BY DEF ChannelInv
    <3>3. /\ up' \in [Sids -> Seq(Frames)]
          /\ \A t \in Sids \ {s} : up'[t] = up[t]
          /\ DOMAIN up[s] = 1 .. Len(up[s]) /\ Len(up[s]) \in Nat
          /\ DOMAIN up'[s] = 1 .. Len(up[s]) + 1
          /\ \A i \in DOMAIN up[s] : up'[s][i] = up[s][i]
          /\ up'[s][Len(up[s]) + 1] = p
          /\ \A S : up[s] \in Seq(S) /\ p \in S => up'[s] \in Seq(S)
      BY <2>1, <2>2, <3>1, <3>2, FrameAdded
    <3>4. \A t \in Sids \ {s} : ChannelOK(t)'
      BY <2>1, <3>3, ChannelKept DEF ChannelInv
    <3>5. up[s] \in Seq(Of(s)) => up'[s] \in Seq(Of(s)')
      BY <2>2, <3>3, OfGrows, SeqMonotonic
    <3>6. \A m : Marked(s, m) => Marked(s, m)'
      BY <2>2, <3>3, OfGrows DEF Marked
    <3>7. ChannelOK(s)'
      BY <2>1, <3>5, <3>6 DEF ChannelOK, ChannelInv
    <3> QED BY <2>1, <3>3, <3>4, <3>7 DEF ChannelInv
  <2> QED BY <2>3, <2>4
<1>5. ASSUME NEW s \in Sids, Takes(s) PROVE ChannelInv'
  <2>1. up[s] \in Seq(Of(s)) /\ up[s] \in Seq(Frames) /\ opening[s] = "opened"
    BY <1>5 DEF Takes, ChannelInv, ChannelOK
  <2>2. Tail(up[s]) \in Seq(Of(s)) /\ Tail(up[s]) \in Seq(Frames)
    BY <1>5, <2>1, FirstTaken DEF Takes
  <2>3. /\ up' \in [Sids -> Seq(Frames)] /\ up'[s] = Tail(up[s])
        /\ \A t \in Sids \ {s} : up'[t] = up[t]
    BY <1>5, <2>2 DEF Takes, ChannelInv
  <2>4. \A t \in Sids \ {s} : ChannelOK(t)'
    BY <1>5, <2>3, ChannelKept DEF ChannelInv, Takes
  <2>5. ChannelOK(s)'
    BY <1>5, <2>1, <2>2, <2>3 DEF ChannelOK, Takes, Of
  <2> QED BY <1>5, <2>3, <2>4, <2>5 DEF ChannelInv, Takes
<1>6. CASE UNCHANGED vars
  BY <1>1, <1>6 DEF vars
<1>7. CASE AgentStep
  <2>1. ASSUME NEW s \in Sids, Detach(s) \/ ReadClosed(s) PROVE ChannelInv'
    BY <1>1, <2>1 DEF Detach, ReadClosed
  <2>2. ASSUME NEW s \in Sids, NEW q \in Posts, ReadResponse(s, q) PROVE ChannelInv'
    BY <1>1, <2>2 DEF ReadResponse
  <2>3. CASE Unregister \/ ToolConnects
    BY <1>1, <2>3 DEF Unregister, ToolConnects
  <2>4. ASSUME NEW kind \in {"initialized", "call"}, ToolPosts(kind) PROVE ChannelInv'
    BY <1>1, <2>4 DEF ToolPosts
  <2>5. ASSUME NEW p \in DOMAIN post, CheckAttached(p) \/ Expire(p) \/ Dropped(p)
        PROVE  ChannelInv'
    BY <1>1, <2>5 DEF CheckAttached, Expire, Dropped
  <2> QED BY <1>2, <1>3, <1>4, <1>7, <2>1, <2>2, <2>3, <2>4, <2>5 DEF AgentStep
<1>8. CASE LinkBreaks
  <2>1. /\ up' = [s \in Sids |-> <<>>] /\ UNCHANGED opening
        /\ hub' = [s \in Sids |-> IF opening[s] # "no" /\ HasChannel(s)
                                  THEN "left" ELSE hub[s]]
    BY <1>8 DEF LinkBreaks
  <2>2. <<>> \in Seq(Frames) /\ \A s : <<>> \in Seq(Of(s)')
    BY EmptySeq
  <2>3. ASSUME NEW s \in Sids PROVE ChannelOK(s)'
    BY <2>1, <2>2 DEF ChannelInv, ChannelOK, HasChannel
  <2> QED BY <2>1, <2>2, <2>3 DEF ChannelInv
<1>9. ASSUME NEW s \in Sids, HubStep(s) PROVE ChannelInv'
  <2>1. UNCHANGED <<opening, post>>
    BY <1>9 DEF HubStep, FirstFrame, OpenTimesOut, ClientLeaves, PtyEnds, RelayEnds
  <2>2. <<>> \in Seq(Frames) /\ <<>> \in Seq(Of(s)')
    BY EmptySeq
  <2>3. CASE FirstFrame(s)
    <3>1. /\ hub[s] = "waiting" /\ up[s] # <<>> /\ up[s] \in Seq(Frames)
          /\ up' = [up EXCEPT ![s] = IF Head(up[s]) = Opened THEN Tail(up[s]) ELSE <<>>]
          /\ Head(up[s]) = Opened => hub' = [hub EXCEPT ![s] = "open"]
          /\ Head(up[s]) # Opened => hub' = [hub EXCEPT ![s] = "rejected"]
                                  \/ hub' = [hub EXCEPT ![s] = "timeout"]
      <4>1. /\ hub[s] = "waiting" /\ up[s] # <<>> /\ up[s] \in Seq(Frames)
            /\ up' = [up EXCEPT ![s] = IF Head(up[s]) = Opened THEN Tail(up[s]) ELSE <<>>]
        BY <2>3 DEF FirstFrame, ChannelInv
      <4>2. Head(up[s]) = Opened => hub' = [hub EXCEPT ![s] = "open"]
        BY <1>0, <2>3 DEF FirstFrame
      <4>3. Head(up[s]) # Opened => hub' = [hub EXCEPT ![s] = "rejected"]
                                 \/ hub' = [hub EXCEPT ![s] = "timeout"]
        BY <2>3 DEF FirstFrame
      <4> QED BY <4>1, <4>2, <4>3
    <3>2. /\ Tail(up[s]) \in Seq(Frames) /\ Head(up[s]) = up[s][1] /\ 1 \in DOMAIN up[s]
          /\ \A i \in DOMAIN Tail(up[s]) :
               i + 1 \in DOMAIN up[s] /\ Tail(up[s])[i] = up[s][i + 1] /\ i + 1 # 1
      BY <3>1, FirstTaken
    <3>3. /\ up' \in [Sids -> Seq(Frames)] /\ UNCHANGED opening
          /\ hub' \in [Sids -> {"waiting", "open", "rejected", "timeout", "left"}]
          /\ \A t \in Sids \ {s} : up'[t] = up[t] /\ hub'[t] = hub[t]
      <4>1. /\ up \in [Sids -> Seq(Frames)]
            /\ hub \in [Sids -> {"waiting", "open", "rejected", "timeout", "left"}]
        BY DEF ChannelInv
      <4>2. up' \in [Sids -> Seq(Frames)] /\ \A t \in Sids \ {s} : up'[t] = up[t]
        BY <2>2, <3>1, <3>2, <4>1
      <4>3. \E v \in {"open", "rejected", "timeout"} : hub' = [hub EXCEPT ![s] = v]
        BY <3>1
      <4>4. /\ hub' \in [Sids -> {"waiting", "open", "rejected", "timeout", "left"}]
            /\ \A t \in Sids \ {s} : hub'[t] = hub[t]
        BY <4>1, <4>3
      <4> QED BY <2>1, <4>2, <4>4
    <3>4. \A t \in Sids \ {s} : ChannelOK(t)'
      BY <3>3, ChannelKept DEF ChannelInv
    <3>5. CASE Head(up[s]) = Opened
      <4>1. opening[s] = "opened"
        <5>1. up[s] \notin Seq(Of(s))
          <6>1. up[s] \in Seq(Of(s)) => Head(up[s]) \in Of(s)
            BY <3>1, FirstTaken
          <6> QED BY <1>0, <3>5, <6>1
        <5>2. ~ Marked(s, PtyError)
          BY <1>0, <3>2, <3>5 DEF Marked
        <5> QED BY <3>1, <5>1, <5>2 DEF ChannelInv, ChannelOK
      <4>2. Marked(s, Opened)
        BY <3>1, <4>1 DEF ChannelInv, ChannelOK
      <4>3. \A i \in DOMAIN up[s] \ {1} : up[s][i] \in Of(s)
        BY <1>0, <3>2, <3>5, <4>2 DEF Marked
      <4>4. \A i \in DOMAIN Tail(up[s]) : Tail(up[s])[i] \in Of(s)
        BY <3>2, <4>3
      <4>5. Tail(up[s]) \in Seq(Of(s))
        BY <3>2, <4>4, SeqOf
      <4>6. up'[s] = Tail(up[s]) /\ hub'[s] = "open"
        BY <3>1, <3>5 DEF ChannelInv
      <4>7. ChannelOK(s)'
        BY <2>1, <4>1, <4>5, <4>6 DEF ChannelOK, Of
      <4> QED BY <3>3, <3>4, <4>7 DEF ChannelInv
    <3>6. CASE Head(up[s]) # Opened
      <4>1. ChannelOK(s)'
        BY <3>1, <3>6 DEF ChannelOK, ChannelInv
      <4> QED BY <3>3, <3>4, <4>1 DEF ChannelInv
    <3> QED BY <3>5, <3>6
  <2>4. CASE OpenTimesOut(s)
    <3>1. hub' = [hub EXCEPT ![s] = "timeout"] /\ UNCHANGED up
      BY <2>4 DEF OpenTimesOut
    <3>2. ChannelOK(s)'
      BY <3>1 DEF ChannelOK, ChannelInv
    <3>3. \A t \in Sids \ {s} : ChannelOK(t)'
      BY <2>1, <3>1, ChannelKept DEF ChannelInv
    <3> QED BY <2>1, <3>1, <3>2, <3>3 DEF ChannelInv
  <2>5. CASE ClientLeaves(s) \/ PtyEnds(s)
    <3>1. hub' = [hub EXCEPT ![s] = "left"] /\ up' = [up EXCEPT ![s] = <<>>]
      BY <2>5 DEF ClientLeaves, PtyEnds, RelayEnds
    <3>2. ChannelOK(s)'
      BY <3>1 DEF ChannelOK, ChannelInv
    <3>3. \A t \in Sids \ {s} : ChannelOK(t)'
      BY <2>1, <3>1, ChannelKept DEF ChannelInv
    <3> QED BY <2>1, <2>2, <3>1, <3>2, <3>3 DEF ChannelInv
  <2> QED BY <1>9, <2>3, <2>4, <2>5 DEF HubStep
<1>10. ASSUME NEW s \in Sids, ClientStep(s) PROVE ChannelInv'
  <2>1. ASSUME HasFrame(s), Delivered(s) \/ Bounced(s) PROVE ChannelInv'
    BY <1>5, <2>1 DEF HasFrame, Delivered, Bounced, Takes
  <2>2. ASSUME host[s].chan = "replaying", Delivered(s) \/ Bounced(s) PROVE ChannelInv'
    BY <1>5, <2>2 DEF Delivered, Bounced, Takes
  <2>3. ASSUME HostStep(s) PROVE ChannelInv'
    BY <1>1, <2>3 DEF HostStep
  <2>4. CASE Feed(s) \/ Start(s)
    BY <2>1, <2>4 DEF Feed, Start
  <2>5. CASE FeedFails(s) \/ SpawnRefused(s) \/ SpawnFails(s)
    BY <2>1, <2>5 DEF FeedFails, SpawnRefused, SpawnFails
  <2>6. ASSUME NEW late, ReplayDone(s, late) PROVE ChannelInv'
    BY <2>2, <2>6 DEF ReplayDone
  <2>7. CASE ReplayFails(s)
    BY <2>2, <2>7 DEF ReplayFails
  <2>8. CASE StartReplayed(s) \/ ReplayEnds(s) \/ CooldownEnds(s) \/ BackendTakes(s)
               \/ BackendDies(s)
    BY <2>3, <2>8 DEF StartReplayed, ReplayEnds, CooldownEnds, BackendTakes, BackendDies
  <2>9. ASSUME NEW p \in Posts, BackendAnswers(s, p) PROVE ChannelInv'
    BY <1>1, <2>9 DEF BackendAnswers
  <2> QED BY <1>10, <2>4, <2>5, <2>6, <2>7, <2>8, <2>9 DEF ClientStep
<1>11. ASSUME NEW p \in Posts, TransferEnds(p) PROVE ChannelInv'
  BY <1>1, <1>11 DEF TransferEnds
<1> QED BY <1>6, <1>7, <1>8, <1>9, <1>10, <1>11 DEF Next

-----------------------------------------------------------------------------
(* Hosts: what a backend is fed, and what it may still answer              *)

InitializeFirst(c) ==
  c # <<>> => c[1] = NoPost \/ post[c[1]].kind = "initialize"

\* Host h serves session s: its frames are posts of s, and its cache starts with
\* an initialize, which it has as soon as there is a process.
Good(s, h) ==
  /\ h \in Host
  /\ h.cache \in Seq(Of(s) \cup {NoPost}) /\ Len(h.cache) <= 2
  /\ h.inq \in Seq(Of(s)) /\ Len(h.inq) <= ChanCap
  /\ h.taken \subseteq Requests(s) /\ h.old \subseteq Requests(s)
  /\ InitializeFirst(h.cache)
  /\ h.chan # "none" => h.cache # <<>>
  /\ h.first \in {"none", "initialize"}

Replaying(s) == host[s].chan = "replaying" => hub[s] = "open" /\ up[s] # <<>>

HostInv ==
  /\ DOMAIN host = Sids /\ host = [s \in Sids |-> host[s]]
  /\ \A s \in Sids : Good(s, host[s]) /\ Replaying(s)

\* A session's frames and cache are sequences of posts.
LEMMA CacheTypes ==
  ASSUME PostInv, NEW s
  PROVE  /\ Of(s) \subseteq Posts /\ Requests(s) \subseteq Of(s)
         /\ \A c \in Seq(Of(s) \cup {NoPost}) : c \in Seq(0 .. MaxPost)
         /\ \A q \in Seq(Of(s)) : q \in Seq(Posts)
<1>1. Of(s) \subseteq Posts /\ Requests(s) \subseteq Of(s)
  BY PostsAreTyped DEF PostInv, PostTypes, Of, Requests
<1>2. Of(s) \cup {NoPost} \subseteq 0 .. MaxPost
  BY <1>1 DEF Posts, NoPost
<1>3. \A c \in Seq(Of(s) \cup {NoPost}) : c \in Seq(0 .. MaxPost)
  BY <1>2, SeqMonotonic
<1>4. \A q \in Seq(Of(s)) : q \in Seq(Posts)
  BY <1>1, SeqMonotonic
<1> QED BY <1>1, <1>3, <1>4

\* A new host has nothing.
LEMMA NewHostGood ==
  ASSUME NEW s
  PROVE  Good(s, NewHost) /\ NewHost.chan = "none"
BY EmptySeq DEF Good, NewHost, Host, InitializeFirst

\* maybe_cache_handshake keeps what begins the cache.
LEMMA CachedGood ==
  ASSUME PostInv, NEW s, NEW c \in Seq(Of(s) \cup {NoPost}), Len(c) <= 2,
         InitializeFirst(c), NEW p \in Of(s), c = <<>> => post[p].kind = "initialize"
  PROVE  /\ Cached(c, p) \in Seq(Of(s) \cup {NoPost}) /\ Len(Cached(c, p)) <= 2
         /\ InitializeFirst(Cached(c, p)) /\ Cached(c, p) # <<>>
<1> DEFINE S == Of(s) \cup {NoPost}
<1>1. p \in S /\ c \in Seq(S)
  OBVIOUS
<1> HIDE DEF S
<1>2. Len(c) \in Nat /\ DOMAIN c = 1 .. Len(c)
  BY <1>1, LenProperties
<1>3. /\ Append(c, p) \in Seq(S) /\ Append(c, p) # <<>> /\ Len(Append(c, p)) = Len(c) + 1
      /\ \A i \in 1 .. Len(c) : Append(c, p)[i] = c[i]
      /\ Append(c, p)[Len(c) + 1] = p
  BY <1>1, AppendProperties
<1>4. CASE c = <<>>
  <2>1. Len(c) = 0 /\ DOMAIN c = {}
    BY <1>2, <1>4, EmptySeq
  <2>2. Cached(c, p) = Append(c, p)
    BY <1>4, <2>1 DEF Cached
  <2>3. Append(c, p)[1] = p
    BY <1>3, <2>1
  <2>4. InitializeFirst(Append(c, p))
    BY <1>4, <2>3 DEF InitializeFirst
  <2>5. Len(Append(c, p)) <= 2
    BY <1>3, <2>1
  <2> QED BY <1>3, <2>2, <2>4, <2>5 DEF S
<1>5. CASE c # <<>> /\ Cached(c, p) = c
  BY <1>5
<1>6. CASE c # <<>> /\ Cached(c, p) # c
  <2>1. Cached(c, p) = Append(c, p) /\ ~(Len(c) >= 2)
    BY <1>6 DEF Cached
  <2>2. Len(c) \in Nat \ {0}
    BY <1>1, <1>2, <1>6, EmptySeq
  <2>3. Append(c, p)[1] = c[1]
    BY <1>3, <2>2
  <2>4. InitializeFirst(Append(c, p))
    BY <1>6, <2>3 DEF InitializeFirst
  <2>5. Len(Append(c, p)) <= 2
    BY <1>3, <2>1, <2>2
  <2> QED BY <1>3, <2>1, <2>4, <2>5 DEF S
<1> QED BY <1>4, <1>5, <1>6

\* synthesize_handshake makes one up unless the frame is the initialize.
LEMMA SynthesizedGood ==
  ASSUME PostInv, NEW s, Good(s, host[s])
  PROVE  /\ Synthesized(s) \in Seq(Of(s) \cup {NoPost}) /\ Len(Synthesized(s)) <= 2
         /\ InitializeFirst(Synthesized(s))
         /\ Synthesized(s) = <<>> => host[s].cache = <<>> /\ Kind(s) = "initialize"
<1>1. CASE host[s].cache = <<>> /\ Kind(s) # "initialize"
  <2>1. Synthesized(s) = <<NoPost, NoPost>>
    BY <1>1 DEF Synthesized
  <2>2. /\ <<NoPost, NoPost>> \in Seq(Of(s) \cup {NoPost}) /\ Len(<<NoPost, NoPost>>) = 2
        /\ <<NoPost, NoPost>>[1] = NoPost /\ <<NoPost, NoPost>> # <<>>
    OBVIOUS
  <2> QED BY <2>1, <2>2 DEF InitializeFirst
<1>2. CASE ~(host[s].cache = <<>> /\ Kind(s) # "initialize")
  BY <1>2 DEF Synthesized, Good
<1> QED BY <1>1, <1>2

\* A host nobody touched stays good.
LEMMA HostKept ==
  ASSUME PostInv, PostsKept, NEW s, Good(s, host[s]), host'[s] = host[s]
  PROVE  Good(s, host[s])'
<1>1. Of(s) \subseteq Of(s)' /\ Requests(s) \subseteq Requests(s)'
  BY OfGrows
<1>2. host[s].cache \in Seq(Of(s)' \cup {NoPost}) /\ host[s].inq \in Seq(Of(s)')
  <2>1. Of(s) \cup {NoPost} \subseteq Of(s)' \cup {NoPost}
    BY <1>1
  <2> QED BY <1>1, <2>1, SeqMonotonic DEF Good
<1>3. InitializeFirst(host[s].cache)'
  <2>1. CASE host[s].cache # <<>>
    <3>1. host[s].cache[1] \in Of(s) \cup {NoPost}
      BY <2>1, FirstTaken DEF Good
    <3> QED BY <2>1, <3>1 DEF Good, InitializeFirst, PostsKept, Of, Same
  <2>2. CASE host[s].cache = <<>>
    BY <2>2 DEF InitializeFirst
  <2> QED BY <2>1, <2>2
<1> QED BY <1>1, <1>2, <1>3 DEF Good


\* One host changes while the posts stay.
LEMMA HostReplaced ==
  ASSUME HostInv, UNCHANGED post, NEW s \in Sids, NEW h, Good(s, h),
         host' = [host EXCEPT ![s] = h],
         h.chan = "replaying" => hub'[s] = "open" /\ up'[s] # <<>>,
         \A t \in Sids \ {s} : hub'[t] = hub[t] /\ up'[t] = up[t]
  PROVE  HostInv'
<1>1. \A t : Of(t)' = Of(t) /\ Requests(t)' = Requests(t)
  BY DEF Of, Requests
<1>2. \A c : InitializeFirst(c) <=> InitializeFirst(c)'
  BY DEF InitializeFirst
<1>3. \A t, g : Good(t, g) => Good(t, g)'
  BY <1>1, <1>2 DEF Good
<1>4. DOMAIN host = Sids
  BY DEF HostInv
<1>5. host'[s] = h /\ DOMAIN host' = Sids /\ host' = [t \in Sids |-> host'[t]]
      /\ \A t \in Sids \ {s} : host'[t] = host[t]
  BY <1>4
<1>6. ASSUME NEW t \in Sids PROVE Good(t, host[t])' /\ Replaying(t)'
  <2>1. CASE t = s
    BY <1>3, <1>5, <2>1 DEF Replaying
  <2>2. CASE t # s
    BY <1>3, <1>5, <2>2 DEF HostInv, Replaying
  <2> QED BY <2>1, <2>2
<1> QED BY <1>5, <1>6 DEF HostInv

\* The relay's frame is a post of the session.
LEMMA FrameOfSession ==
  ASSUME ChannelInv, NEW s \in Sids, hub[s] = "open", up[s] # <<>>
  PROVE  Frame(s) \in Of(s)
<1>1. up[s] \in Seq(Of(s))
  BY DEF ChannelInv, ChannelOK
<1> QED BY <1>1, FirstTaken DEF Frame


\* A host that gives its process up
LEMMA FailedGood ==
  ASSUME NEW s, NEW h, Good(s, h)
  PROVE  /\ Good(s, Failed(h)) /\ Failed(h).chan = "none"
         /\ Failed(h).cache = h.cache /\ Failed(h).old = h.old
<1>1. /\ h \in Host /\ h.fails \in Nat /\ h.fails + 1 \in Nat
      /\ (h.fails + 1 >= SpawnLimit) \in BOOLEAN
  BY DEF Good, Host
<1>2. Failed(h) \in Host
  BY <1>1, EmptySeq DEF Failed, Host
<1>3. /\ Failed(h).chan = "none" /\ Failed(h).first = "none" /\ Failed(h).inq = <<>>
      /\ Failed(h).taken = {} /\ Failed(h).cache = h.cache /\ Failed(h).old = h.old
  BY <1>1 DEF Failed, Host
<1>4. <<>> \in Seq(Of(s)) /\ Len(<<>>) = 0
  BY EmptySeq
<1> QED BY <1>2, <1>3, <1>4 DEF Good

\* Its cache may become any other that begins well.
LEMMA CacheReplaced ==
  ASSUME PostInv, NEW s, NEW h, Good(s, h), NEW c \in Seq(Of(s) \cup {NoPost}),
         Len(c) <= 2, InitializeFirst(c), h.chan # "none" => c # <<>>
  PROVE  /\ Good(s, [h EXCEPT !.cache = c])
         /\ [h EXCEPT !.cache = c].chan = h.chan
<1>1. c \in Seq(0 .. MaxPost) /\ h \in Host
  BY CacheTypes DEF Good
<1>2. [h EXCEPT !.cache = c] \in Host
  BY <1>1 DEF Host
<1>3. /\ [h EXCEPT !.cache = c].cache = c /\ [h EXCEPT !.cache = c].chan = h.chan
      /\ [h EXCEPT !.cache = c].inq = h.inq /\ [h EXCEPT !.cache = c].taken = h.taken
      /\ [h EXCEPT !.cache = c].old = h.old /\ [h EXCEPT !.cache = c].first = h.first
  BY <1>1 DEF Host
<1> QED BY <1>2, <1>3 DEF Good

\* Its process may get another queue, and owe other requests.
LEMMA ProcessReplaced ==
  ASSUME PostInv, NEW s, NEW h, Good(s, h), NEW g \in Host,
         g.cache = h.cache /\ g.first \in {"none", "initialize"},
         g.chan = "none" \/ h.cache # <<>>,
         g.inq \in Seq(Of(s)), Len(g.inq) <= ChanCap,
         g.taken \subseteq Requests(s), g.old \subseteq Requests(s)
  PROVE  Good(s, g)
BY DEF Good


\* The client's steps keep its hosts well.
LEMMA ClientKeepsHosts ==
  ASSUME PostInv, ChannelInv, HostInv, NEW s \in Sids, ClientStep(s)
  PROVE  HostInv'
<1> DEFINE h == host[s]
           Q == Seq(Of(s) \cup {NoPost})
<1> USE DEF agentVars, linkVars
<1>1. /\ Good(s, h) /\ Replaying(s) /\ h \in Host /\ DOMAIN host = Sids
      /\ h.cache \in Q /\ Len(h.cache) <= 2 /\ InitializeFirst(h.cache)
      /\ h.inq \in Seq(Of(s)) /\ Len(h.inq) <= ChanCap
      /\ h.taken \subseteq Requests(s) /\ h.old \subseteq Requests(s)
      /\ h.first \in {"none", "initialize"}
      /\ h.chan # "none" => h.cache # <<>>
  BY DEF HostInv, Good
<1>2. Requests(s) \subseteq Posts /\ Of(s) \subseteq Posts
      /\ \A q \in Seq(Of(s)) : q \in Seq(Posts)
  BY CacheTypes
<1>3. ASSUME HasFrame(s) \/ h.chan = "replaying" PROVE Frame(s) \in Of(s)
  BY <1>1, <1>3, FrameOfSession DEF HasFrame, Replaying
<1>4. ASSUME HasFrame(s) \/ h.chan = "replaying", h.chan # "none"
      PROVE  /\ Cached(h.cache, Frame(s)) \in Q /\ Len(Cached(h.cache, Frame(s))) <= 2
             /\ InitializeFirst(Cached(h.cache, Frame(s)))
             /\ Cached(h.cache, Frame(s)) # <<>>
  BY <1>1, <1>3, <1>4, CachedGood
<1>5. /\ Synthesized(s) \in Q /\ Len(Synthesized(s)) <= 2
      /\ InitializeFirst(Synthesized(s))
      /\ Synthesized(s) = <<>> => h.cache = <<>> /\ Kind(s) = "initialize"
  BY <1>1, SynthesizedGood
<1>6. <<>> \in Seq(Of(s)) /\ Len(<<>>) = 0
  BY EmptySeq
<1>7. ASSUME Frame(s) \in Of(s)
      PROVE  <<Frame(s)>> \in Seq(Of(s)) /\ Len(<<Frame(s)>>) = 1 /\ ChanCap >= 1
  BY <1>7
<1> HIDE DEF h, Q
\* Every step replaces the record of s.
<1>8. ASSUME NEW g, Good(s, g), host' = [host EXCEPT ![s] = g], g.chan # "replaying",
             HostStep(s) \/ Delivered(s) \/ Bounced(s)
                \/ UNCHANGED <<agentVars, up, closed, hub>>
      PROVE  HostInv'
  <2>1. UNCHANGED <<post, hub>> /\ \A t \in Sids \ {s} : up'[t] = up[t]
    BY <1>8 DEF HostStep, Delivered, Bounced, ChannelInv
  <2> QED BY <1>8, <2>1, HostReplaced
<1>9. CASE Feed(s)
  <2> DEFINE c == Cached(h.cache, Frame(s))
             k == [h EXCEPT !.cache = c]
             g == [k EXCEPT !.inq = Append(h.inq, Frame(s))]
  <2>1. /\ HasFrame(s) /\ h.chan = "running" /\ Len(h.inq) < ChanCap
        /\ host' = [host EXCEPT ![s].cache = c, ![s].inq = Append(h.inq, Frame(s))]
        /\ Delivered(s)
    BY <1>1, <1>9 DEF Feed, h
  <2>2. host' = [host EXCEPT ![s] = g]
    BY <1>1, <2>1 DEF h
  <2>3. Good(s, k) /\ k.chan = "running" /\ k.cache # <<>>
    <3>1. c \in Q /\ Len(c) <= 2 /\ InitializeFirst(c) /\ c # <<>>
      BY <1>4, <2>1
    <3>2. k.cache = c
      BY <1>1 DEF Host
    <3> HIDE DEF c
    <3> QED BY <1>1, <2>1, <3>1, <3>2, CacheReplaced DEF Q
  <2>4. /\ Append(h.inq, Frame(s)) \in Seq(Of(s)) /\ Len(Append(h.inq, Frame(s))) <= ChanCap
    BY <1>1, <1>3, <2>1, AppendProperties
  <2>5. k \in Host /\ k.inq = h.inq /\ k.taken = h.taken /\ k.old = h.old
        /\ k.first = h.first
    BY <1>1, <2>3 DEF Good, Host
  <2> HIDE DEF k
  <2>6. Append(h.inq, Frame(s)) \in Seq(Posts)
    BY <1>2, <2>4
  <2>7. /\ g \in Host /\ g.chan = "running" /\ g.cache = k.cache /\ g.first = h.first
        /\ g.inq = Append(h.inq, Frame(s)) /\ g.taken = h.taken /\ g.old = h.old
    BY <2>3, <2>5, <2>6 DEF Host
  <2> HIDE DEF g
  <2>8. Good(s, g)
    BY <1>1, <2>3, <2>4, <2>7, ProcessReplaced
  <2> QED BY <1>8, <2>1, <2>2, <2>7, <2>8
<1>10. CASE SpawnRefused(s)
  <2> DEFINE g == [h EXCEPT !.cache = Synthesized(s)]
  <2>1. h.chan = "none" /\ host' = [host EXCEPT ![s] = g] /\ Bounced(s)
    BY <1>1, <1>10 DEF SpawnRefused, h
  <2>2. Good(s, g) /\ g.chan = "none"
    BY <1>1, <1>5, <2>1, CacheReplaced DEF Q
  <2> QED BY <1>8, <2>1, <2>2
<1>11. CASE SpawnFails(s)
  <2> DEFINE g == [Failed(h) EXCEPT !.cache = Synthesized(s)]
  <2>1. host' = [host EXCEPT ![s] = g] /\ Bounced(s)
    BY <1>11 DEF SpawnFails, h
  <2>2. Good(s, Failed(h)) /\ Failed(h).chan = "none"
    BY <1>1, FailedGood
  <2>3. Good(s, g) /\ g.chan = "none"
    BY <1>5, <2>2, CacheReplaced DEF Q
  <2> QED BY <1>8, <2>1, <2>3
<1>12. CASE ReplayFails(s)
  <2>1. host' = [host EXCEPT ![s] = Failed(h)] /\ Bounced(s)
    BY <1>12 DEF ReplayFails, h
  <2>2. Good(s, Failed(h)) /\ Failed(h).chan = "none"
    BY <1>1, FailedGood
  <2> QED BY <1>8, <2>1, <2>2
<1>13. CASE ReplayEnds(s)
  <2> DEFINE g == [h EXCEPT !.chan = "dead"]
  <2>1. h.chan = "replaying" /\ host' = [host EXCEPT ![s] = g] /\ HostStep(s)
    BY <1>1, <1>13 DEF ReplayEnds, h
  <2>2. g \in Host /\ g.chan = "dead" /\ g.cache = h.cache /\ g.first = h.first
        /\ g.inq = h.inq /\ g.taken = h.taken /\ g.old = h.old
    BY <1>1 DEF Host
  <2> HIDE DEF g
  <2>3. Good(s, g)
    BY <1>1, <2>1, <2>2, ProcessReplaced
  <2> QED BY <1>8, <2>1, <2>2, <2>3
<1>14. CASE CooldownEnds(s)
  <2> DEFINE g == [h EXCEPT !.cooling = FALSE, !.fails = 0]
  <2>1. host' = [host EXCEPT ![s] = g] /\ HostStep(s)
    BY <1>1, <1>14 DEF CooldownEnds, h
  <2>2. g \in Host /\ g.chan = h.chan /\ g.cache = h.cache /\ g.first = h.first
        /\ g.inq = h.inq /\ g.taken = h.taken /\ g.old = h.old
    BY <1>1 DEF Host
  <2> HIDE DEF g
  <2>3. Good(s, g)
    BY <1>1, <2>1, <2>2, ProcessReplaced
  <2>4. UNCHANGED <<post, hub, up>>
    BY <2>1 DEF HostStep
  <2> QED BY <1>1, <2>1, <2>2, <2>3, <2>4, HostReplaced DEF Replaying, h
<1>15. CASE BackendDies(s)
  <2> DEFINE g == [h EXCEPT !.chan = "dead", !.inq = <<>>, !.taken = {}]
  <2>1. h.chan = "running" /\ host' = [host EXCEPT ![s] = g] /\ HostStep(s)
    BY <1>1, <1>15 DEF BackendDies, h
  <2>2. g \in Host /\ g.chan = "dead" /\ g.cache = h.cache /\ g.first = h.first
        /\ g.inq = <<>> /\ g.taken = {} /\ g.old = h.old
    BY <1>1, <1>2, <1>6 DEF Host
  <2> HIDE DEF g
  <2>3. Good(s, g)
    <3>1. g.inq \in Seq(Of(s)) /\ Len(g.inq) = 0
      BY <1>6, <2>2
    <3>2. Len(g.inq) <= ChanCap
      BY <3>1
    <3>3. g.taken \subseteq Requests(s)
      BY <2>2
    <3> QED BY <1>1, <2>1, <2>2, <3>1, <3>2, <3>3, ProcessReplaced
  <2> QED BY <1>8, <2>1, <2>2, <2>3
<1>16. CASE BackendTakes(s)
  <2>1. /\ h.chan = "running" /\ h.inq # <<>> /\ HostStep(s)
        /\ Head(h.inq) \in Of(s) /\ Tail(h.inq) \in Seq(Of(s)) /\ Len(Tail(h.inq)) <= ChanCap
    <3>1. h.chan = "running" /\ h.inq # <<>> /\ HostStep(s)
      BY <1>16 DEF BackendTakes, h
    <3> QED BY <1>1, <3>1, HeadTailProperties
  <2> DEFINE T == IF post[Head(h.inq)].id = 0 THEN h.taken ELSE h.taken \cup {Head(h.inq)}
             g == [h EXCEPT !.inq = Tail(h.inq), !.taken = T]
  <2>2. T \subseteq Requests(s)
    BY <1>1, <2>1 DEF Requests, Of
  <2>3. host' = [host EXCEPT ![s] = g]
    BY <1>1, <1>16 DEF BackendTakes, h
  <2> HIDE DEF T
  <2>4. g \in Host /\ g.chan = "running" /\ g.cache = h.cache /\ g.first = h.first
        /\ g.inq = Tail(h.inq) /\ g.taken = T /\ g.old = h.old
    BY <1>1, <1>2, <2>1, <2>2 DEF Host
  <2> HIDE DEF g
  <2>5. Good(s, g)
    BY <1>1, <2>1, <2>2, <2>4, ProcessReplaced
  <2> QED BY <1>8, <2>1, <2>3, <2>4, <2>5
<1>17. ASSUME NEW p \in Posts, BackendAnswers(s, p) PROVE HostInv'
  <2> DEFINE g == [h EXCEPT !.taken = h.taken \ {p}, !.old = h.old \ {p}]
  <2>1. host' = [host EXCEPT ![s] = g] /\ UNCHANGED <<agentVars, up, closed, hub>>
    BY <1>1, <1>17 DEF BackendAnswers, h
  <2>2. g \in Host /\ g.chan = h.chan /\ g.cache = h.cache /\ g.first = h.first
        /\ g.inq = h.inq /\ g.taken = h.taken \ {p} /\ g.old = h.old \ {p}
    BY <1>1 DEF Host
  <2> HIDE DEF g
  <2>3. Good(s, g)
    BY <1>1, <2>2, ProcessReplaced
  <2> QED BY <1>1, <2>1, <2>2, <2>3, HostReplaced DEF Replaying, h
<1>18. CASE FeedFails(s)
  <2> DEFINE c == Cached(h.cache, Frame(s))
             more == IF h.chan = "dead" THEN {}
                     ELSE h.taken \cup
                            {p \in DOMAIN post :
                               /\ post[p].id # 0
                               /\ \E i \in DOMAIN h.inq : h.inq[i] = p}
             k == Failed(h)
             j == [k EXCEPT !.cache = c]
             g == [k EXCEPT !.cache = c, !.old = h.old \cup more]
  <2>1. HasFrame(s) /\ h.chan \in {"dead", "running"} /\ Bounced(s)
    BY <1>18 DEF FeedFails, h
  <2>2. host' = [host EXCEPT ![s] = g]
    BY <1>18, <1>1, FailedGood DEF FeedFails, h
  <2>3. more \subseteq Requests(s)
    <3>1. \A i \in DOMAIN h.inq : h.inq[i] \in Of(s)
      BY <1>1, ElementOfSeq
    <3> QED BY <1>1, <3>1 DEF Requests, Of
  <2>4. Good(s, k) /\ k.chan = "none" /\ k.old = h.old
    BY <1>1, FailedGood
  <2>5. c \in Q /\ Len(c) <= 2 /\ InitializeFirst(c)
    BY <1>4, <2>1
  <2> HIDE DEF c, k, more
  <2>6. Good(s, j) /\ j.chan = "none" /\ j.old = h.old /\ j \in Host
    <3>1. Good(s, j) /\ j.chan = "none"
      BY <2>4, <2>5, CacheReplaced DEF Q
    <3>2. k \in Host
      BY <2>4 DEF Good
    <3> QED BY <2>4, <3>1, <3>2 DEF Good, Host
  <2>7. g = [j EXCEPT !.old = h.old \cup more]
    BY <2>4 DEF Good, Host
  <2> HIDE DEF j
  <2>8. h.old \cup more \in SUBSET Posts
    BY <1>1, <1>2, <2>3
  <2>9. /\ g \in Host /\ g.chan = "none" /\ g.cache = j.cache /\ g.first = j.first
        /\ g.inq = j.inq /\ g.taken = j.taken /\ g.old = h.old \cup more
    BY <2>6, <2>7, <2>8 DEF Host
  <2> HIDE DEF g
  <2>10. Good(s, g)
    <3>1. /\ j.inq \in Seq(Of(s)) /\ Len(j.inq) <= ChanCap /\ j.taken \subseteq Requests(s)
          /\ j.first \in {"none", "initialize"}
      BY <2>6 DEF Good
    <3>2. h.old \cup more \subseteq Requests(s)
      BY <1>1, <2>3
    <3> QED BY <2>6, <2>9, <3>1, <3>2, ProcessReplaced
  <2> QED BY <1>8, <2>1, <2>2, <2>9, <2>10
<1>19. CASE Start(s)
  <2> DEFINE c == Cached(h.cache, Frame(s))
             g == [h EXCEPT !.chan = "running", !.first = Kind(s), !.cache = c,
                            !.inq = <<Frame(s)>>]
  <2>1. HasFrame(s) /\ Synthesized(s) = <<>> /\ Delivered(s)
    BY <1>19 DEF Start
  <2>2. host' = [host EXCEPT ![s] = g]
    BY <1>1, <1>19 DEF Start, h
  <2>3. h.cache = <<>> /\ Kind(s) = "initialize" /\ Frame(s) \in Of(s)
    BY <1>3, <1>5, <2>1
  <2>4. c \in Q /\ Len(c) <= 2 /\ InitializeFirst(c) /\ c # <<>>
    BY <1>1, <2>3, CachedGood DEF Q, Kind
  <2>5. /\ <<Frame(s)>> \in Seq(Of(s)) /\ Len(<<Frame(s)>>) <= ChanCap
        /\ <<Frame(s)>> \in Seq(Posts) /\ c \in Seq(0 .. MaxPost)
    BY <1>2, <1>7, <2>3, <2>4, CacheTypes DEF Q
  <2> HIDE DEF c
  <2>6. /\ g \in Host /\ g.chan = "running" /\ g.cache = c /\ g.first = "initialize"
        /\ g.inq = <<Frame(s)>> /\ g.taken = h.taken /\ g.old = h.old
    BY <1>1, <2>3, <2>5 DEF Host, Kinds
  <2> HIDE DEF g
  <2>7. Good(s, g)
    <3>1. g.inq \in Seq(Of(s)) /\ Len(g.inq) <= ChanCap
      BY <2>5, <2>6
    <3>2. g.cache \in Seq(Of(s) \cup {NoPost}) /\ Len(g.cache) <= 2
          /\ InitializeFirst(g.cache) /\ g.cache # <<>>
      BY <2>4, <2>6 DEF Q
    <3> QED BY <1>1, <2>6, <3>1, <3>2 DEF Good
  <2> QED BY <1>8, <2>1, <2>2, <2>6, <2>7
<1>20. CASE StartReplayed(s)
  <2> DEFINE c == Synthesized(s)
             f == IF Head(c) = NoPost THEN "initialize" ELSE post[Head(c)].kind
             g == [h EXCEPT !.chan = "replaying", !.cache = c, !.first = f]
  <2>1. HasFrame(s) /\ c # <<>> /\ HostStep(s)
    BY <1>20 DEF StartReplayed
  <2>2. host' = [host EXCEPT ![s] = g]
    BY <1>1, <1>20 DEF StartReplayed, h
  <2>3. f = "initialize"
    <3>1. Head(c) = c[1]
      BY <1>5, <2>1, FirstTaken DEF Q
    <3> QED BY <1>5, <2>1, <3>1 DEF InitializeFirst
  <2>4. c \in Q /\ Len(c) <= 2 /\ InitializeFirst(c) /\ c \in Seq(0 .. MaxPost)
    BY <1>5, CacheTypes DEF Q
  <2> HIDE DEF c, f
  <2>5. /\ g \in Host /\ g.chan = "replaying" /\ g.cache = c /\ g.first = "initialize"
        /\ g.inq = h.inq /\ g.taken = h.taken /\ g.old = h.old
    BY <1>1, <2>3, <2>4 DEF Host, Kinds
  <2> HIDE DEF g
  <2>6. Good(s, g)
    BY <1>1, <2>1, <2>4, <2>5 DEF Good, Q
  <2>7. UNCHANGED <<post, hub, up>>
    BY <2>1 DEF HostStep
  <2>8. hub[s] = "open" /\ up[s] # <<>>
    BY <2>1 DEF HasFrame
  <2> QED BY <2>2, <2>6, <2>7, <2>8, HostReplaced
<1>21. ASSUME NEW late \in BOOLEAN, ReplayDone(s, late) PROVE HostInv'
  <2> DEFINE c == Cached(h.cache, Frame(s))
             T == IF late /\ Head(h.cache) # NoPost THEN h.taken \cup {Head(h.cache)}
                  ELSE h.taken
             g == [h EXCEPT !.chan = "running", !.cache = c, !.inq = <<Frame(s)>>,
                            !.taken = T]
  <2>1. h.chan = "replaying" /\ Delivered(s)
    BY <1>21 DEF ReplayDone, h
  <2>2. host' = [host EXCEPT ![s] = g]
    BY <1>1, <1>21 DEF ReplayDone, h
  <2>3. T \subseteq Requests(s)
    <3>1. Head(h.cache) \in Of(s) \cup {NoPost} /\ Head(h.cache) = h.cache[1]
      BY <1>1, <2>1, FirstTaken DEF Q
    <3>2. ASSUME Head(h.cache) # NoPost PROVE Head(h.cache) \in Requests(s)
      <4>1. /\ post[Head(h.cache)].kind = "initialize" /\ Head(h.cache) \in DOMAIN post
            /\ post[Head(h.cache)].sess = s
        BY <1>1, <2>1, <3>1, <3>2 DEF InitializeFirst, Of
      <4> QED BY <4>1 DEF PostInv, PostOK, Requests
    <3> QED BY <1>1, <3>2
  <2>4. /\ c \in Q /\ Len(c) <= 2 /\ InitializeFirst(c) /\ c # <<>>
        /\ Frame(s) \in Of(s)
    BY <1>3, <1>4, <2>1
  <2>5. /\ <<Frame(s)>> \in Seq(Of(s)) /\ Len(<<Frame(s)>>) <= ChanCap
        /\ <<Frame(s)>> \in Seq(Posts) /\ c \in Seq(0 .. MaxPost)
        /\ T \in SUBSET Posts
    BY <1>2, <1>7, <2>3, <2>4, CacheTypes DEF Q
  <2> HIDE DEF c, T
  <2>6. /\ g \in Host /\ g.chan = "running" /\ g.cache = c /\ g.first = h.first
        /\ g.inq = <<Frame(s)>> /\ g.taken = T /\ g.old = h.old
    BY <1>1, <2>5 DEF Host
  <2> HIDE DEF g
  <2>7. Good(s, g)
    <3>1. g.inq \in Seq(Of(s)) /\ Len(g.inq) <= ChanCap
      BY <2>5, <2>6
    <3>2. g.cache \in Seq(Of(s) \cup {NoPost}) /\ Len(g.cache) <= 2
          /\ InitializeFirst(g.cache) /\ g.cache # <<>>
      BY <2>4, <2>6 DEF Q
    <3> QED BY <1>1, <2>3, <2>6, <3>1, <3>2 DEF Good
  <2> QED BY <1>8, <2>1, <2>2, <2>6, <2>7
<1> QED
  BY <1>9, <1>10, <1>11, <1>12, <1>13, <1>14, <1>15, <1>16, <1>17, <1>18, <1>19, <1>20,
     <1>21 DEF ClientStep


\* Steps that leave the hosts alone, but may add frames
LEMMA HostsKept ==
  ASSUME PostInv, PostsKept, HostInv, UNCHANGED host,
         \A s \in Sids : Replaying(s) => Replaying(s)'
  PROVE  HostInv'
BY HostKept DEF HostInv

\* Of the agent's and the hub's steps only those that end a session touch a host.
LEMMA HostStepKeeps ==
  ASSUME PostInv, PostsKept, ChannelInv, HostInv, [Next]_vars
  PROVE  HostInv'
<1> USE DEF agentVars, linkVars
<1>1. ASSUME UNCHANGED <<host, hub, up>> PROVE HostInv'
  BY <1>1, HostsKept DEF Replaying
<1>2. ASSUME NEW s \in Sids, NEW m \in Frames, up' = Upward(s, m), UNCHANGED <<host, hub>>
      PROVE  HostInv'
  <2>1. CASE ~ HasChannel(s)
    BY <1>1, <1>2, <2>1 DEF Upward
  <2>2. CASE HasChannel(s)
    <3>1. up \in [Sids -> Seq(Frames)] /\ up' = [up EXCEPT ![s] = Append(@, m)]
      BY <1>2, <2>2 DEF ChannelInv, Upward
    <3>2. up'[s] # <<>> /\ \A t \in Sids \ {s} : up'[t] = up[t]
      BY <3>1, FrameAdded
    <3> QED BY <1>2, <3>2, HostsKept DEF Replaying
  <2> QED BY <2>1, <2>2
<1>3. CASE UNCHANGED vars
  BY <1>1, <1>3 DEF vars
<1>4. CASE AgentStep
  <2>1. ASSUME NEW s \in Sids, NEW capable, OpenSession(s, capable) PROVE HostInv'
    BY <1>1, <2>1 DEF OpenSession
  <2>2. ASSUME NEW s \in Sids, OpenCompletes(s) \/ OpenAborts(s) PROVE HostInv'
    <3>1. Opened \in Frames /\ PtyError \in Frames
      BY DEF Opened, PtyError, NoPost, Frames
    <3> QED BY <1>2, <2>2, <3>1 DEF OpenCompletes, OpenAborts, FinishOpen
  <2>3. ASSUME NEW s \in Sids, Detach(s) \/ ReadClosed(s) PROVE HostInv'
    BY <1>1, <2>3 DEF Detach, ReadClosed
  <2>4. ASSUME NEW s \in Sids, NEW q \in Posts, ReadResponse(s, q) PROVE HostInv'
    BY <1>1, <2>4 DEF ReadResponse
  <2>5. CASE Unregister \/ ToolConnects
    BY <1>1, <2>5 DEF Unregister, ToolConnects
  <2>6. ASSUME NEW kind \in {"initialized", "call"}, ToolPosts(kind) PROVE HostInv'
    BY <1>1, <2>6 DEF ToolPosts
  <2>7. ASSUME NEW p \in DOMAIN post, CheckAttached(p) \/ Expire(p) \/ Dropped(p)
        PROVE  HostInv'
    BY <1>1, <2>7 DEF CheckAttached, Expire, Dropped
  <2>8. ASSUME NEW p \in DOMAIN post, Forward(p) PROVE HostInv'
    <3>1. p \in Frames
      BY PostsAreTyped DEF PostInv, PostTypes, Posts, Frames
    <3>2. post[p].sess \in Sids
      BY <2>8 DEF Forward, PostInv, PostOK, Live
    <3>3. up' = Upward(post[p].sess, p) /\ UNCHANGED <<host, hub>>
      BY <2>8 DEF Forward
    <3> QED BY <1>2, <3>1, <3>2, <3>3
  <2> QED BY <1>4, <2>1, <2>2, <2>3, <2>4, <2>5, <2>6, <2>7, <2>8 DEF AgentStep
<1>5. ASSUME UNCHANGED post, NEW L \in SUBSET Sids,
             host' = [s \in Sids |-> IF s \in L THEN NewHost ELSE host[s]],
             \A s \in Sids \ L : Replaying(s) => Replaying(s)'
      PROVE  HostInv'
  <2>1. ASSUME NEW s \in Sids PROVE Good(s, host[s])' /\ Replaying(s)'
    <3>1. CASE s \in L
      <4>1. host'[s] = NewHost /\ (Good(s, NewHost) => Good(s, NewHost)')
        BY <1>5, <3>1 DEF Good, Of, Requests, InitializeFirst
      <4> QED BY <4>1, NewHostGood DEF Replaying
    <3>2. CASE s \notin L
      <4>1. host'[s] = host[s] /\ Good(s, host[s]) /\ Replaying(s)
        BY <1>5, <3>2 DEF HostInv
      <4> QED BY <1>5, <3>2, <4>1, HostKept
    <3> QED BY <3>1, <3>2
  <2>2. DOMAIN host' = Sids /\ host' = [s \in Sids |-> host'[s]]
    BY <1>5
  <2> QED BY <2>1, <2>2 DEF HostInv
<1>6. CASE LinkBreaks
  <2> DEFINE L == {s \in Sids : opening[s] # "no" /\ HasChannel(s)}
  <2>1. /\ host' = [s \in Sids |-> IF s \in L THEN NewHost ELSE host[s]]
        /\ UNCHANGED post
    BY <1>6 DEF LinkBreaks
  <2>2. \A s \in Sids : host[s].chan = "replaying" => s \in L
    BY DEF HostInv, Replaying, ChannelInv, ChannelOK, HasChannel
  <2>3. L \in SUBSET Sids
    OBVIOUS
  <2> HIDE DEF L
  <2>4. \A s \in Sids \ L : Replaying(s)'
    BY <2>1, <2>2 DEF Replaying
  <2> QED BY <1>5, <2>1, <2>3, <2>4
<1>7. ASSUME NEW s \in Sids, HubStep(s) PROVE HostInv'
  <2>1. CASE FirstFrame(s) \/ OpenTimesOut(s)
    <3>1. /\ hub[s] = "waiting" /\ UNCHANGED <<post, host>>
          /\ \A t \in Sids \ {s} : hub'[t] = hub[t] /\ up'[t] = up[t]
      BY <2>1 DEF FirstFrame, OpenTimesOut, ChannelInv
    <3> QED BY <3>1, HostsKept DEF HostInv, Replaying
  <2>2. CASE ClientLeaves(s) \/ PtyEnds(s)
    <3>1. /\ host' = [host EXCEPT ![s] = NewHost] /\ UNCHANGED post
          /\ \A t \in Sids \ {s} : hub'[t] = hub[t] /\ up'[t] = up[t]
      BY <2>2 DEF ClientLeaves, PtyEnds, RelayEnds, ChannelInv
    <3>2. host' = [t \in Sids |-> IF t \in {s} THEN NewHost ELSE host[t]]
      BY <3>1 DEF HostInv
    <3>3. \A t \in Sids \ {s} : Replaying(t) => Replaying(t)'
      BY <3>1, <3>2 DEF Replaying
    <3> QED BY <1>5, <3>1, <3>2, <3>3
  <2> QED BY <1>7, <2>1, <2>2 DEF HubStep
<1>8. ASSUME NEW p \in Posts, TransferEnds(p) PROVE HostInv'
  BY <1>1, <1>8 DEF TransferEnds
<1> QED BY <1>3, <1>4, <1>6, <1>7, <1>8, ClientKeepsHosts DEF Next

-----------------------------------------------------------------------------
(* Responses: what comes back was asked by a request of the session, or    *)
(* waited for artifacts                                                    *)

TransfersOK ==
  /\ wire \in [Sids -> Sids]
  /\ transfers \subseteq carried
  /\ carried \subseteq {p \in DOMAIN post : post[p].id # 0}

DownInv == down \in [Sids -> SUBSET Posts] /\ DownOK /\ TransfersOK

\* Every response on its way back is to a request of its session, or of one of
\* the same connection and waited for its artifacts.
LEMMA DownStep ==
  ASSUME PostInv, PostsKept, ArtifactsKept, HostInv, DownInv, [Next]_vars
  PROVE  DownInv'
<1> USE DEF agentVars, linkVars, artifacts
<1>1. \A s : Returned(s) \subseteq Returned(s)'
  BY DEF PostsKept, Returned, Same, ArtifactsKept
<1>2. CASE UNCHANGED <<down, artifacts>>
  <2>1. TransfersOK'
    BY <1>2 DEF DownInv, TransfersOK, PostsKept, Same
  <2> QED BY <1>1, <1>2, <2>1 DEF DownInv, DownOK
<1>3. ASSUME NEW s \in Sids, NEW q \in Posts, ReadResponse(s, q) PROVE DownInv'
  <2>1. down' = [down EXCEPT ![s] = @ \ {q}] /\ UNCHANGED artifacts
    BY <1>3 DEF ReadResponse
  <2>2. TransfersOK'
    BY <2>1 DEF DownInv, TransfersOK, PostsKept, Same
  <2> QED BY <1>1, <2>1, <2>2 DEF DownInv, DownOK
<1>4. ASSUME NEW s \in Sids, NEW p \in Posts, BackendAnswers(s, p) PROVE DownInv'
  <2>1. p \in Requests(s) /\ UNCHANGED post
    BY <1>4 DEF BackendAnswers, HostInv, Good
  <2>2. CASE down' = [down EXCEPT ![s] = @ \cup {p}] /\ UNCHANGED artifacts
    <3>1. TransfersOK'
      BY <2>1, <2>2 DEF DownInv, TransfersOK
    <3>2. p \in Returned(s)
      BY <2>1 DEF Requests, Returned
    <3> QED BY <1>1, <2>2, <3>1, <3>2 DEF DownInv, DownOK
  <2>3. CASE /\ transfers' = transfers \cup {p} /\ carried' = carried \cup {p}
             /\ UNCHANGED <<down, wire>>
    <3>1. TransfersOK'
      BY <2>1, <2>3 DEF DownInv, TransfersOK, Requests
    <3> QED BY <1>1, <2>3, <3>1 DEF DownInv, DownOK
  <2> QED BY <1>4, <2>2, <2>3 DEF BackendAnswers
<1>5. CASE LinkBreaks
  <2>1. down' = [s \in Sids |-> {}] /\ UNCHANGED <<post, artifacts>>
    BY <1>5 DEF LinkBreaks
  <2>2. TransfersOK'
    BY <2>1 DEF DownInv, TransfersOK
  <2> QED BY <2>1, <2>2 DEF DownInv, DownOK
<1>6. CASE AgentStep
  BY <1>2, <1>3, <1>6 DEF AgentStep, OpenSession, OpenCompletes, OpenAborts, FinishOpen,
    Detach, ReadClosed, Unregister, ToolConnects, ToolPosts, CheckAttached, Forward,
    Expire, Dropped
<1>7. ASSUME NEW s \in Sids, HubStep(s) PROVE DownInv'
  BY <1>2, <1>7 DEF HubStep, FirstFrame, OpenTimesOut, ClientLeaves, PtyEnds, RelayEnds
<1>8. ASSUME NEW s \in Sids, ClientStep(s) PROVE DownInv'
  BY <1>2, <1>4, <1>8 DEF ClientStep, Feed, FeedFails, SpawnRefused, SpawnFails, Start,
    StartReplayed, ReplayDone, ReplayFails, ReplayEnds, CooldownEnds, BackendTakes,
    BackendDies, Delivered, Bounced, HostStep
<1>9. CASE UNCHANGED vars
  BY <1>2, <1>9 DEF vars
<1>10. ASSUME NEW p \in Posts, TransferEnds(p) PROVE DownInv'
  <2> DEFINE active == {s \in Sids : hub[s] = "open" /\ wire[s] = wire[post[p].sess]}
  <2>1. /\ p \in transfers /\ transfers' = transfers \ {p}
        /\ down' = [s \in Sids |-> IF s \in active THEN down[s] \cup {p} ELSE down[s]]
        /\ UNCHANGED <<post, wire, carried>>
    BY <1>10 DEF TransferEnds
  <2>2. TransfersOK'
    BY <2>1 DEF DownInv, TransfersOK
  <2>3. p \in DOMAIN post /\ post[p].id # 0 /\ p \in carried
    BY <2>1 DEF DownInv, TransfersOK
  <2>4. \A s \in active : p \in Returned(s)
    BY <2>3 DEF Returned
  <2>5. \A s \in Sids : down[s] \subseteq Posts /\ down[s] \subseteq Returned(s)
    BY DEF DownInv, DownOK
  <2> HIDE DEF active
  <2>6. \A s \in Sids : down'[s] \subseteq Posts /\ down'[s] \subseteq Returned(s)
    BY <2>1, <2>4, <2>5
  <2>7. down' \in [Sids -> SUBSET Posts]
    BY <2>1, <2>6
  <2> QED BY <1>1, <2>2, <2>6, <2>7 DEF DownInv, DownOK
<1> QED BY <1>5, <1>6, <1>7, <1>8, <1>9, <1>10 DEF Next

-----------------------------------------------------------------------------
(* The invariant, and what follows from it                                 *)

IInv == PostInv /\ WaiterInv /\ ChannelInv /\ HostInv /\ DownInv

\* It holds before anything is open ...
LEMMA InitHolds == Init => IInv
<1> SUFFICES ASSUME Init PROVE IInv
  OBVIOUS
<1>1. <<>> \in Seq(Post) /\ Len(<<>>) = 0 /\ DOMAIN <<>> = {}
  BY EmptySeq
<1>2. post = <<>> /\ DOMAIN post = {}
  BY <1>1 DEF Init
<1>3. PostInv
  BY <1>1, <1>2 DEF Init, PostInv, PostTypes, PostOK, Numbers, NoSid
<1>4. WaiterInv
  BY <1>2 DEF Init, WaiterInv, PendingOK, WaiterRegistered, AnswersOwnCall, NoPost
<1>5. ChannelInv
  <2>1. <<>> \in Seq(Frames) /\ \A s : <<>> \in Seq(Of(s))
    BY EmptySeq
  <2> QED BY <2>1 DEF Init, ChannelInv, ChannelOK
<1>6. HostInv
  BY NewHostGood DEF Init, HostInv, Replaying
<1>7. DownInv
  BY DEF Init, DownInv, DownOK, TransfersOK
<1> QED BY <1>3, <1>4, <1>5, <1>6, <1>7 DEF IInv

\* ... and every step keeps it.
LEMMA StepKeeps == IInv /\ [Next]_vars => IInv'
<1> SUFFICES ASSUME IInv, [Next]_vars PROVE IInv'
  OBVIOUS
<1>1. PostInv /\ PendingOK /\ DownOK /\ WaiterInv /\ ChannelInv /\ HostInv /\ DownInv
  BY DEF IInv, WaiterInv, DownInv
<1>2. PostInv' /\ (Settles \/ Arrives)
  BY <1>1, PostsStep
<1>3. PostsKept
  BY <1>1, <1>2, StepKeepsPosts
<1>9. ArtifactsKept
  BY ArtifactsStep
<1>4. WaiterInv'
  BY <1>1, <1>2, <1>3, <1>9, WaiterStep
<1>5. \A s \in Sids : host[s].chan = "replaying" => hub[s] = "open" /\ up[s] # <<>>
  BY <1>1 DEF HostInv, Replaying
<1>6. ChannelInv'
  BY <1>1, <1>3, <1>5, ChannelStep
<1>7. HostInv'
  BY <1>1, <1>3, HostStepKeeps
<1>8. DownInv'
  BY <1>1, <1>3, <1>9, DownStep
<1> QED BY <1>2, <1>4, <1>6, <1>7, <1>8 DEF IInv

\* The invariant holds for ever, for any number of sessions, posts and connections.
LEMMA Invariance == Spec => []IInv
BY InitHolds, StepKeeps, PTL DEF Spec

\* The links between the agent and the hub name sessions only.
SessionSets == closing \subseteq Sids /\ closed \subseteq Sids

\* Closing a session, by either side, names no other thing.
LEMMA SessionSetsHold == Spec => []SessionSets
<1> USE DEF SessionSets, agentVars, linkVars
<1>1. Init => SessionSets
  BY DEF Init
<1>2. SessionSets /\ [Next]_vars => SessionSets'
  <2> SUFFICES ASSUME SessionSets, [Next]_vars PROVE SessionSets'
    OBVIOUS
  <2>1. CASE UNCHANGED vars
    BY <2>1 DEF vars
  <2>2. CASE AgentStep
    BY <2>2 DEF AgentStep, OpenSession, OpenCompletes, OpenAborts, FinishOpen, Detach,
      ReadResponse, ReadClosed, Unregister, ToolConnects, ToolPosts, CheckAttached,
      Forward, Expire, Dropped
  <2>3. CASE LinkBreaks
    BY <2>3 DEF LinkBreaks
  <2>4. ASSUME NEW s \in Sids, HubStep(s) PROVE SessionSets'
    BY <2>4 DEF HubStep, FirstFrame, OpenTimesOut, ClientLeaves, PtyEnds, RelayEnds
  <2>5. ASSUME NEW s \in Sids, ClientStep(s) PROVE SessionSets'
    BY <2>5 DEF ClientStep, Feed, FeedFails, SpawnRefused, SpawnFails, Start,
      StartReplayed, ReplayDone, ReplayFails, ReplayEnds, CooldownEnds, BackendTakes,
      BackendAnswers, BackendDies, Delivered, Bounced, HostStep
  <2>6. ASSUME NEW p \in Posts, TransferEnds(p) PROVE SessionSets'
    BY <2>6 DEF TransferEnds
  <2> QED BY <2>1, <2>2, <2>3, <2>4, <2>5, <2>6 DEF Next
<1> QED BY <1>1, <1>2, PTL DEF Spec

\* The parts of the bridge keep their types: in particular no queue of a process
\* is longer than its capacity, and no cached handshake has more than two frames
\* (feed, maybe_cache_handshake).
THEOREM TypesAreKept == Spec => []TypeOK
<1>1. IInv /\ SessionSets => TypeOK
  <2> SUFFICES ASSUME IInv, SessionSets PROVE TypeOK
    OBVIOUS
  <2>1. host \in [Sids -> Host]
    BY DEF IInv, HostInv, Good
  <2>2. \A s \in Sids : Len(host[s].cache) <= 2 /\ Len(host[s].inq) <= ChanCap
    BY DEF IInv, HostInv, Good
  <2>3. /\ route \in 0 .. MaxSid /\ attached \subseteq Sids
        /\ post \in Seq(Post) /\ Len(post) <= MaxPost /\ caller \in 0 .. MaxCaller
    BY DEF IInv, PostInv, PostTypes
  <2>4. pending \in [Sids -> [Posts -> 0 .. MaxPost]]
    BY DEF IInv, WaiterInv, PendingOK
  <2>5. /\ opening \in [Sids -> {"no", "attached", "opened", "refused"}]
        /\ hub \in [Sids -> {"waiting", "open", "rejected", "timeout", "left"}]
        /\ up \in [Sids -> Seq(0 .. MaxPost + 1)]
    BY DEF IInv, ChannelInv, Frames
  <2>6. /\ down \in [Sids -> SUBSET Posts] /\ wire \in [Sids -> Sids]
        /\ transfers \subseteq carried /\ carried \subseteq DOMAIN post
    BY DEF IInv, DownInv, TransfersOK
  <2> QED BY <2>1, <2>2, <2>3, <2>4, <2>5, <2>6 DEF TypeOK, SessionSets
<1> QED BY <1>1, Invariance, SessionSetsHold, PTL

\* A result a call gets answers that call, or one of the same number that another
\* connection of the tool made in the same session or, when its result waited for
\* artifacts, in a session of the same client (resolve_response).
THEOREM CallsAreAnsweredTheirOwn == Spec => []AnswersOwnCall
<1>1. IInv => AnswersOwnCall
  BY DEF IInv, WaiterInv
<1> QED BY <1>1, Invariance, PTL

\* Whoever waits is in the table under its session and number, where fail_pending
\* finds it: no lost client leaves a call to its timeout (handle_post).
THEOREM WaitersAreRegistered == Spec => []WaiterRegistered
<1>1. IInv => WaiterRegistered
  BY DEF IInv, WaiterInv
<1> QED BY <1>1, Invariance, PTL

\* Every process a client starts is fed an initialize first: the tool's own, a
\* cached one or a synthesized one (deliver, synthesize_handshake).
THEOREM InitializeComesFirst == Spec => []HandshakeFirst
<1>1. IInv => HandshakeFirst
  BY DEF IInv, HostInv, Good, HandshakeFirst
<1> QED BY <1>1, Invariance, PTL
=============================================================================
