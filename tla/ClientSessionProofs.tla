------------------------- MODULE ClientSessionProofs -------------------------
(* What the mutex of api.ts is for, with any number of tabs, logins and      *)
(* requests and any bound on the waiters: one request of a tab refreshes,    *)
(* those that wait are called when it is done, and what they are given is    *)
(* not the token that was refused. Every action of ClientSession has a       *)
(* lemma or shares one; what a token is worth on the server (Expire,         *)
(* EndSession) plays no part in the proof.                                   *)
EXTENDS ClientSession, SequenceTheorems, TLAPS

Flights == [tab : Tabs, by : Reqs \cup {"timer", "boot", "socket"}, login : Logins,
            answer : {"none", "token", "refused"}, gen : 0..MaxGen]
Requests == [tab : Tabs \cup {None},
             state : {"idle", "sent", "refreshing", "waiting", "done"},
             token : Tokens \cup {None}, sends : 0..2, refused : BOOLEAN]

\* A request is of a tab until it is settled, and goes for a new token once.
RequestsOK ==
  \A r \in Reqs :
    /\ req[r].state \notin {"idle", "done"} => req[r].tab \in Tabs
    /\ req[r].state \in {"refreshing", "waiting"} => req[r].sends = 1
    /\ req[r].refused => req[r].sends = 1

\* A refresh under the mutex is of a request that waits for it, and such a
\* request has one.
HoldersOK ==
  /\ \A f \in flight : f.by \in Reqs =>
       req[f.by].state = "refreshing" /\ req[f.by].tab = f.tab
  /\ \A r \in Reqs : req[r].state = "refreshing" =>
       \E f \in flight : f.by = r /\ f.tab = req[r].tab

\* A token on its way to a tab has been issued, once, and nobody has it yet.
Known(token) == token # None => token.gen <= issued[token.login]
Carried(f) == [login |-> f.login, gen |-> f.gen]
Arriving == {f \in flight : f.answer = "token"}
TokensOK ==
  /\ Known(store.access)
  /\ \A r \in Reqs : Known(req[r].token)
  /\ \A f \in Arriving :
       /\ f.gen \in 1..MaxGen /\ Known(Carried(f))
       /\ store.access # Carried(f)
       /\ \A r \in Reqs : req[r].token # Carried(f)
       /\ \A g \in Arriving : Carried(g) = Carried(f) => g = f

IInv == /\ TypeOK /\ RefreshMutex /\ WaitersHeld /\ TokensOfOneLogin
        /\ RequestsOK /\ HoldersOK /\ TokensOK

-----------------------------------------------------------------------------
(* The mutex                                                                 *)

\* The part of the invariant that speaks of the mutex, and no token.
MutexOK == RefreshMutex /\ WaitersHeld /\ RequestsOK /\ HoldersOK

\* What TypeOK says of the variables of the mutex.
MutexTypes ==
  /\ refreshing \in [Tabs -> BOOLEAN] /\ waiters \in [Tabs -> Seq(Reqs)]
  /\ flight \subseteq Flights /\ req \in [Reqs -> Requests]

\* The types of what the mutex is made of, from the type invariant.
LEMMA TypesAre == TypeOK => MutexTypes
BY DEF TypeOK, MutexTypes, Flights, Requests

\* The refreshes under way for a request of the tab.
Holders(t) == {f \in flight : f.tab = t /\ f.by \in Reqs}

\* WaitersHeld, for a tab.
Once(w) == \A i, j \in DOMAIN w : w[i] = w[j] => i = j
Elements(w) == {w[i] : i \in DOMAIN w}
HeldFor(t) ==
  /\ waiters[t] # <<>> => refreshing[t]
  /\ Len(waiters[t]) <= MaxSubscribers
  /\ Once(waiters[t])
  /\ \A r \in Reqs : (req[r].tab = t /\ req[r].state = "waiting")
                       <=> r \in Elements(waiters[t])

\* What is said of the subscribers can be said tab by tab.
LEMMA WaitersAre == WaitersHeld <=> \A t \in Tabs : HeldFor(t)
BY DEF WaitersHeld, HeldFor, Once, Elements

\* A step that touches neither the mutex nor the requests, and no refresh but
\* those outside the mutex.
LEMMA MutexKept ==
  ASSUME MutexOK, UNCHANGED <<refreshing, waiters, req>>,
         \A f : f.by \in Reqs => (f \in flight' <=> f \in flight)
  PROVE  MutexOK'
<1>1. \A t \in Tabs : Holders(t)' = Holders(t)
  BY DEF Holders
<1>2. RefreshMutex'
  BY <1>1 DEF MutexOK, RefreshMutex, Holders
<1>3. WaitersHeld' /\ RequestsOK'
  BY DEF MutexOK, WaitersHeld, RequestsOK
<1>4. HoldersOK'
  BY DEF MutexOK, HoldersOK
<1>5. QED
  BY <1>2, <1>3, <1>4 DEF MutexOK

\* A refresh gets its answer.
LEMMA MutexAnswered ==
  ASSUME MutexOK, UNCHANGED <<refreshing, waiters, req>>, NEW f \in flight, NEW g,
         g.tab = f.tab, g.by = f.by, flight' = (flight \ {f}) \cup {g}
  PROVE  MutexOK'
<1>1. ASSUME NEW t \in Tabs
      PROVE  /\ refreshing'[t] <=> Holders(t)' # {}
             /\ \A h, k \in Holders(t)' : h = k
  <2>1. refreshing[t] <=> Holders(t) # {}
    BY DEF MutexOK, RefreshMutex, Holders
  <2>2. \A h, k \in Holders(t) : h = k
    BY DEF MutexOK, RefreshMutex, Holders
  <2>3. CASE f \in Holders(t)
    <3>1. Holders(t)' = {g}
      BY <2>2, <2>3 DEF Holders
    <3>2. QED
      BY <2>1, <2>3, <3>1
  <2>4. CASE f \notin Holders(t)
    <3>1. Holders(t)' = Holders(t)
      BY <2>4 DEF Holders
    <3>2. QED
      BY <2>1, <2>2, <3>1
  <2>5. QED
    BY <2>3, <2>4
<1>2. RefreshMutex'
  BY <1>1 DEF RefreshMutex, Holders
<1>3. WaitersHeld' /\ RequestsOK'
  BY DEF MutexOK, WaitersHeld, RequestsOK
<1>4. HoldersOK'
  BY DEF MutexOK, HoldersOK
<1>5. QED
  BY <1>2, <1>3, <1>4 DEF MutexOK

\* A step that changes requests which neither wait nor refresh, before and after.
LEMMA MutexOfOthers ==
  ASSUME MutexOK, UNCHANGED <<refreshing, waiters, flight>>, RequestsOK',
         \A r \in Reqs : \/ req'[r] = req[r]
                         \/ /\ req[r].state \notin {"waiting", "refreshing"}
                            /\ req'[r].state \notin {"waiting", "refreshing"}
  PROVE  MutexOK'
<1>1. RefreshMutex'
  BY DEF MutexOK, RefreshMutex
<1>2. WaitersHeld'
  BY DEF MutexOK, WaitersHeld
<1>3. HoldersOK'
  BY DEF MutexOK, HoldersOK
<1>4. QED
  BY <1>1, <1>2, <1>3 DEF MutexOK

\* The tab is left without a refresh and without waiters; the requests that had
\* to do with either are no longer waiting for anything.
LEMMA MutexReleased ==
  ASSUME MutexOK, MutexTypes, NEW t \in Tabs, RequestsOK',
         refreshing' = [refreshing EXCEPT ![t] = FALSE],
         waiters' = [waiters EXCEPT ![t] = <<>>],
         \A f \in flight' : f.by \in Reqs => f \in flight,
         \A f \in flight : f.tab = t /\ f.by \in Reqs => f \notin flight',
         \A f \in flight : f.tab # t /\ f.by \in Reqs => f \in flight',
         \A r \in Reqs : IF req[r].tab = t
                         THEN req'[r].state \notin {"waiting", "refreshing"}
                         ELSE req'[r] = req[r]
  PROVE  MutexOK'
<1>1. ASSUME NEW q \in Tabs
      PROVE  /\ refreshing'[q] <=> Holders(q)' # {}
             /\ \A h, k \in Holders(q)' : h = k
  <2>1. CASE q = t
    <3>1. Holders(q)' = {}
      BY <2>1 DEF Holders
    <3>2. ~refreshing'[q]
      BY <2>1 DEF MutexTypes
    <3>3. QED
      BY <3>1, <3>2
  <2>2. CASE q # t
    <3>1. Holders(q)' = Holders(q)
      BY <2>2 DEF Holders
    <3>2. refreshing'[q] = refreshing[q]
      BY <2>2 DEF MutexTypes
    <3>3. (refreshing[q] <=> Holders(q) # {}) /\ \A h, k \in Holders(q) : h = k
      BY DEF MutexOK, RefreshMutex, Holders
    <3>4. QED
      BY <3>1, <3>2, <3>3
  <2>3. QED
    BY <2>1, <2>2
<1>2. RefreshMutex'
  BY <1>1 DEF RefreshMutex, Holders
<1>3. WaitersHeld'
  <2>1. ASSUME NEW q \in Tabs PROVE HeldFor(q)'
    <3>1. HeldFor(q)
      BY WaitersAre DEF MutexOK
    <3>2. CASE q = t
      <4>1. waiters'[q] = <<>>
        BY <3>2 DEF MutexTypes
      <4>2. \A r \in Reqs : ~(req'[r].tab = q /\ req'[r].state = "waiting")
        BY <3>2
      <4>3. QED
        BY <4>1, <4>2, MaxAssumption DEF HeldFor, Once, Elements
    <3>3. CASE q # t
      <4>1. waiters'[q] = waiters[q] /\ refreshing'[q] = refreshing[q]
        BY <3>3 DEF MutexTypes
      <4>2. ASSUME NEW r \in Reqs
            PROVE  (req'[r].tab = q /\ req'[r].state = "waiting")
                     <=> (req[r].tab = q /\ req[r].state = "waiting")
        BY <3>3
      <4>3. QED
        BY <3>1, <4>1, <4>2 DEF HeldFor
    <3>4. QED
      BY <3>2, <3>3
  <2>2. QED
    BY <2>1 DEF HeldFor, Once, Elements, WaitersHeld
<1>4. HoldersOK'
  BY DEF MutexOK, HoldersOK
<1>5. QED
  BY <1>2, <1>3, <1>4 DEF MutexOK

\* A subscriber not in the queue yet joins it at the end, once.
LEMMA AppendOnce ==
  ASSUME NEW S, NEW w \in Seq(S), NEW e \in S, Once(w), e \notin Elements(w)
  PROVE  /\ Append(w, e) \in Seq(S) /\ Len(Append(w, e)) = Len(w) + 1
         /\ Once(Append(w, e)) /\ Elements(Append(w, e)) = Elements(w) \cup {e}
<1> DEFINE v == Append(w, e)
<1>1. v \in Seq(S) /\ Len(v) = Len(w) + 1 /\ DOMAIN v = 1..Len(w) + 1 /\ DOMAIN w = 1..Len(w)
  OBVIOUS
<1>2. v[Len(w) + 1] = e /\ \A i \in 1..Len(w) : v[i] = w[i]
  OBVIOUS
<1>3. \A i \in 1..Len(w) : w[i] # e
  BY DEF Elements
<1>4. Len(w) \in Nat
  OBVIOUS
<1> HIDE DEF v
<1>5. Once(v)
  BY <1>1, <1>2, <1>3, <1>4 DEF Once
<1>6. Elements(v) = Elements(w) \cup {e}
  BY <1>1, <1>2, <1>4 DEF Elements
<1>7. QED
  BY <1>1, <1>5, <1>6 DEF v

\* The first subscriber leaves the queue, in which it stood once.
LEMMA TailOnce ==
  ASSUME NEW S, NEW w \in Seq(S), Once(w), w # <<>>
  PROVE  /\ Tail(w) \in Seq(S) /\ Len(Tail(w)) = Len(w) - 1 /\ Head(w) \in Elements(w)
         /\ Once(Tail(w)) /\ Elements(Tail(w)) = Elements(w) \ {Head(w)}
<1> DEFINE v == Tail(w)
<1>1. Len(w) \in Nat \ {0} /\ DOMAIN w = 1..Len(w) /\ Head(w) = w[1]
  OBVIOUS
<1>2. v \in Seq(S) /\ Len(v) = Len(w) - 1 /\ DOMAIN v = 1..Len(w) - 1
  BY <1>1
<1>3. \A i \in 1..Len(w) - 1 : v[i] = w[i + 1]
  BY <1>1
<1> HIDE DEF v
<1>4. Once(v)
  <2>1. ASSUME NEW i \in 1..Len(w) - 1, NEW j \in 1..Len(w) - 1, v[i] = v[j]
        PROVE  i = j
    <3>1. i + 1 \in DOMAIN w /\ j + 1 \in DOMAIN w /\ w[i + 1] = w[j + 1]
      BY <1>1, <1>3, <2>1
    <3>2. i + 1 = j + 1
      BY <3>1 DEF Once
    <3>3. QED
      BY <3>2
  <2>2. QED
    BY <1>2, <2>1 DEF Once
<1>5. Elements(v) \subseteq Elements(w) \ {Head(w)}
  BY <1>1, <1>2, <1>3 DEF Elements, Once
<1>6. ASSUME NEW x \in Elements(w) \ {Head(w)} PROVE x \in Elements(v)
  <2>1. PICK i \in 1..Len(w) : w[i] = x
    BY <1>1 DEF Elements
  <2>2. i # 1
    BY <1>1, <2>1
  <2>3. i - 1 \in 1..Len(w) - 1 /\ v[i - 1] = x
    BY <1>1, <1>3, <2>1, <2>2
  <2>4. QED
    BY <1>2, <2>3 DEF Elements
<1>7. Head(w) \in Elements(w)
  BY <1>1 DEF Elements
<1>8. QED
  BY <1>2, <1>4, <1>5, <1>6, <1>7 DEF v

\* subscribeToRefresh
LEMMA MutexSubscribed ==
  ASSUME MutexOK, MutexTypes, NEW r \in Reqs, Subscribe(r)
  PROVE  MutexOK' /\ waiters' \in [Tabs -> Seq(Reqs)]
<1> DEFINE t == req[r].tab
           w == waiters[t]
           full == Len(w) >= MaxSubscribers
           rest == IF full THEN Tail(w) ELSE w
<1>1. /\ req[r].state = "sent" /\ req[r].refused /\ refreshing[t]
      /\ waiters' = [waiters EXCEPT ![t] = Append(rest, r)]
      /\ UNCHANGED <<refreshing, flight>>
  BY DEF Subscribe, Unauthorized
<1>2. t \in Tabs /\ req[r].sends = 1
  BY <1>1 DEF MutexOK, RequestsOK
<1>3. w \in Seq(Reqs) /\ Len(w) \in Nat
  BY <1>2 DEF MutexTypes
<1>4. HeldFor(t)
  BY <1>2, WaitersAre DEF MutexOK
<1>5. Once(w) /\ Len(w) <= MaxSubscribers /\ r \notin Elements(w)
  BY <1>1, <1>4 DEF HeldFor
<1>6. full => w # <<>>
  BY <1>3, MaxAssumption
<1>7. /\ rest \in Seq(Reqs) /\ Once(rest) /\ Len(rest) + 1 <= MaxSubscribers
      /\ Elements(rest) = IF full THEN Elements(w) \ {Head(w)} ELSE Elements(w)
  <2>1. CASE full
    <3>1. w # <<>> /\ rest = Tail(w)
      BY <1>6, <2>1
    <3>2. /\ Tail(w) \in Seq(Reqs) /\ Len(Tail(w)) = Len(w) - 1
          /\ Once(Tail(w)) /\ Elements(Tail(w)) = Elements(w) \ {Head(w)}
      BY <1>3, <1>5, <3>1, TailOnce
    <3>3. Len(Tail(w)) + 1 <= MaxSubscribers
      BY <1>3, <1>5, <3>2, MaxAssumption
    <3>4. QED
      BY <2>1, <3>1, <3>2, <3>3
  <2>2. CASE ~full
    <3>1. Len(w) + 1 <= MaxSubscribers
      BY <1>3, <2>2, MaxAssumption
    <3>2. QED
      BY <1>3, <1>5, <2>2, <3>1
  <2>3. QED
    BY <2>1, <2>2
<1>8. full => Head(w) \in Elements(w)
  BY <1>3, <1>5, <1>6, TailOnce
<1> HIDE DEF rest
<1>9. /\ Append(rest, r) \in Seq(Reqs) /\ Once(Append(rest, r))
      /\ Len(Append(rest, r)) <= MaxSubscribers
      /\ Elements(Append(rest, r)) = Elements(rest) \cup {r}
  <2>1. r \notin Elements(rest)
    BY <1>5, <1>7
  <2>2. QED
    BY <1>3, <1>7, <2>1, AppendOnce
<1>10. ASSUME NEW q \in Reqs
       PROVE  req'[q] = IF q = r THEN [req[r] EXCEPT !.state = "waiting"]
                        ELSE IF full /\ q = Head(w) THEN [Idle EXCEPT !.state = "done"]
                        ELSE req[q]
  BY DEF Subscribe
<1>11. req[r] \in Requests
  BY DEF MutexTypes
<1>12. /\ req'[r].state = "waiting" /\ req'[r].tab = t /\ req'[r].sends = 1
       /\ \A q \in Reqs : q # r /\ full /\ q = Head(w) =>
            req'[q].state = "done" /\ ~req'[q].refused
       /\ \A q \in Reqs : q # r /\ ~(full /\ q = Head(w)) => req'[q] = req[q]
  BY <1>2, <1>10, <1>11 DEF Requests, Idle
<1> HIDE DEF full
<1>13. RequestsOK'
  BY <1>2, <1>12 DEF MutexOK, RequestsOK
<1>14. waiters' \in [Tabs -> Seq(Reqs)]
  BY <1>1, <1>2, <1>9 DEF MutexTypes
<1>15. ASSUME NEW q \in Tabs PROVE HeldFor(q)'
  <2>1. HeldFor(q)
    BY WaitersAre DEF MutexOK
  <2>2. CASE q = t
    <3>1. waiters'[q] = Append(rest, r) /\ refreshing'[q]
      BY <1>1, <1>2, <2>2 DEF MutexTypes
    <3>2. ASSUME NEW p \in Reqs
          PROVE  (req'[p].tab = q /\ req'[p].state = "waiting") <=> p \in Elements(rest) \cup {r}
      <4>1. (req[p].tab = q /\ req[p].state = "waiting") <=> p \in Elements(w)
        BY <2>1, <2>2 DEF HeldFor
      <4>2. QED
        BY <1>7, <1>12, <2>2, <4>1
    <3>3. QED
      BY <1>9, <3>1, <3>2 DEF HeldFor
  <2>3. CASE q # t
    <3>1. waiters'[q] = waiters[q] /\ refreshing'[q] = refreshing[q]
      BY <1>1, <2>3 DEF MutexTypes
    <3>2. ASSUME NEW p \in Reqs
          PROVE  (req'[p].tab = q /\ req'[p].state = "waiting")
                   <=> (req[p].tab = q /\ req[p].state = "waiting")
      <4>1. p \in Elements(w) => req[p].tab = t
        BY <1>4 DEF HeldFor
      <4>2. QED
        BY <1>1, <1>8, <1>12, <2>3, <4>1
    <3>3. QED
      BY <2>1, <3>1, <3>2 DEF HeldFor
  <2>4. QED
    BY <2>2, <2>3
<1>16. WaitersHeld'
  BY <1>15 DEF HeldFor, Once, Elements, WaitersHeld
<1>17. RefreshMutex'
  BY <1>1 DEF MutexOK, RefreshMutex
<1>18. HoldersOK'
  <2>1. ASSUME NEW f \in flight, f.by \in Reqs
        PROVE  req'[f.by] = req[f.by]
    <3>1. req[f.by].state = "refreshing"
      BY <2>1 DEF MutexOK, HoldersOK
    <3>2. full => f.by # Head(w)
      BY <1>4, <1>8, <2>1, <3>1 DEF HeldFor
    <3>3. QED
      BY <1>1, <1>12, <2>1, <3>1, <3>2
  <2>2. ASSUME NEW p \in Reqs, req'[p].state = "refreshing"
        PROVE  req'[p] = req[p]
    BY <1>12, <2>2
  <2>3. QED
    BY <1>1, <2>1, <2>2 DEF MutexOK, HoldersOK
<1>19. QED
  BY <1>13, <1>14, <1>16, <1>17, <1>18 DEF MutexOK

\* isRefreshing = true
LEMMA MutexStarted ==
  ASSUME MutexOK, MutexTypes, NEW r \in Reqs, StartRefresh(r)
  PROVE  MutexOK'
<1> DEFINE t == req[r].tab
           f == Refresh(t, r)
<1>1. /\ req[r].state = "sent" /\ req[r].refused /\ ~refreshing[t]
      /\ refreshing' = [refreshing EXCEPT ![t] = TRUE]
      /\ flight' = flight \cup {f}
      /\ req' = [req EXCEPT ![r].state = "refreshing"]
      /\ UNCHANGED waiters
  BY DEF StartRefresh, Unauthorized
<1>2. t \in Tabs /\ req[r].sends = 1
  BY <1>1 DEF MutexOK, RequestsOK
<1>3. f.tab = t /\ f.by = r
  BY DEF Refresh
<1>4. /\ req'[r].state = "refreshing" /\ req'[r].tab = t /\ req'[r].sends = 1
      /\ \A q \in Reqs : q # r => req'[q] = req[q]
  BY <1>1, <1>2 DEF MutexTypes, Requests
<1> HIDE DEF f
<1>5. RequestsOK'
  BY <1>2, <1>4 DEF MutexOK, RequestsOK
<1>6. ASSUME NEW q \in Tabs
      PROVE  /\ refreshing'[q] <=> Holders(q)' # {}
             /\ \A h, k \in Holders(q)' : h = k
  <2>1. (refreshing[q] <=> Holders(q) # {}) /\ \A h, k \in Holders(q) : h = k
    BY DEF MutexOK, RefreshMutex, Holders
  <2>2. CASE q = t
    <3>1. Holders(q)' = {f}
      BY <1>1, <1>3, <2>1, <2>2 DEF Holders
    <3>2. refreshing'[q]
      BY <1>1, <2>2 DEF MutexTypes
    <3>3. QED
      BY <3>1, <3>2
  <2>3. CASE q # t
    <3>1. Holders(q)' = Holders(q)
      BY <1>1, <1>3, <2>3 DEF Holders
    <3>2. refreshing'[q] = refreshing[q]
      BY <1>1, <2>3 DEF MutexTypes
    <3>3. QED
      BY <2>1, <3>1, <3>2
  <2>4. QED
    BY <2>2, <2>3
<1>7. RefreshMutex'
  BY <1>6 DEF RefreshMutex, Holders
<1>8. WaitersHeld'
  <2>1. ASSUME NEW q \in Tabs PROVE HeldFor(q)'
    <3>1. HeldFor(q)
      BY WaitersAre DEF MutexOK
    <3>2. waiters'[q] = waiters[q] /\ (refreshing[q] => refreshing'[q])
      BY <1>1, <1>2 DEF MutexTypes
    <3>3. ASSUME NEW p \in Reqs
          PROVE  (req'[p].tab = q /\ req'[p].state = "waiting")
                   <=> (req[p].tab = q /\ req[p].state = "waiting")
      BY <1>1, <1>4
    <3>4. QED
      BY <3>1, <3>2, <3>3 DEF HeldFor
  <2>2. QED
    BY <2>1 DEF HeldFor, Once, Elements, WaitersHeld
<1>9. HoldersOK'
  <2>1. ASSUME NEW g \in flight, g.by \in Reqs
        PROVE  req'[g.by].state = "refreshing" /\ req'[g.by].tab = g.tab
    BY <1>1, <1>4, <2>1 DEF MutexOK, HoldersOK
  <2>2. ASSUME NEW p \in Reqs, req'[p].state = "refreshing"
        PROVE  \E g \in flight' : g.by = p /\ g.tab = req'[p].tab
    BY <1>1, <1>3, <1>4, <2>2 DEF MutexOK, HoldersOK
  <2>3. QED
    BY <1>1, <1>3, <1>4, <2>1, <2>2 DEF HoldersOK
<1>10. QED
  BY <1>5, <1>7, <1>8, <1>9 DEF MutexOK

\* Whoever has to do with the mutex of the tab of f is in what f is for.
LEMMA ServedByF ==
  ASSUME MutexOK, MutexTypes, NEW f \in flight, f.by \in Reqs, NEW r \in Reqs,
         req[r].tab = f.tab, req[r].state \in {"waiting", "refreshing"}
  PROVE  r \in {f.by} \cup Elements(waiters[f.tab])
<1>1. f.tab \in Tabs
  BY DEF MutexTypes, Flights
<1>2. CASE req[r].state = "waiting"
  BY <1>1, <1>2, WaitersAre DEF MutexOK, HeldFor
<1>3. CASE req[r].state = "refreshing"
  <2>1. PICK g \in flight : g.by = r /\ g.tab = f.tab
    BY <1>3 DEF MutexOK, HoldersOK
  <2>2. g \in Holders(f.tab) /\ f \in Holders(f.tab)
    BY <2>1 DEF Holders
  <2>3. g = f
    BY <1>1, <2>2 DEF MutexOK, RefreshMutex, Holders
  <2>4. QED
    BY <2>1, <2>3
<1>4. QED
  BY <1>2, <1>3

\* isRefreshing = false, and onRefreshComplete
LEMMA MutexFinished ==
  ASSUME MutexOK, MutexTypes, NEW f \in flight, FinishApiRefresh(f)
  PROVE  /\ MutexOK'
         /\ \A r \in Reqs :
              \/ req'[r] = req[r]
              \/ req'[r] = [Idle EXCEPT !.state = "done"]
              \/ /\ f.answer = "token" /\ req[r].sends = 1
                 /\ req'[r] = [req[r] EXCEPT !.state = "sent", !.token = Carried(f),
                                             !.sends = @ + 1, !.refused = FALSE]
<1> DEFINE t == f.tab
           rs == {f.by} \cup Elements(waiters[t])
<1>1. /\ f.by \in Reqs /\ flight' = flight \ {f}
      /\ refreshing' = [refreshing EXCEPT ![t] = FALSE]
      /\ waiters' = [waiters EXCEPT ![t] = <<>>]
      /\ IF f.answer = "token" THEN req' = Resent(rs, Carried(f)) ELSE req' = Settled(rs)
  BY DEF FinishApiRefresh, OnRefreshComplete, Elements, Carried
<1>2. t \in Tabs
  BY DEF MutexTypes, Flights
<1>3. ASSUME NEW r \in Reqs, r \in rs
      PROVE  /\ req[r].tab = t /\ req[r].sends = 1
             /\ req[r].state \in {"refreshing", "waiting"}
  <2>1. CASE r = f.by
    BY <1>1, <2>1 DEF MutexOK, HoldersOK, RequestsOK
  <2>2. CASE r \in Elements(waiters[t])
    BY <1>2, <2>2, WaitersAre DEF MutexOK, HeldFor, RequestsOK
  <2>3. QED
    BY <1>3, <2>1, <2>2
<1>4. ASSUME NEW r \in Reqs
      PROVE  \/ r \notin rs /\ req'[r] = req[r]
             \/ r \in rs /\ req'[r] = [Idle EXCEPT !.state = "done"]
             \/ /\ r \in rs /\ f.answer = "token" /\ req[r].sends = 1
                /\ req'[r] = [req[r] EXCEPT !.state = "sent", !.token = Carried(f),
                                            !.sends = @ + 1, !.refused = FALSE]
  BY <1>1, <1>3 DEF Resent, Settled
<1>5. ASSUME NEW r \in Reqs
      PROVE  \/ r \notin rs /\ req'[r] = req[r]
             \/ r \in rs /\ req'[r].state = "done" /\ ~req'[r].refused
             \/ r \in rs /\ req'[r].state = "sent" /\ ~req'[r].refused /\ req'[r].tab = t
  <2>1. req[r] \in Requests
    BY DEF MutexTypes
  <2>2. QED
    BY <1>3, <1>4, <2>1 DEF Requests, Idle
<1> HIDE DEF rs
<1>6. RequestsOK'
  BY <1>2, <1>5 DEF MutexOK, RequestsOK
<1>7. \A g \in flight : g.tab = t /\ g.by \in Reqs => g \notin flight'
  BY <1>1, <1>2 DEF MutexOK, RefreshMutex
<1>8. ASSUME NEW r \in Reqs
      PROVE  IF req[r].tab = t THEN req'[r].state \notin {"waiting", "refreshing"}
             ELSE req'[r] = req[r]
  BY <1>1, <1>3, <1>5, ServedByF DEF rs
<1>9. MutexOK'
  BY <1>1, <1>2, <1>6, <1>7, <1>8, MutexReleased
<1>10. QED
  BY <1>4, <1>9

-----------------------------------------------------------------------------
(* The tokens                                                                *)

\* What TypeOK says of the variables that have to do with tokens.
TokenTypes ==
  /\ store.access \in Tokens \cup {None} /\ issued \in [Logins -> 0..MaxGen]
  /\ flight \subseteq Flights /\ \A r \in Reqs : req[r].token \in Tokens \cup {None}

\* The types of what carries a token, from the type invariant.
LEMMA TokenTypesAre == TypeOK => TokenTypes
BY DEF TypeOK, TokenTypes, Flights

\* An answer carries a token that was issued.
LEMMA CarriedIsToken ==
  ASSUME TokenTypes, TokensOK, NEW f \in Arriving
  PROVE  Carried(f) \in Tokens /\ Carried(f) # None /\ Known(Carried(f))
<1>1. f.gen \in 1..MaxGen /\ Known(Carried(f))
  BY DEF TokensOK
<1>2. f.login \in Logins
  BY DEF TokenTypes, Arriving, Flights
<1>3. Carried(f) \in Tokens
  BY <1>1, <1>2 DEF Carried, Tokens
<1>4. QED
  BY <1>1, <1>3, NoneAssumption

\* No token is issued, and none arrives.
LEMMA TokensKept ==
  ASSUME TokenTypes, TokensOK, UNCHANGED issued, Arriving' \subseteq Arriving,
         store'.access \in {store.access, None},
         \A r \in Reqs : req'[r].token \in {req[r].token, None, store.access}
  PROVE  TokensOK'
<1>1. Known(None)' /\ \A token : Known(token) => Known(token)'
  BY DEF Known
<1>2. ASSUME NEW f \in Arriving'
      PROVE  /\ f.gen \in 1..MaxGen /\ Known(Carried(f))'
             /\ store'.access # Carried(f)
             /\ \A r \in Reqs : req'[r].token # Carried(f)
             /\ \A g \in Arriving' : Carried(g) = Carried(f) => g = f
  BY <1>1, <1>2, CarriedIsToken DEF TokensOK
<1>3. Known(store.access)' /\ \A r \in Reqs : Known(req[r].token)'
  BY <1>1 DEF TokensOK, Known
<1>4. QED
  BY <1>2, <1>3 DEF TokensOK, Carried

\* The token of f arrives.
LEMMA TokensDelivered ==
  ASSUME TokenTypes, TokensOK, UNCHANGED issued, NEW f \in Arriving,
         flight' = flight \ {f}, store'.access = Carried(f),
         \A r \in Reqs : req'[r].token \in {req[r].token, None, Carried(f)}
  PROVE  TokensOK'
<1>1. Arriving' = Arriving \ {f}
  BY DEF Arriving
<1>2. Known(None)' /\ \A token : Known(token) => Known(token)'
  BY DEF Known
<1>3. ASSUME NEW h \in Arriving'
      PROVE  /\ h.gen \in 1..MaxGen /\ Known(Carried(h))'
             /\ store'.access # Carried(h)
             /\ \A r \in Reqs : req'[r].token # Carried(h)
             /\ \A g \in Arriving' : Carried(g) = Carried(h) => g = h
  BY <1>1, <1>2, <1>3, CarriedIsToken DEF TokensOK
<1>4. Known(store.access)' /\ \A r \in Reqs : Known(req[r].token)'
  BY <1>2, CarriedIsToken DEF TokensOK, Known
<1>5. QED
  BY <1>3, <1>4 DEF TokensOK, Carried

\* A token is issued, in the answer g to f.
LEMMA TokensServed ==
  ASSUME TokenTypes, TokensOK, UNCHANGED <<store, req>>, NEW f \in flight,
         issued[f.login] < MaxGen, issued' = [issued EXCEPT ![f.login] = @ + 1],
         NEW g, g.answer = "token", g.login = f.login, g.gen = issued[f.login] + 1,
         flight' = (flight \ {f}) \cup {g}
  PROVE  TokensOK'
<1> DEFINE n == issued[f.login]
<1>1. f.login \in Logins /\ n \in 0..MaxGen /\ MaxGen \in Nat
  BY MaxAssumption DEF TokenTypes, Flights
<1>2. g.gen \in 1..MaxGen
  BY <1>1
<1>3. ASSUME NEW l \in Logins
      PROVE  issued[l] \in Nat /\ issued'[l] \in Nat /\ issued[l] <= issued'[l]
  BY <1>1, <1>3 DEF TokenTypes
<1>4. ASSUME NEW token \in Tokens \cup {None}, Known(token) PROVE Known(token)'
  BY <1>3, <1>4 DEF Known, Tokens
<1>5. ASSUME NEW token \in Tokens \cup {None}, Known(token) PROVE token # Carried(g)
  <2>1. Carried(g) \in Tokens
    BY <1>1, <1>2 DEF Carried, Tokens
  <2>2. ~Known(Carried(g))
    BY <1>1, <2>1, NoneAssumption DEF Known, Carried, Tokens
  <2>3. QED
    BY <1>5, <2>2
<1>6. Known(Carried(g))'
  <2>1. issued'[f.login] = n + 1
    BY <1>1 DEF TokenTypes
  <2>2. QED
    BY <1>1, <2>1 DEF Known, Carried
<1>7. Arriving' \subseteq Arriving \cup {g}
  BY DEF Arriving
<1>8. \A h \in Arriving : Carried(h) \in Tokens /\ Known(Carried(h))
  BY CarriedIsToken
<1>9. ASSUME NEW h \in Arriving'
      PROVE  /\ h.gen \in 1..MaxGen /\ Known(Carried(h))'
             /\ store'.access # Carried(h)
             /\ \A r \in Reqs : req'[r].token # Carried(h)
             /\ \A k \in Arriving' : Carried(k) = Carried(h) => k = h
  <2>1. CASE h = g
    BY <1>2, <1>5, <1>6, <1>7, <1>8, <2>1 DEF TokensOK, TokenTypes
  <2>2. CASE h # g
    <3>1. h \in Arriving
      BY <1>7, <2>2
    <3>2. \A k \in Arriving' : Carried(k) = Carried(h) => k = h
      BY <1>5, <1>7, <1>8, <3>1 DEF TokensOK
    <3>3. QED
      BY <1>4, <1>8, <3>1, <3>2 DEF TokensOK
  <2>3. QED
    BY <2>1, <2>2
<1>10. Known(store.access)' /\ \A r \in Reqs : Known(req[r].token)'
  BY <1>4 DEF TokensOK, TokenTypes, Known
<1>11. QED
  BY <1>9, <1>10 DEF TokensOK, Carried

\* The first token of a login, which comes with it.
LEMMA TokensOfLogin ==
  ASSUME TokenTypes, TokensOK, UNCHANGED <<flight, req>>, NEW l \in Logins,
         issued[l] = 0, issued' = [issued EXCEPT ![l] = 1],
         store'.access = [login |-> l, gen |-> 1]
  PROVE  TokensOK'
<1> DEFINE new == [login |-> l, gen |-> 1]
<1>1. ASSUME NEW k \in Logins
      PROVE  issued[k] \in Nat /\ issued'[k] \in Nat /\ issued[k] <= issued'[k]
  BY <1>1, MaxAssumption DEF TokenTypes
<1>2. ASSUME NEW token \in Tokens \cup {None}, Known(token) PROVE Known(token)'
  BY <1>1, <1>2, MaxAssumption DEF Known, Tokens
<1>3. Known(new)'
  BY DEF Known, TokenTypes
<1>4. Arriving' = Arriving
  BY DEF Arriving
<1>5. \A f \in Arriving : Carried(f) \in Tokens /\ Carried(f) # None /\ Known(Carried(f))
  BY CarriedIsToken
<1>6. \A f \in Arriving : new # Carried(f)
  BY <1>5, MaxAssumption DEF Known, Tokens
<1>7. ASSUME NEW f \in Arriving'
      PROVE  /\ f.gen \in 1..MaxGen /\ Known(Carried(f))'
             /\ store'.access # Carried(f)
             /\ \A r \in Reqs : req'[r].token # Carried(f)
             /\ \A g \in Arriving' : Carried(g) = Carried(f) => g = f
  BY <1>2, <1>4, <1>5, <1>6, <1>7 DEF TokensOK
<1>8. Known(store.access)' /\ \A r \in Reqs : Known(req[r].token)'
  BY <1>2, <1>3 DEF TokensOK, TokenTypes, Known
<1>9. QED
  BY <1>7, <1>8 DEF TokensOK, Carried

-----------------------------------------------------------------------------
(* The steps                                                                 *)

Stores == [access : Tokens \cup {None}, refresh : Logins \cup {None},
           user : Users \cup {None}, limit : Limited \cup {None}]
TabStates == [user : Users \cup {None}, expiry : BOOLEAN, timer : BOOLEAN,
              limit : Limited \cup {None}, loading : BOOLEAN]
Profiles == [tab : Tabs, user : Users]

\* IInv, by the lemmas there are about its parts.
LEMMA IInvIs ==
  IInv <=> /\ store \in Stores /\ issued \in [Logins -> 0..MaxGen]
           /\ alive \subseteq Bound /\ dead \subseteq Tokens
           /\ tab \in [Tabs -> TabStates] /\ profiles \subseteq Profiles
           /\ MutexTypes /\ MutexOK /\ TokensOfOneLogin /\ TokensOK
BY DEF IInv, TypeOK, MutexTypes, MutexOK, Stores, TabStates, Profiles, Flights, Requests

\* What every step relies on.
LEMMA IInvGives ==
  ASSUME IInv
  PROVE  /\ store \in Stores /\ issued \in [Logins -> 0..MaxGen]
         /\ alive \subseteq Bound /\ dead \subseteq Tokens
         /\ tab \in [Tabs -> TabStates] /\ profiles \subseteq Profiles
         /\ MutexTypes /\ MutexOK /\ TokensOfOneLogin /\ TokensOK /\ TokenTypes
BY IInvIs, TokenTypesAre DEF IInv

\* What is to be shown of one.
LEMMA StepOK ==
  ASSUME store' \in Stores, issued' \in [Logins -> 0..MaxGen],
         alive' \subseteq Bound, dead' \subseteq Tokens,
         tab' \in [Tabs -> TabStates], profiles' \subseteq Profiles,
         MutexTypes', MutexOK', TokensOfOneLogin', TokensOK'
  PROVE  IInv'
BY DEF IInv, TypeOK, MutexTypes, MutexOK, Stores, TabStates, Profiles, Flights, Requests

\* The empty values the client starts and ends with have their types.
LEMMA NothingStored ==
  Empty \in Stores /\ SignedOut \in TabStates /\ Idle \in Requests
  /\ [Idle EXCEPT !.state = "done"] \in Requests
<1>1. Empty \in Stores
  BY DEF Empty, Stores
<1>2. SignedOut \in TabStates
  BY DEF SignedOut, TabStates
<1>3. Idle \in Requests
  BY DEF Idle, Requests
<1>4. [Idle EXCEPT !.state = "done"] \in Requests
  BY <1>3 DEF Requests
<1>5. QED
  BY <1>1, <1>2, <1>3, <1>4

\* Neither the mutex, nor a request or a refresh, nor a token issued: the steps
\* of the server, of logging out, and of the profile.
LEMMA AsideOK ==
  ASSUME IInv, UNCHANGED <<issued, refreshing, waiters, flight, req>>,
         store' \in Stores, store'.access \in {store.access, None}, TokensOfOneLogin',
         alive' \subseteq Bound, dead' \subseteq Tokens,
         tab' \in [Tabs -> TabStates], profiles' \subseteq Profiles
  PROVE  IInv'
<1>1. MutexTypes' /\ MutexOK'
  BY IInvGives, MutexKept DEF MutexTypes
<1>2. Arriving' \subseteq Arriving
  BY DEF Arriving
<1>3. TokensOK'
  BY <1>2, IInvGives, TokensKept
<1>4. QED
  BY <1>1, <1>3, IInvGives, StepOK

\* A token runs out at the server.
LEMMA ExpireOK ==
  ASSUME IInv, NEW token \in Tokens, Expire(token)
  PROVE  IInv'
<1>1. /\ UNCHANGED <<store, issued, alive, tab, refreshing, waiters, flight, profiles, req>>
      /\ dead' = dead \cup {token}
  BY DEF Expire, mutex
<1>2. TokensOfOneLogin'
  BY <1>1, IInvGives DEF TokensOfOneLogin
<1>3. QED
  BY <1>1, <1>2, IInvGives, AsideOK

\* A session ends at the server.
LEMMA EndSessionOK ==
  ASSUME IInv, NEW l \in Logins, EndSession(l)
  PROVE  IInv'
<1>1. /\ UNCHANGED <<store, issued, dead, tab, refreshing, waiters, flight, profiles, req>>
      /\ alive' = alive \ {l}
  BY DEF EndSession, mutex
<1>2. TokensOfOneLogin'
  BY <1>1, IInvGives DEF TokensOfOneLogin
<1>3. QED
  BY <1>1, <1>2, IInvGives, AsideOK

\* logout(), and what it leaves
LEMMA LogOutOK ==
  ASSUME IInv, NEW t \in Tabs, LogOut(t)
  PROVE  /\ store' \in Stores /\ store'.access = None /\ TokensOfOneLogin'
         /\ alive' \subseteq Bound /\ dead' \subseteq Tokens /\ tab' \in [Tabs -> TabStates]
<1>1. store' = Empty /\ tab' = [tab EXCEPT ![t] = SignedOut]
  BY DEF LogOut
<1>2. store' \in Stores /\ store'.access = None /\ TokensOfOneLogin'
  BY <1>1, NothingStored DEF TokensOfOneLogin, Empty
<1>3. tab' \in [Tabs -> TabStates]
  BY <1>1, IInvGives, NothingStored
<1>4. alive' \subseteq Bound /\ dead' \subseteq Tokens
  BY IInvGives DEF LogOut, Accepted, TokenTypes
<1>5. QED
  BY <1>2, <1>3, <1>4

\* The user logs out, or the tab does so for him.
LEMMA LeavesOK ==
  ASSUME IInv, NEW t \in Tabs, UserLogsOut(t) \/ AutoLogout(t)
  PROVE  IInv'
<1>1. LogOut(t) /\ UNCHANGED <<issued, refreshing, waiters, flight, profiles, req>>
  BY DEF UserLogsOut, AutoLogout, mutex
<1>2. QED
  BY <1>1, IInvGives, LogOutOK, AsideOK

\* The profile is asked for, and comes.
LEMMA ProfileOK ==
  ASSUME IInv, \/ \E t \in Tabs : AskProfile(t)
               \/ \E p \in profiles : FinishProfile(p)
  PROVE  IInv'
<1>1. ASSUME NEW t \in Tabs, AskProfile(t) PROVE IInv'
  <2>1. /\ UNCHANGED <<store, issued, alive, dead, tab, refreshing, waiters, flight, req>>
        /\ profiles' = profiles \cup {[tab |-> t, user |-> Owner[store.access.login]]}
        /\ store.access # None
    BY <1>1 DEF AskProfile, server, mutex, Accepted
  <2>2. Owner[store.access.login] \in Users
    BY <2>1, IInvGives, OwnerAssumption DEF TokenTypes, Tokens
  <2>3. profiles' \subseteq Profiles
    BY <2>1, <2>2, IInvGives DEF Profiles
  <2>4. TokensOfOneLogin'
    BY <2>1, IInvGives DEF TokensOfOneLogin
  <2>5. QED
    BY <2>1, <2>3, <2>4, IInvGives, AsideOK
<1>2. ASSUME NEW p \in profiles, FinishProfile(p) PROVE IInv'
  <2>1. /\ UNCHANGED <<issued, alive, dead, refreshing, waiters, flight, req>>
        /\ profiles' = profiles \ {p} /\ store' = [store EXCEPT !.user = p.user]
    BY <1>2 DEF FinishProfile, server, mutex
  <2>2. p.tab \in Tabs /\ p.user \in Users
    BY IInvGives DEF Profiles
  <2>3. /\ store' \in Stores /\ store'.access = store.access
        /\ store'.refresh = store.refresh
    BY <2>1, <2>2, IInvGives DEF Stores
  <2>4. TokensOfOneLogin'
    BY <2>3, IInvGives DEF TokensOfOneLogin
  <2>5. tab' \in [Tabs -> TabStates]
    <3> DEFINE after == [tab[p.tab] EXCEPT !.user = p.user, !.timer = tab[p.tab].expiry]
    <3>1. tab' = [tab EXCEPT ![p.tab] = after]
      BY <1>2, <2>2, IInvGives DEF FinishProfile
    <3>2. tab[p.tab] \in TabStates
      BY <2>2, IInvGives
    <3>3. after \in TabStates
      BY <2>2, <3>2 DEF TabStates
    <3> HIDE DEF after
    <3>4. QED
      BY <3>1, <3>3, IInvGives
  <2>6. QED
    BY <2>1, <2>3, <2>4, <2>5, IInvGives, AsideOK
<1>3. QED
  BY <1>1, <1>2

\* The server answers a refresh, or something on the way to it does.
LEMMA AnswerOK ==
  ASSUME IInv, NEW f \in flight, ServeRefresh(f) \/ FailRefresh(f)
  PROVE  IInv'
<1> DEFINE refused == [f EXCEPT !.answer = "refused"]
           given == [f EXCEPT !.answer = "token", !.gen = issued[f.login] + 1]
<1>1. UNCHANGED <<store, alive, dead, tab, refreshing, waiters, profiles, req>>
  BY DEF ServeRefresh, FailRefresh, mutex, server
<1>2. f \in Flights
  BY IInvGives DEF MutexTypes
<1>3. TokensOfOneLogin'
  BY <1>1, IInvGives DEF TokensOfOneLogin
<1>4. CASE flight' = (flight \ {f}) \cup {refused} /\ UNCHANGED issued
  <2>1. /\ refused \in Flights /\ refused.answer = "refused"
        /\ refused.tab = f.tab /\ refused.by = f.by
    BY <1>2 DEF Flights
  <2> HIDE DEF refused
  <2>2. MutexOK'
    BY <1>1, <1>4, <2>1, IInvGives, MutexAnswered
  <2>3. Arriving' \subseteq Arriving
    BY <1>4, <2>1 DEF Arriving
  <2>4. TokensOK'
    BY <1>1, <1>4, <2>3, IInvGives, TokensKept
  <2>5. MutexTypes'
    BY <1>1, <1>4, <2>1, IInvGives DEF MutexTypes
  <2>6. QED
    BY <1>1, <1>3, <1>4, <2>2, <2>4, <2>5, IInvGives, StepOK
<1>5. CASE /\ flight' = (flight \ {f}) \cup {given} /\ issued[f.login] < MaxGen
           /\ issued' = [issued EXCEPT ![f.login] = @ + 1]
  <2>1. f.login \in Logins /\ issued[f.login] + 1 \in 0..MaxGen
    BY <1>2, <1>5, IInvGives, MaxAssumption DEF Flights
  <2>2. /\ given \in Flights /\ given.answer = "token" /\ given.login = f.login
        /\ given.gen = issued[f.login] + 1 /\ given.tab = f.tab /\ given.by = f.by
    BY <1>2, <2>1 DEF Flights
  <2> HIDE DEF given
  <2>3. MutexOK'
    BY <1>1, <1>5, <2>2, IInvGives, MutexAnswered
  <2>4. TokensOK'
    BY <1>1, <1>5, <2>2, IInvGives, TokensServed
  <2>5. MutexTypes'
    BY <1>1, <1>5, <2>2, IInvGives DEF MutexTypes
  <2>6. issued' \in [Logins -> 0..MaxGen]
    BY <1>5, <2>1, IInvGives
  <2>7. QED
    BY <1>1, <1>3, <2>3, <2>4, <2>5, <2>6, IInvGives, StepOK
<1>6. QED
  <2>1. ASSUME FailRefresh(f) PROVE IInv'
    BY <1>4, <2>1 DEF FailRefresh, server
  <2>2. ASSUME ServeRefresh(f), SessionValid(f.login) PROVE IInv'
    BY <1>5, <2>2 DEF ServeRefresh
  <2>3. ASSUME ServeRefresh(f), ~SessionValid(f.login) PROVE IInv'
    BY <1>4, <2>3 DEF ServeRefresh
  <2>4. QED
    BY <2>1, <2>2, <2>3

\* login
LEMMA LoginOK ==
  ASSUME IInv, NEW t \in Tabs, NEW l \in Logins, Login(t, l)
  PROVE  IInv'
<1> DEFINE limit == IF l \in Limited THEN l ELSE None
           stored == [access |-> [login |-> l, gen |-> 1], refresh |-> l, user |-> Owner[l],
                      limit |-> IF limit = None THEN store.limit ELSE limit]
           shown == [Shown(t, Owner[l]) EXCEPT !.limit = IF limit = None THEN @ ELSE limit]
<1>1. /\ issued[l] = 0 /\ issued' = [issued EXCEPT ![l] = 1]
      /\ alive' = alive \cup ({l} \cap Bound)
      /\ store' = stored /\ tab' = [tab EXCEPT ![t] = shown]
      /\ UNCHANGED <<dead, refreshing, waiters, flight, profiles, req>>
  BY DEF Login, mutex
<1>2. limit \in Limited \cup {None} /\ Owner[l] \in Users /\ store.limit \in Limited \cup {None}
  BY OwnerAssumption, IInvGives DEF Stores
<1>3. [login |-> l, gen |-> 1] \in Tokens
  BY MaxAssumption DEF Tokens
<1>4. [login |-> l, gen |-> 1] # None
  BY <1>3, NoneAssumption
<1>5. stored \in Stores
  BY <1>2, <1>3 DEF Stores
<1>6. shown \in TabStates
  <2>1. tab[t] \in TabStates
    BY IInvGives
  <2>2. Shown(t, Owner[l]) \in TabStates
    BY <1>2, <2>1 DEF Shown, TabStates
  <2>3. QED
    BY <1>2, <2>2 DEF TabStates
<1>7. TokensOfOneLogin'
  BY <1>1, <1>4 DEF TokensOfOneLogin
<1>8. TokensOK'
  BY <1>1, IInvGives, TokensOfLogin
<1>9. MutexOK' /\ MutexTypes'
  BY <1>1, IInvGives, MutexKept DEF MutexTypes
<1>10. issued' \in [Logins -> 0..MaxGen] /\ alive' \subseteq Bound
  BY <1>1, IInvGives, MaxAssumption
<1> HIDE DEF stored, shown
<1>11. QED
  BY <1>1, <1>5, <1>6, <1>7, <1>8, <1>9, <1>10, IInvGives, StepOK

\* A refresh that leaves the tab, of its timer, its socket or its start.
LEMMA RefreshIs ==
  ASSUME IInv, NEW t \in Tabs, store.refresh # None,
         NEW by \in Reqs \cup {"timer", "boot", "socket"}
  PROVE  /\ Refresh(t, by) \in Flights /\ Refresh(t, by).answer = "none"
         /\ Refresh(t, by).by = by /\ Refresh(t, by).tab = t
<1>1. store.refresh \in Logins
  BY IInvGives DEF Stores
<1>2. QED
  BY <1>1, MaxAssumption DEF Refresh, Flights

\* The refreshes the timer and the socket begin, outside the mutex.
LEMMA OwnRefreshOK ==
  ASSUME IInv, NEW t \in Tabs, TimerFires(t) \/ Connect(t)
  PROVE  IInv'
<1>1. UNCHANGED <<store, issued, alive, dead, refreshing, waiters, profiles, req>>
  BY DEF TimerFires, Connect, server, mutex
<1>2. \/ flight' = flight
      \/ /\ store.refresh # None
         /\ flight' = flight \cup {Refresh(t, "timer")}
      \/ /\ store.refresh # None
         /\ flight' = flight \cup {Refresh(t, "socket")}
  BY DEF TimerFires, Connect
<1>3. tab' \in [Tabs -> TabStates]
  <2>1. CASE UNCHANGED tab
    BY <2>1, IInvGives
  <2>2. CASE tab' = [tab EXCEPT ![t].timer = FALSE]
    <3>1. [tab[t] EXCEPT !.timer = FALSE] \in TabStates
      BY IInvGives DEF TabStates
    <3>2. tab' = [tab EXCEPT ![t] = [tab[t] EXCEPT !.timer = FALSE]]
      BY <2>2, IInvGives
    <3>3. QED
      BY <3>1, <3>2, IInvGives
  <2>3. QED
    BY <2>1, <2>2 DEF TimerFires, Connect
<1>4. ASSUME NEW by \in {"timer", "socket"}, store.refresh # None
      PROVE  /\ Refresh(t, by) \in Flights /\ Refresh(t, by).answer = "none"
             /\ Refresh(t, by).by \notin Reqs
  BY <1>4, RefreshIs, NamesAssumption
<1>5. /\ flight' \subseteq Flights /\ Arriving' \subseteq Arriving
      /\ \A f : f.by \in Reqs => (f \in flight' <=> f \in flight)
  BY <1>2, <1>4, IInvGives DEF MutexTypes, Arriving
<1>6. MutexOK' /\ MutexTypes'
  BY <1>1, <1>5, IInvGives, MutexKept DEF MutexTypes
<1>7. TokensOK'
  BY <1>1, <1>5, IInvGives, TokensKept
<1>8. TokensOfOneLogin'
  BY <1>1, IInvGives DEF TokensOfOneLogin
<1>9. QED
  BY <1>1, <1>3, <1>6, <1>7, <1>8, IInvGives, StepOK

\* Settling a set of requests ends those, and leaves the others.
LEMMA SettledIs ==
  ASSUME NEW rs, req' = Settled(rs), NEW r \in Reqs
  PROVE  IF r \in rs
         THEN /\ req'[r] = [Idle EXCEPT !.state = "done"] /\ req'[r].state = "done"
              /\ ~req'[r].refused /\ req'[r].token = None /\ req'[r] \in Requests
         ELSE req'[r] = req[r]
BY NothingStored DEF Settled, Idle

\* The page is loaded anew, and what it waited for is gone.
LEMMA ReloadOK ==
  ASSUME IInv, NEW t \in Tabs, Reload(t)
  PROVE  IInv'
<1>1. PICK late \in BOOLEAN :
        LET signedIn == store.user # None /\ store.access # None
            fresh == [SignedOut EXCEPT !.limit = store.limit]
            boot == signedIn /\ (late \/ store.access \in dead) IN
        /\ tab' = [tab EXCEPT ![t] =
             IF boot THEN [fresh EXCEPT !.loading = TRUE]
             ELSE IF signedIn
             THEN [fresh EXCEPT !.user = store.user, !.expiry = TRUE, !.timer = TRUE]
             ELSE fresh]
        /\ flight' = {f \in flight : f.tab # t}
                     \cup (IF boot THEN {Refresh(t, "boot")} ELSE {})
  BY DEF Reload
<1> DEFINE signedIn == store.user # None /\ store.access # None
           fresh == [SignedOut EXCEPT !.limit = store.limit]
           boot == signedIn /\ (late \/ store.access \in dead)
           over == {r \in Reqs : req[r].tab = t}
<1>2. /\ refreshing' = [refreshing EXCEPT ![t] = FALSE]
      /\ waiters' = [waiters EXCEPT ![t] = <<>>]
      /\ profiles' = {p \in profiles : p.tab # t}
      /\ req' = Settled(over)
      /\ UNCHANGED <<store, issued, alive, dead>>
  BY DEF Reload, server
<1>3. tab' \in [Tabs -> TabStates]
  <2>1. /\ store.limit \in Limited \cup {None} /\ store.user \in Users \cup {None}
        /\ SignedOut \in TabStates
    BY IInvGives, NothingStored DEF Stores
  <2>2. fresh \in TabStates
    BY <2>1 DEF TabStates
  <2> HIDE DEF fresh
  <2>3. /\ [fresh EXCEPT !.loading = TRUE] \in TabStates
        /\ [fresh EXCEPT !.user = store.user, !.expiry = TRUE, !.timer = TRUE] \in TabStates
    BY <2>1, <2>2 DEF TabStates
  <2>4. PICK shown \in TabStates : tab' = [tab EXCEPT ![t] = shown]
    BY <1>1, <2>2, <2>3 DEF fresh
  <2>5. QED
    BY <2>4, IInvGives
<1>4. boot => /\ Refresh(t, "boot") \in Flights /\ Refresh(t, "boot").answer = "none"
              /\ Refresh(t, "boot").by \notin Reqs
  <2>1. boot => store.refresh # None
    BY IInvGives, NoneAssumption DEF TokensOfOneLogin, Stores, Tokens
  <2>2. QED
    BY <2>1, RefreshIs, NamesAssumption
<1>5. /\ flight' \subseteq Flights /\ Arriving' \subseteq Arriving
      /\ \A f \in flight' : f.by \in Reqs => f \in flight
      /\ \A f \in flight : f.tab = t /\ f.by \in Reqs => f \notin flight'
      /\ \A f \in flight : f.tab # t /\ f.by \in Reqs => f \in flight'
  BY <1>1, <1>4, IInvGives DEF MutexTypes, Arriving
<1>6. \A r \in Reqs :
        IF req[r].tab = t
        THEN /\ req'[r].state = "done" /\ ~req'[r].refused /\ req'[r].token = None
             /\ req'[r] \in Requests
        ELSE req'[r] = req[r]
  BY <1>2, SettledIs
<1>7. RequestsOK'
  BY <1>6, IInvGives DEF MutexOK, RequestsOK
<1>8. MutexOK'
  BY <1>2, <1>5, <1>6, <1>7, IInvGives, MutexReleased
<1>9. MutexTypes'
  <2>1. req' \in [Reqs -> Requests]
    BY <1>2, <1>6, IInvGives DEF MutexTypes, Settled
  <2>2. refreshing' \in [Tabs -> BOOLEAN] /\ waiters' \in [Tabs -> Seq(Reqs)]
    BY <1>2, IInvGives DEF MutexTypes
  <2>3. QED
    BY <1>5, <2>1, <2>2 DEF MutexTypes
<1>10. TokensOK'
  BY <1>2, <1>5, <1>6, IInvGives, TokensKept
<1>11. TokensOfOneLogin'
  BY <1>2, IInvGives DEF TokensOfOneLogin
<1>12. profiles' \subseteq Profiles
  BY <1>2, IInvGives
<1>13. QED
  BY <1>2, <1>3, <1>8, <1>9, <1>10, <1>11, <1>12, IInvGives, StepOK

\* A request goes out, and its answer comes.
LEMMA RequestOK ==
  ASSUME IInv, NEW r \in Reqs, (\E t \in Tabs : SendRequest(t, r)) \/ ServeRequest(r)
  PROVE  IInv'
<1>1. UNCHANGED <<store, issued, alive, dead, tab, refreshing, waiters, flight, profiles>>
  BY DEF SendRequest, ServeRequest, server, mutex
<1>2. /\ req[r].state \notin {"waiting", "refreshing"}
      /\ req'[r].state \notin {"waiting", "refreshing"}
      /\ req'[r] \in Requests /\ req'[r].token \in {req[r].token, None, store.access}
      /\ req'[r].state \notin {"idle", "done"} => req'[r].tab \in Tabs
      /\ req'[r].refused => req'[r].sends = 1
      /\ req' = [req EXCEPT ![r] = req'[r]]
  <2>1. req[r] \in Requests /\ req \in [Reqs -> Requests]
    BY IInvGives DEF MutexTypes
  <2>2. ASSUME NEW t \in Tabs, SendRequest(t, r)
        PROVE  /\ req[r].state \notin {"waiting", "refreshing"}
               /\ req'[r].state \notin {"waiting", "refreshing"}
               /\ req'[r] \in Requests /\ req'[r].token \in {req[r].token, None, store.access}
               /\ req'[r].state \notin {"idle", "done"} => req'[r].tab \in Tabs
               /\ req'[r].refused => req'[r].sends = 1
               /\ req' = [req EXCEPT ![r] = req'[r]]
    <3> DEFINE new == [tab |-> t, state |-> "sent", sends |-> 1, token |-> store.access,
                       refused |-> FALSE]
    <3>1. new \in Requests
      BY IInvGives DEF Requests, TokenTypes
    <3>2. req' = [req EXCEPT ![r] = new] /\ req[r].state = "idle"
      BY <2>2 DEF SendRequest, Idle
    <3>3. req'[r] = new
      BY <2>1, <3>2
    <3>4. /\ new.state = "sent" /\ new.token = store.access /\ new.tab = t
          /\ ~new.refused
      OBVIOUS
    <3> HIDE DEF new
    <3>5. QED
      BY <3>1, <3>2, <3>3, <3>4
  <2>3. CASE req[r].state = "sent" /\ req' = Settled({r})
    <3>1. /\ req'[r].state = "done" /\ ~req'[r].refused /\ req'[r].token = None
          /\ req'[r] \in Requests
      BY <2>3, SettledIs
    <3>2. req' = [req EXCEPT ![r] = req'[r]]
      BY <2>1, <2>3 DEF Settled
    <3>3. QED
      BY <2>3, <3>1, <3>2
  <2>4. CASE /\ req[r].state = "sent" /\ req[r].sends = 1
             /\ req' = [req EXCEPT ![r].refused = TRUE]
    <3> DEFINE new == [req[r] EXCEPT !.refused = TRUE]
    <3>1. req' = [req EXCEPT ![r] = new] /\ req'[r] = new
      BY <2>1, <2>4
    <3>2. /\ new \in Requests /\ new.state = "sent" /\ new.sends = 1
          /\ new.token = req[r].token /\ new.tab = req[r].tab
      BY <2>1, <2>4 DEF Requests
    <3>3. req[r].tab \in Tabs
      BY <2>4, IInvGives DEF MutexOK, RequestsOK
    <3> HIDE DEF new
    <3>4. QED
      BY <2>4, <3>1, <3>2, <3>3
  <2>5. QED
    BY <2>2, <2>3, <2>4 DEF ServeRequest
<1>3. req' \in [Reqs -> Requests] /\ \A q \in Reqs : q # r => req'[q] = req[q]
  <2>1. req \in [Reqs -> Requests]
    BY IInvGives DEF MutexTypes
  <2>2. PICK new \in Requests : req' = [req EXCEPT ![r] = new]
    BY <1>2
  <2>3. QED
    BY <2>1, <2>2
<1>4. RequestsOK'
  BY <1>2, <1>3, IInvGives DEF MutexOK, RequestsOK
<1>5. MutexOK'
  BY <1>1, <1>2, <1>3, <1>4, IInvGives, MutexOfOthers
<1>6. Arriving' \subseteq Arriving
  BY <1>1 DEF Arriving
<1>7. TokensOK'
  BY <1>1, <1>2, <1>3, <1>6, IInvGives, TokensKept
<1>8. MutexTypes' /\ TokensOfOneLogin'
  BY <1>1, <1>3, IInvGives DEF MutexTypes, TokensOfOneLogin
<1>9. QED
  BY <1>1, <1>5, <1>7, <1>8, IInvGives, StepOK

\* A request with an answer 401 waits for the refresh under way.
LEMMA SubscribeOK ==
  ASSUME IInv, NEW r \in Reqs, Subscribe(r)
  PROVE  IInv'
<1> DEFINE full == Len(waiters[req[r].tab]) >= MaxSubscribers
<1>1. UNCHANGED <<store, issued, alive, dead, tab, refreshing, flight, profiles>>
  BY DEF Subscribe, server
<1>2. MutexOK' /\ waiters' \in [Tabs -> Seq(Reqs)]
  BY IInvGives, MutexSubscribed
<1>3. req' = [q \in Reqs |->
        IF q = r THEN [req[r] EXCEPT !.state = "waiting"]
        ELSE IF full /\ q = Head(waiters[req[r].tab]) THEN [Idle EXCEPT !.state = "done"]
        ELSE req[q]]
  BY DEF Subscribe
<1>4. /\ [req[r] EXCEPT !.state = "waiting"] \in Requests
      /\ [req[r] EXCEPT !.state = "waiting"].token = req[r].token
  BY IInvGives DEF MutexTypes, Requests
<1>5. [Idle EXCEPT !.state = "done"] \in Requests /\ [Idle EXCEPT !.state = "done"].token = None
  BY NothingStored DEF Idle
<1>6. \A q \in Reqs : req'[q] \in Requests /\ req'[q].token \in {req[q].token, None}
  BY <1>3, <1>4, <1>5, IInvGives DEF MutexTypes
<1>7. req' \in [Reqs -> Requests]
  BY <1>3, <1>6
<1>8. MutexTypes'
  BY <1>1, <1>2, <1>7, IInvGives DEF MutexTypes
<1>9. Arriving' \subseteq Arriving
  BY <1>1 DEF Arriving
<1>10. TokensOK'
  BY <1>1, <1>6, <1>9, IInvGives, TokensKept
<1>11. TokensOfOneLogin'
  BY <1>1, IInvGives DEF TokensOfOneLogin
<1>12. QED
  BY <1>1, <1>2, <1>8, <1>10, <1>11, IInvGives, StepOK

\* A request with an answer 401 starts the refresh.
LEMMA StartRefreshOK ==
  ASSUME IInv, NEW r \in Reqs, StartRefresh(r)
  PROVE  IInv'
<1> DEFINE t == req[r].tab
           new == [req[r] EXCEPT !.state = "refreshing"]
<1>1. /\ req[r].state = "sent" /\ store.refresh # None
      /\ refreshing' = [refreshing EXCEPT ![t] = TRUE]
      /\ flight' = flight \cup {Refresh(t, r)}
      /\ req' = [req EXCEPT ![r].state = "refreshing"]
      /\ UNCHANGED <<store, issued, alive, dead, tab, waiters, profiles>>
  BY DEF StartRefresh, Unauthorized, server
<1>2. t \in Tabs
  BY <1>1, IInvGives DEF MutexOK, RequestsOK
<1>3. Refresh(t, r) \in Flights /\ Refresh(t, r).answer = "none"
  BY <1>1, <1>2, RefreshIs
<1>4. new \in Requests /\ new.token = req[r].token
  BY IInvGives DEF MutexTypes, Requests
<1>5. req' = [req EXCEPT ![r] = new]
  BY <1>1, IInvGives DEF MutexTypes
<1> HIDE DEF new
<1>6. req' \in [Reqs -> Requests] /\ \A q \in Reqs : req'[q].token = req[q].token
  BY <1>4, <1>5, IInvGives DEF MutexTypes
<1>7. MutexTypes'
  BY <1>1, <1>2, <1>3, <1>6, IInvGives DEF MutexTypes
<1>8. Arriving' \subseteq Arriving
  BY <1>1, <1>3 DEF Arriving
<1>9. MutexOK'
  BY IInvGives, MutexStarted
<1>10. TokensOK'
  BY <1>1, <1>6, <1>8, IInvGives, TokensKept
<1>11. TokensOfOneLogin'
  BY <1>1, IInvGives DEF TokensOfOneLogin
<1>12. QED
  BY <1>1, <1>7, <1>9, <1>10, <1>11, IInvGives, StepOK

\* forceLogout()
LEMMA ForcedOK ==
  ASSUME IInv, NEW t \in Tabs, ForceLogout(t)
  PROVE  /\ store' \in Stores /\ store'.access = None /\ TokensOfOneLogin'
         /\ tab' \in [Tabs -> TabStates]
<1>1. store' = Empty /\ tab' = [tab EXCEPT ![t] = SignedOut]
  BY DEF ForceLogout
<1>2. QED
  BY <1>1, NothingStored, IInvGives DEF TokensOfOneLogin, Empty

\* A request with an answer 401 finds no refresh token.
LEMMA NothingToRefreshOK ==
  ASSUME IInv, NEW r \in Reqs, NothingToRefresh(r)
  PROVE  IInv'
<1> DEFINE t == req[r].tab
<1>1. /\ req[r].state = "sent" /\ ForceLogout(t) /\ req' = Settled({r})
      /\ UNCHANGED <<issued, alive, dead, refreshing, waiters, flight, profiles>>
  BY DEF NothingToRefresh, Unauthorized, server, mutex
<1>2. t \in Tabs
  BY <1>1, IInvGives DEF MutexOK, RequestsOK
<1>3. /\ store' \in Stores /\ store'.access = None /\ TokensOfOneLogin'
      /\ tab' \in [Tabs -> TabStates]
  BY <1>1, <1>2, ForcedOK
<1>4. \A q \in Reqs :
        IF q = r THEN /\ req'[q].state = "done" /\ ~req'[q].refused /\ req'[q].token = None
                      /\ req'[q] \in Requests
        ELSE req'[q] = req[q]
  BY <1>1, SettledIs
<1>5. req' \in [Reqs -> Requests]
  BY <1>1, <1>4, IInvGives DEF MutexTypes, Settled
<1>6. RequestsOK'
  BY <1>4, IInvGives DEF MutexOK, RequestsOK
<1>7. MutexOK' /\ MutexTypes'
  BY <1>1, <1>4, <1>5, <1>6, IInvGives, MutexOfOthers DEF MutexTypes
<1>8. Arriving' \subseteq Arriving
  BY <1>1 DEF Arriving
<1>9. TokensOK'
  BY <1>1, <1>3, <1>4, <1>8, IInvGives, TokensKept
<1>10. QED
  BY <1>1, <1>3, <1>7, <1>9, IInvGives, StepOK

\* localStorage after a refresh
LEMMA RefreshedIs ==
  ASSUME IInv, NEW f \in Arriving, store' = Refreshed(f)
  PROVE  store' \in Stores /\ store'.access = Carried(f) /\ TokensOfOneLogin'
<1>1. f \in Flights /\ Carried(f) \in Tokens /\ Carried(f) # None
  BY IInvGives, CarriedIsToken DEF Arriving, MutexTypes
<1>2. f.login \in Logins /\ Owner[f.login] \in Users
  BY <1>1, OwnerAssumption DEF Flights
<1>3. store \in Stores
  BY IInvGives
<1>4. /\ store' \in Stores /\ store'.access = Carried(f) /\ store'.refresh = f.login
  BY <1>1, <1>2, <1>3 DEF Refreshed, Stores, Carried
<1>5. Carried(f).login = f.login
  BY DEF Carried
<1>6. QED
  BY <1>1, <1>4, <1>5 DEF TokensOfOneLogin

\* The refresh of the mutex comes to its end.
LEMMA FinishApiOK ==
  ASSUME IInv, NEW f \in flight, FinishApiRefresh(f)
  PROVE  IInv'
<1> DEFINE t == f.tab
<1>1. /\ f.answer # "none" /\ flight' = flight \ {f}
      /\ refreshing' = [refreshing EXCEPT ![t] = FALSE]
      /\ waiters' = [waiters EXCEPT ![t] = <<>>]
      /\ UNCHANGED <<issued, alive, dead, profiles>>
      /\ \/ f.answer = "token" /\ store' = Refreshed(f) /\ UNCHANGED tab
         \/ f.answer # "token" /\ ForceLogout(t)
      /\ \E rs : req' = Settled(rs) \/ req' = Resent(rs, Carried(f))
  BY DEF FinishApiRefresh, OnRefreshComplete, server, Carried
<1>2. f \in Flights /\ t \in Tabs
  BY IInvGives DEF MutexTypes, Flights
<1>3. /\ MutexOK'
      /\ \A r \in Reqs :
           \/ req'[r] = req[r]
           \/ req'[r] = [Idle EXCEPT !.state = "done"]
           \/ /\ f.answer = "token" /\ req[r].sends = 1
              /\ req'[r] = [req[r] EXCEPT !.state = "sent", !.token = Carried(f),
                                          !.sends = @ + 1, !.refused = FALSE]
  BY IInvGives, MutexFinished
<1>4. f.answer = "token" => f \in Arriving /\ Carried(f) \in Tokens
  BY IInvGives, CarriedIsToken DEF Arriving
<1>5. ASSUME NEW r \in Reqs
      PROVE  /\ req'[r] \in Requests
             /\ \/ req'[r].token \in {req[r].token, None}
                \/ f.answer = "token" /\ req'[r].token = Carried(f)
  <2>1. req[r] \in Requests
    BY IInvGives DEF MutexTypes
  <2>2. CASE req'[r] = req[r]
    BY <2>1, <2>2
  <2>3. CASE req'[r] = [Idle EXCEPT !.state = "done"]
    <3>1. [Idle EXCEPT !.state = "done"].token = None
      BY DEF Idle
    <3>2. QED
      BY <2>3, <3>1, NothingStored
  <2>4. CASE /\ f.answer = "token" /\ req[r].sends = 1
             /\ req'[r] = [req[r] EXCEPT !.state = "sent", !.token = Carried(f),
                                         !.sends = @ + 1, !.refused = FALSE]
    <3>1. req[r].sends + 1 \in 0..2
      BY <2>4
    <3>2. Carried(f) \in Tokens \cup {None}
      BY <1>4, <2>4
    <3>3. req'[r] \in Requests
      BY <2>1, <2>4, <3>1, <3>2 DEF Requests
    <3>4. req'[r].token = Carried(f)
      BY <2>1, <2>4 DEF Requests
    <3>5. QED
      BY <2>4, <3>3, <3>4
  <2>5. QED
    BY <1>3, <2>2, <2>3, <2>4
<1>6. req' \in [Reqs -> Requests]
  BY <1>1, <1>5 DEF Settled, Resent
<1>7. MutexTypes'
  <2>1. flight' \subseteq Flights /\ refreshing' \in [Tabs -> BOOLEAN]
    BY <1>1, IInvGives DEF MutexTypes
  <2>2. waiters' \in [Tabs -> Seq(Reqs)]
    <3>1. waiters \in [Tabs -> Seq(Reqs)]
      BY IInvGives DEF MutexTypes
    <3>2. <<>> \in Seq(Reqs)
      OBVIOUS
    <3>3. QED
      BY <1>1, <3>1, <3>2
  <2>3. QED
    BY <1>6, <2>1, <2>2 DEF MutexTypes
<1>8. CASE f.answer = "token"
  <2>1. store' = Refreshed(f) /\ UNCHANGED tab
    BY <1>1, <1>8
  <2>2. store' \in Stores /\ store'.access = Carried(f) /\ TokensOfOneLogin'
    BY <1>4, <1>8, <2>1, RefreshedIs
  <2>3. TokensOK'
    BY <1>1, <1>4, <1>5, <1>8, <2>2, IInvGives, TokensDelivered
  <2>4. QED
    BY <1>1, <1>3, <1>7, <2>1, <2>2, <2>3, IInvGives, StepOK
<1>9. CASE f.answer # "token"
  <2>1. /\ store' \in Stores /\ store'.access = None /\ TokensOfOneLogin'
        /\ tab' \in [Tabs -> TabStates]
    BY <1>1, <1>2, <1>9, ForcedOK
  <2>2. Arriving' \subseteq Arriving
    BY <1>1 DEF Arriving
  <2>3. TokensOK'
    BY <1>1, <1>5, <1>9, <2>1, <2>2, IInvGives, TokensKept
  <2>4. QED
    BY <1>1, <1>3, <1>7, <2>1, <2>3, IInvGives, StepOK
<1>10. QED
  BY <1>8, <1>9

\* The timer, the start of a tab or the socket has its answer.
LEMMA FinishOwnOK ==
  ASSUME IInv, NEW f \in flight, FinishOwnRefresh(f) \/ FinishSocketRefresh(f)
  PROVE  IInv'
<1> DEFINE shown == Shown(f.tab, Owner[f.login])
<1>1. /\ f.by \notin Reqs /\ flight' = flight \ {f}
      /\ UNCHANGED <<issued, refreshing, waiters, profiles, req>>
  BY NamesAssumption DEF FinishOwnRefresh, FinishSocketRefresh, server, mutex
<1>2. f \in Flights /\ f.tab \in Tabs /\ Owner[f.login] \in Users
  BY IInvGives, OwnerAssumption DEF MutexTypes, Flights
<1>3. MutexOK' /\ MutexTypes'
  BY <1>1, IInvGives, MutexKept DEF MutexTypes
<1>4. CASE /\ f.answer = "token" /\ store' = Refreshed(f) /\ UNCHANGED <<alive, dead>>
           /\ UNCHANGED tab \/ tab' = [tab EXCEPT ![f.tab] = shown]
  <2>1. f \in Arriving
    BY <1>4 DEF Arriving
  <2>2. store' \in Stores /\ store'.access = Carried(f) /\ TokensOfOneLogin'
    BY <1>4, <2>1, RefreshedIs
  <2>3. TokensOK'
    BY <1>1, <2>1, <2>2, IInvGives, TokensDelivered
  <2>4. shown \in TabStates
    BY <1>2, IInvGives DEF Shown, TabStates
  <2> HIDE DEF shown
  <2>5. tab' \in [Tabs -> TabStates]
    BY <1>4, <2>4, IInvGives
  <2>6. QED
    BY <1>1, <1>3, <1>4, <2>2, <2>3, <2>5, IInvGives, StepOK
<1>5. ASSUME Arriving' \subseteq Arriving, store' \in Stores,
             store'.access \in {store.access, None}, TokensOfOneLogin',
             tab' \in [Tabs -> TabStates], alive' \subseteq Bound, dead' \subseteq Tokens
      PROVE  IInv'
  <2>1. TokensOK'
    BY <1>1, <1>5, IInvGives, TokensKept
  <2>2. QED
    BY <1>1, <1>3, <1>5, <2>1, IInvGives, StepOK
<1>6. Arriving' \subseteq Arriving
  BY <1>1 DEF Arriving
<1>7. CASE LogOut(f.tab)
  BY <1>2, <1>5, <1>6, <1>7, LogOutOK
<1>8. CASE UNCHANGED <<store, tab, alive, dead>>
  BY <1>5, <1>6, <1>8, IInvGives DEF TokensOfOneLogin
<1>9. QED
  BY <1>4, <1>7, <1>8 DEF FinishOwnRefresh, FinishSocketRefresh, server

-----------------------------------------------------------------------------
(* The invariant                                                             *)

\* The invariant holds at first.
LEMMA InitOK == Init => IInv
<1> SUFFICES ASSUME Init PROVE IInv
  OBVIOUS
<1>1. req \in [Reqs -> Requests] /\ \A r \in Reqs : req[r] = Idle
  BY NothingStored DEF Init
<1>2. \A r \in Reqs : req[r].state = "idle" /\ ~req[r].refused /\ req[r].token = None
  BY <1>1 DEF Idle
<1>3. /\ store \in Stores /\ store.access = None /\ TokensOfOneLogin
  BY NothingStored DEF Init, Empty, TokensOfOneLogin
<1>4. issued \in [Logins -> 0..MaxGen] /\ tab \in [Tabs -> TabStates]
  BY NothingStored, MaxAssumption DEF Init
<1>5. MutexTypes
  BY <1>1 DEF Init, MutexTypes
<1>6. \A t \in Tabs : HeldFor(t)
  BY <1>2, MaxAssumption DEF Init, HeldFor, Once, Elements
<1>7. RefreshMutex /\ RequestsOK /\ HoldersOK
  BY <1>2 DEF Init, RefreshMutex, RequestsOK, HoldersOK
<1>8. TokensOK
  BY <1>2, <1>3 DEF Init, TokensOK, Known, Arriving
<1>9. alive \subseteq Bound /\ dead \subseteq Tokens /\ profiles \subseteq Profiles
  BY DEF Init
<1>10. MutexOK
  BY <1>6, <1>7, WaitersAre DEF MutexOK
<1>11. QED
  BY <1>3, <1>4, <1>5, <1>8, <1>9, <1>10, IInvIs

\* Every step keeps the invariant.
LEMMA NextOK == IInv /\ [Next]_vars => IInv'
<1> SUFFICES ASSUME IInv, [Next]_vars PROVE IInv'
  OBVIOUS
<1>1. CASE UNCHANGED vars
  <2>1. UNCHANGED <<store, issued, alive, dead, tab, refreshing, waiters, flight, profiles, req>>
    BY <1>1 DEF vars, server, mutex
  <2>2. TokensOfOneLogin'
    BY <2>1, IInvGives DEF TokensOfOneLogin
  <2>3. QED
    BY <2>1, <2>2, IInvGives, AsideOK
<1>2. ASSUME NEW token \in Tokens, Expire(token) PROVE IInv'
  BY <1>2, ExpireOK
<1>3. ASSUME NEW l \in Logins, EndSession(l) PROVE IInv'
  BY <1>3, EndSessionOK
<1>4. ASSUME NEW f \in flight, ServeRefresh(f) \/ FailRefresh(f) PROVE IInv'
  BY <1>4, AnswerOK
<1>5. ASSUME NEW f \in flight, FinishApiRefresh(f) PROVE IInv'
  BY <1>5, FinishApiOK
<1>6. ASSUME NEW f \in flight, FinishOwnRefresh(f) \/ FinishSocketRefresh(f) PROVE IInv'
  BY <1>6, FinishOwnOK
<1>7. ASSUME \/ \E p \in profiles : FinishProfile(p)
             \/ \E t \in Tabs : AskProfile(t)
      PROVE  IInv'
  BY <1>7, ProfileOK
<1>8. ASSUME NEW t \in Tabs, UserLogsOut(t) \/ AutoLogout(t) PROVE IInv'
  BY <1>8, LeavesOK
<1>9. ASSUME NEW t \in Tabs, TimerFires(t) \/ Connect(t) PROVE IInv'
  BY <1>9, OwnRefreshOK
<1>10. ASSUME NEW t \in Tabs, Reload(t) PROVE IInv'
  BY <1>10, ReloadOK
<1>11. ASSUME NEW t \in Tabs, NEW l \in Logins, Login(t, l) PROVE IInv'
  BY <1>11, LoginOK
<1>12. ASSUME NEW r \in Reqs, (\E t \in Tabs : SendRequest(t, r)) \/ ServeRequest(r)
       PROVE  IInv'
  BY <1>12, RequestOK
<1>13. ASSUME NEW r \in Reqs, Subscribe(r) PROVE IInv'
  BY <1>13, SubscribeOK
<1>14. ASSUME NEW r \in Reqs, StartRefresh(r) PROVE IInv'
  BY <1>14, StartRefreshOK
<1>15. ASSUME NEW r \in Reqs, NothingToRefresh(r) PROVE IInv'
  BY <1>15, NothingToRefreshOK
<1>16. QED
  BY <1>1, <1>2, <1>3, <1>4, <1>5, <1>6, <1>7, <1>8, <1>9, <1>10, <1>11, <1>12, <1>13,
     <1>14, <1>15 DEF Next

\* The invariant is inductive.
LEMMA Inductive == Spec => []IInv
<1>1. QED
  BY InitOK, NextOK, PTL DEF Spec

\* Every variable keeps its type: no request goes out a third time.
THEOREM TypesHold == Spec => []TypeOK
<1>1. IInv => TypeOK
  BY DEF IInv
<1>2. QED
  BY <1>1, Inductive, PTL

\* isRefreshing is set exactly while a request refreshes, and one does.
THEOREM MutexHolds == Spec => []RefreshMutex
<1>1. IInv => RefreshMutex
  BY DEF IInv
<1>2. QED
  BY <1>1, Inductive, PTL

\* A request waits exactly while a refresh is under way that will call it.
THEOREM WaitersAreHeld == Spec => []WaitersHeld
<1>1. IInv => WaitersHeld
  BY DEF IInv
<1>2. QED
  BY <1>1, Inductive, PTL

\* The tokens in localStorage are of one login, whoever wrote them.
THEOREM TokensBelongTogether == Spec => []TokensOfOneLogin
<1>1. IInv => TokensOfOneLogin
  BY DEF IInv
<1>2. QED
  BY <1>1, Inductive, PTL

-----------------------------------------------------------------------------
(* What a request is sent again with                                         *)

RetryStep ==
  \A r \in Reqs :
    req'[r].sends > req[r].sends /\ req[r].sends > 0 =>
      req[r].sends = 1 /\ req'[r].token # req[r].token

\* A step that repeats a request keeps to what RetryStep allows.
LEMMA RetryOK == IInv /\ [Next]_vars => [RetryStep]_vars
<1> SUFFICES ASSUME IInv, Next, NEW r \in Reqs,
                    req'[r].sends > req[r].sends, req[r].sends > 0
             PROVE  req[r].sends = 1 /\ req'[r].token # req[r].token
  BY DEF RetryStep
<1>1. req \in [Reqs -> Requests] /\ req[r] \in Requests /\ req[r].sends \in 0..2
  BY IInvGives DEF MutexTypes, Requests
<1>2. ASSUME req'[r] = req[r] PROVE FALSE
  BY <1>1, <1>2
<1>3. ASSUME req'[r] = [Idle EXCEPT !.state = "done"] PROVE FALSE
  BY <1>1, <1>3 DEF Idle
<1>4. ASSUME NEW f \in flight, FinishApiRefresh(f)
      PROVE  req[r].sends = 1 /\ req'[r].token # req[r].token
  <2>1. \/ req'[r] = req[r]
        \/ req'[r] = [Idle EXCEPT !.state = "done"]
        \/ /\ f.answer = "token" /\ req[r].sends = 1
           /\ req'[r] = [req[r] EXCEPT !.state = "sent", !.token = Carried(f),
                                       !.sends = @ + 1, !.refused = FALSE]
    BY <1>4, IInvGives, MutexFinished
  <2>2. /\ f.answer = "token" /\ req[r].sends = 1
        /\ req'[r] = [req[r] EXCEPT !.state = "sent", !.token = Carried(f),
                                    !.sends = @ + 1, !.refused = FALSE]
    BY <1>2, <1>3, <2>1
  <2>3. req'[r].token = Carried(f)
    BY <1>1, <2>2 DEF Requests
  <2>4. req[r].token # Carried(f)
    BY <2>2, IInvGives DEF TokensOK, Arriving
  <2>5. QED
    BY <2>2, <2>3, <2>4
<1>5. ASSUME NEW t \in Tabs, Reload(t) PROVE FALSE
  BY <1>2, <1>3, <1>5, SettledIs DEF Reload
<1>6. ASSUME NEW t \in Tabs, NEW q \in Reqs, SendRequest(t, q) PROVE FALSE
  <2>1. req[q].sends = 0 /\ \A p \in Reqs : p # q => req'[p] = req[p]
    BY <1>1, <1>6 DEF SendRequest, Idle
  <2>2. QED
    BY <1>1, <1>2, <2>1
<1>7. ASSUME NEW q \in Reqs, ServeRequest(q) PROVE FALSE
  <2>1. CASE req' = Settled({q})
    BY <1>2, <1>3, <2>1, SettledIs
  <2>2. CASE req' = [req EXCEPT ![q].refused = TRUE]
    BY <1>1, <2>2 DEF Requests
  <2>3. QED
    BY <1>7, <2>1, <2>2 DEF ServeRequest
<1>8. ASSUME NEW q \in Reqs, Subscribe(q) PROVE FALSE
  <2>1. \/ req'[r] = [req[q] EXCEPT !.state = "waiting"] /\ r = q
        \/ req'[r] = [Idle EXCEPT !.state = "done"]
        \/ req'[r] = req[r]
    BY <1>8 DEF Subscribe
  <2>2. QED
    BY <1>1, <1>2, <1>3, <2>1 DEF Requests
<1>9. ASSUME NEW q \in Reqs, StartRefresh(q) PROVE FALSE
  <2>1. req' = [req EXCEPT ![q].state = "refreshing"]
    BY <1>9 DEF StartRefresh
  <2>2. QED
    BY <1>1, <2>1 DEF Requests
<1>10. ASSUME NEW q \in Reqs, NothingToRefresh(q) PROVE FALSE
  BY <1>2, <1>3, <1>10, SettledIs DEF NothingToRefresh
<1>11. ASSUME UNCHANGED req PROVE FALSE
  BY <1>2, <1>11
<1>12. ASSUME NEW f \in flight, \/ ServeRefresh(f) \/ FailRefresh(f)
                                \/ FinishOwnRefresh(f) \/ FinishSocketRefresh(f)
       PROVE  FALSE
  BY <1>11, <1>12 DEF ServeRefresh, FailRefresh, FinishOwnRefresh, FinishSocketRefresh
<1>13. ASSUME NEW t \in Tabs, \/ UserLogsOut(t) \/ AutoLogout(t) \/ TimerFires(t)
                              \/ AskProfile(t) \/ Connect(t) \/ \E l \in Logins : Login(t, l)
       PROVE  FALSE
  BY <1>11, <1>13 DEF UserLogsOut, AutoLogout, TimerFires, AskProfile, Connect, Login
<1>14. ASSUME \/ \E token \in Tokens : Expire(token)
              \/ \E l \in Logins : EndSession(l)
              \/ \E p \in profiles : FinishProfile(p)
       PROVE  FALSE
  BY <1>11, <1>14 DEF Expire, EndSession, FinishProfile
<1>15. QED
  <2>1. CASE \E f \in flight : \/ ServeRefresh(f) \/ FailRefresh(f) \/ FinishApiRefresh(f)
                                \/ FinishOwnRefresh(f) \/ FinishSocketRefresh(f)
    BY <1>4, <1>12, <2>1
  <2>2. CASE \E t \in Tabs : \/ UserLogsOut(t) \/ AutoLogout(t) \/ TimerFires(t)
                              \/ Reload(t) \/ AskProfile(t) \/ Connect(t)
    BY <1>5, <1>13, <2>2
  <2>3. CASE \E t \in Tabs, l \in Logins : Login(t, l)
    BY <1>13, <2>3
  <2>4. CASE \E t \in Tabs, q \in Reqs : SendRequest(t, q)
    BY <1>6, <2>4
  <2>5. CASE \E q \in Reqs : \/ ServeRequest(q) \/ Subscribe(q) \/ StartRefresh(q)
                              \/ NothingToRefresh(q)
    BY <1>7, <1>8, <1>9, <1>10, <2>5
  <2>6. CASE \/ \E token \in Tokens : Expire(token)
             \/ \E l \in Logins : EndSession(l)
             \/ \E p \in profiles : FinishProfile(p)
    BY <1>14, <2>6
  <2>7. QED
    BY <2>1, <2>2, <2>3, <2>4, <2>5, <2>6 DEF Next

\* A request is sent again once at most, never with the token that was refused.
THEOREM RetriesAreNew == Spec => RetryNewToken
<1>1. RetryNewToken <=> [][RetryStep]_vars
  BY PTL DEF RetryNewToken, RetryStep
<1>2. QED
  BY <1>1, RetryOK, Inductive, PTL DEF Spec

===============================================================================
