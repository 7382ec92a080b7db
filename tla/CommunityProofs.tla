--------------------------- MODULE CommunityProofs ---------------------------
(* Theorems about CommunityHandler, for any users, communities, groups,    *)
(* events and workers: its types, whom an event is routed to, the only way *)
(* its calls can wait for each other for good, and, where one worker       *)
(* changes a user's memberships, that the maps agree and that a clean-up   *)
(* leaves nothing behind.                                                  *)
EXTENDS CommunityHandler, SequenceTheorems, TLAPS

-----------------------------------------------------------------------------
(* The values a routing reads.                                             *)

LEMMA TagValuesType ==
  ASSUME NEW e \in Events
  PROVE  TagValues(e) \in Seq(Places \cup {Malformed})
<1> DEFINE S == Places \cup {Malformed}
<1>1. e.a \in Seq(Communities \cup {Malformed}) /\ e.h \in Seq(Groups)
  BY CommunityHandlerAssumption
<1>2. e.a \in Seq(S) /\ e.h \in Seq(S)
  <2>1. Communities \cup {Malformed} \subseteq S /\ Groups \subseteq S
    BY DEF Places
  <2> QED BY <1>1, <2>1, SeqMonotonic
<1> QED BY <1>2, ConcatProperties DEF TagValues

(* A value is the first of them, or one of the others.                     *)
LEMMA RangeOfTail ==
  ASSUME NEW S, NEW s \in Seq(S), s # <<>>
  PROVE  /\ Head(s) \in S /\ Tail(s) \in Seq(S)
         /\ Range(s) = {Head(s)} \cup Range(Tail(s))
<1>1. /\ Head(s) \in S /\ Tail(s) \in Seq(S)
      /\ Len(s) \in Nat \ {0} /\ Len(Tail(s)) = Len(s) - 1
      /\ Head(s) = s[1] /\ \A i \in 1..Len(Tail(s)) : Tail(s)[i] = s[i + 1]
      /\ DOMAIN s = 1..Len(s) /\ DOMAIN Tail(s) = 1..(Len(s) - 1)
  OBVIOUS
<1>2. ASSUME NEW v \in Range(s) PROVE v \in {Head(s)} \cup Range(Tail(s))
  <2>1. PICK i \in 1..Len(s) : v = s[i]
    BY <1>1, <1>2 DEF Range
  <2>2. CASE i = 1
    BY <1>1, <2>1, <2>2
  <2>3. CASE i # 1
    <3>1. i - 1 \in 1..Len(Tail(s)) /\ (i - 1) + 1 = i
      BY <1>1, <2>3
    <3>2. Tail(s)[i - 1] = v
      BY <1>1, <2>1, <3>1
    <3> QED BY <1>1, <3>1, <3>2 DEF Range
  <2> QED BY <2>2, <2>3
<1>3. ASSUME NEW v \in Range(Tail(s)) PROVE v \in Range(s)
  <2>1. PICK i \in 1..(Len(s) - 1) : v = s[i + 1]
    BY <1>1, <1>3 DEF Range
  <2>2. i + 1 \in 1..Len(s)
    BY <1>1
  <2> QED BY <1>1, <2>1, <2>2 DEF Range
<1>4. Head(s) \in Range(s)
  BY <1>1 DEF Range
<1> QED BY <1>1, <1>2, <1>3, <1>4

-----------------------------------------------------------------------------
(* The types.                                                              *)

LEMMA NoCallType == None \in Calls
<1>1. <<>> \in Seq(Places \cup {Malformed})
  OBVIOUS
<1> QED BY <1>1 DEF None, Calls

LEMMA StartTypes == Init => TypeOK
BY NoCallType DEF Init, TypeOK

(* Whatever goes on with a well typed call and changes the maps and the    *)
(* histories by one of the sections keeps the types.                       *)
LEMMA ContinueTypes ==
  ASSUME TypeOK, NEW w \in Workers, NEW c \in Calls, Continue(w, c)
  PROVE  call' \in [Workers -> Calls]
BY DEF TypeOK, Continue

LEMMA MembersTypes ==
  ASSUME TypeOK, NEW l, NEW m \in [Places -> SUBSET Users], SetMembers(l, m)
  PROVE  /\ members' \in [Places -> SUBSET Users]
         /\ joined' = joined
         /\ ever' \in [Workers -> SUBSET Users]
         /\ stayed' \in [Workers -> [Places -> SUBSET Users]]
<1>1. \A w \in Workers : call[w].tags \subseteq Places
  BY DEF TypeOK, Calls
<1> QED BY <1>1 DEF TypeOK, SetMembers, Witness

LEMMA JoinedTypes ==
  ASSUME TypeOK, NEW l, NEW u \in Users, NEW ps \in SUBSET Places, SetJoined(l, u, ps)
  PROVE  /\ joined' = [joined EXCEPT ![u] = ps]
         /\ joined' \in [Users -> SUBSET Places]
         /\ UNCHANGED <<members, ever, stayed>>
BY DEF TypeOK, SetJoined, historyVars

LEMMA WithoutType ==
  ASSUME TypeOK, NEW u, NEW ps
  PROVE  Without(u, ps) \in [Places -> SUBSET Users]
BY DEF TypeOK, Without

(* What a call in progress has to be like.                                 *)
Shape(c) ==
  /\ c.op = "none" => c = None
  /\ c.op \in {"add", "remove", "cleanup", "leave", "sweep"} => c.user \in Users
  /\ c.op \in {"route", "stats"} => c.user = Nobody
  /\ c.op = "add" => c.place \in Places
  /\ c.op \in {"remove", "leave"} => c.place \in Communities
  /\ c.op \in {"cleanup", "leave"} => c.todo \subseteq Communities
  /\ c.op = "sweep" => c.todo \subseteq Groups
  /\ c.op = "stats" => c.locks \in 1..3

Shaped == \A w \in Workers : Shape(call[w])

(* A step goes on with one call, ...                                       *)
CallStep(w) == \E c \in Calls : Shape(c) /\ Continue(w, c)

(* ... and leaves the maps and the histories well typed.                   *)
MapsTyped ==
  /\ members \in [Places -> SUBSET Users]
  /\ joined \in [Users -> SUBSET Places]
  /\ ever \in [Workers -> SUBSET Users]
  /\ stayed \in [Workers -> [Places -> SUBSET Users]]

TypeInv == TypeOK /\ Shaped

LEMMA CountingShape ==
  ASSUME NEW n \in 1..3
  PROVE  LET c == [None EXCEPT !.op = "stats", !.locks = n] IN c \in Calls /\ Shape(c)
<1> DEFINE c == [None EXCEPT !.op = "stats", !.locks = n]
<1>1. n \in 0..3
  OBVIOUS
<1>2. c \in Calls
  BY <1>1, NoCallType DEF None, Calls
<1>3. c.op = "stats" /\ c.user = Nobody /\ c.locks = n
  BY DEF None
<1>4. Shape(c)
  BY <1>3 DEF Shape
<1> QED BY <1>2, <1>4

LEMMA EnterTypes ==
  ASSUME TypeInv, NEW w \in Workers, Enter(w)
  PROVE  CallStep(w) /\ MapsTyped'
<1> USE CommunityHandlerAssumption DEF TypeInv
<1> DEFINE Good == CallStep(w) /\ MapsTyped'
<1>0. None \in Calls /\ MapsTyped
  BY NoCallType DEF TypeOK, MapsTyped
<1>1. ASSUME NEW u \in Users, Cleanup(w, u) PROVE Good
  <2> DEFINE c == [Begin("cleanup", u, Malformed) EXCEPT !.todo = joined[u] \cap Communities]
  <2>1. c \in Calls /\ Shape(c)
    BY <1>0 DEF Begin, None, Calls, Shape, Places
  <2> QED BY <1>0, <1>1, <2>1 DEF Cleanup, CallStep, MapsTyped, historyVars
<1>2. ASSUME NEW u \in Users, NEW p \in Places, Add(w, u, p) PROVE Good
  <2>1. Begin("add", u, p) \in Calls /\ Shape(Begin("add", u, p))
    BY <1>0 DEF Begin, None, Calls, Shape
  <2>2. [members EXCEPT ![p] = @ \cup {u}] \in [Places -> SUBSET Users]
    BY <1>0 DEF MapsTyped
  <2> QED BY <1>0, <1>2, <2>1, <2>2, MembersTypes DEF Add, CallStep, MapsTyped
<1>3. ASSUME NEW u \in Users, NEW p \in Communities, Remove(w, u, p) PROVE Good
  <2>1. Begin("remove", u, p) \in Calls /\ Shape(Begin("remove", u, p))
    BY <1>0 DEF Begin, None, Calls, Shape, Places
  <2> QED BY <1>0, <1>3, <2>1, WithoutType, MembersTypes DEF Remove, CallStep, MapsTyped
<1>4. ASSUME NEW e \in Events, BeginRoute(w, e) PROVE Good
  <2> DEFINE tags == Range(TagValues(e)) \ {Malformed}
             c == [None EXCEPT !.op = "route", !.queue = TagValues(e), !.tags = tags]
  <2>1. TagValues(e) \in Seq(Places \cup {Malformed})
    BY TagValuesType
  <2>2. tags \subseteq Places
    BY <2>1, RangeOfSeq
  <2>3. c \in Calls /\ Shape(c)
    BY <1>0, <2>1, <2>2 DEF None, Calls, Shape
  <2>4. UNION {members[p] : p \in tags} \subseteq Users
    BY <1>0, <2>2 DEF MapsTyped
  <2>5. [p \in Places |-> IF p \in tags THEN members[p] ELSE {}] \in [Places -> SUBSET Users]
    BY <1>0 DEF MapsTyped
  <2> HIDE DEF tags
  <2> QED BY <1>0, <1>4, <2>3, <2>4, <2>5 DEF BeginRoute, CallStep, MapsTyped, tags
<1>5. ASSUME GetStats(w) PROVE Good
  <2>1. call[w].locks = 0
    BY <1>5 DEF GetStats, Shaped, Shape, None
  <2>2. [None EXCEPT !.op = "stats", !.locks = 1] \in Calls
        /\ Shape([None EXCEPT !.op = "stats", !.locks = 1])
    BY CountingShape
  <2>3. Continue(w, [None EXCEPT !.op = "stats", !.locks = 1])
    BY <1>5, <2>1 DEF GetStats, TakeLock
  <2> QED BY <1>0, <1>5, <2>2, <2>3 DEF GetStats, TakeLock, CallStep, MapsTyped, historyVars
<1> QED BY <1>1, <1>2, <1>3, <1>4, <1>5 DEF Enter

LEMMA ProceedTypes ==
  ASSUME TypeInv, NEW w \in Workers, Proceed(w)
  PROVE  CallStep(w) /\ MapsTyped'
<1> USE CommunityHandlerAssumption DEF TypeInv
<1> DEFINE Good == CallStep(w) /\ MapsTyped'
<1>0. None \in Calls /\ Shape(None) /\ MapsTyped /\ call[w] \in Calls /\ Shape(call[w])
  BY NoCallType DEF TypeOK, MapsTyped, Shaped, Shape, None
<1>1. ASSUME AddSecond(w) PROVE Good
  <2>1. call[w].user \in Users /\ joined[call[w].user] \cup {call[w].place} \subseteq Places
    BY <1>0, <1>1 DEF AddSecond, Shape, MapsTyped
  <2> QED BY <1>0, <1>1, <2>1, JoinedTypes DEF AddSecond, CallStep, MapsTyped
<1>2. ASSUME RemoveSecond(w) PROVE Good
  <2>1. call[w].user \in Users /\ joined[call[w].user] \ {call[w].place} \subseteq Places
    BY <1>0, <1>2 DEF RemoveSecond, Shape, MapsTyped
  <2> QED BY <1>0, <1>2, <2>1, JoinedTypes DEF RemoveSecond, CallStep, MapsTyped
<1>3. ASSUME NEW p \in Communities, LeaveCommunity(w, p) PROVE Good
  <2> DEFINE c == [call[w] EXCEPT !.op = "leave", !.place = p, !.todo = @ \ {p}]
  <2>1. c \in Calls /\ Shape(c)
    BY <1>0, <1>3 DEF LeaveCommunity, Calls, Shape, Places
  <2> QED BY <1>0, <1>3, <2>1, WithoutType, MembersTypes DEF LeaveCommunity, CallStep, MapsTyped
<1>4. ASSUME LeaveSecond(w) PROVE Good
  <2> DEFINE c == [call[w] EXCEPT !.op = "cleanup", !.place = Malformed]
  <2>1. call[w].user \in Users /\ joined[call[w].user] \ {call[w].place} \subseteq Places
    BY <1>0, <1>4 DEF LeaveSecond, Shape, MapsTyped
  <2>2. c \in Calls /\ Shape(c)
    BY <1>0, <1>4 DEF LeaveSecond, Calls, Shape, Places
  <2> QED BY <1>0, <1>4, <2>1, <2>2, JoinedTypes DEF LeaveSecond, CallStep, MapsTyped
<1>5. ASSUME TakeGroups(w) PROVE Good
  <2> DEFINE groups == joined[call[w].user] \cap Groups
             c == [call[w] EXCEPT !.op = "sweep", !.todo = groups]
  <2>1. call[w].user \in Users
    BY <1>0, <1>5 DEF TakeGroups, Shape
  <2>2. joined[call[w].user] \ groups \subseteq Places
    BY <1>0, <2>1 DEF MapsTyped
  <2>3. c \in Calls /\ Shape(c)
    BY <1>0, <1>5, <2>1 DEF TakeGroups, Calls, Shape, Places
  <2> QED BY <1>0, <1>5, <2>1, <2>2, <2>3, JoinedTypes DEF TakeGroups, CallStep, MapsTyped
<1>6. ASSUME SweepGroups(w) PROVE Good
  BY <1>0, <1>6, WithoutType, MembersTypes DEF SweepGroups, CallStep, MapsTyped
<1>7. ASSUME SkipValue(w) \/ ReadPlace(w) PROVE Good
  <2>1. call[w].op = "route" /\ call[w].queue # <<>>
        /\ call[w].queue \in Seq(Places \cup {Malformed})
    BY <1>0, <1>7 DEF SkipValue, ReadPlace, AtPlace, Calls
  <2>2. Tail(call[w].queue) \in Seq(Places \cup {Malformed})
    BY <2>1, RangeOfTail
  <2>3. CASE SkipValue(w)
    <3>1. [call[w] EXCEPT !.queue = Tail(@)] \in Calls
          /\ Shape([call[w] EXCEPT !.queue = Tail(@)])
      BY <1>0, <2>1, <2>2 DEF Calls, Shape
    <3> QED BY <1>0, <2>3, <3>1 DEF SkipValue, CallStep, MapsTyped, historyVars
  <2>4. CASE ReadPlace(w)
    <3> DEFINE c == [call[w] EXCEPT !.recipients = @ \cup members[Head(call[w].queue)],
                                    !.queue = Tail(@)]
    <3>1. members[Head(call[w].queue)] \subseteq Users
      BY <1>0, <2>4 DEF ReadPlace, AtPlace, MapsTyped
    <3>2. c \in Calls /\ Shape(c)
      BY <1>0, <2>1, <2>2, <3>1 DEF Calls, Shape
    <3> QED BY <1>0, <2>4, <3>2 DEF ReadPlace, CallStep, MapsTyped, historyVars
  <2> QED BY <1>7, <2>3, <2>4
<1>8. ASSUME EndRoute(w) PROVE Good
  BY <1>0, <1>8 DEF EndRoute, CallStep, MapsTyped
<1>9. ASSUME NextLock(w) PROVE Good
  <2> DEFINE n == call[w].locks
             c == [None EXCEPT !.op = "stats", !.locks = n + 1]
  <2>1. n \in 1..3
    BY <1>0, <1>9 DEF NextLock, Shape
  <2>2. CASE n = 3
    BY <1>0, <1>9, <2>2 DEF NextLock, TakeLock, CallStep, MapsTyped, historyVars
  <2>3. CASE n # 3
    <3>1. n + 1 \in 1..3
      BY <2>1, <2>3
    <3>2. c \in Calls /\ Shape(c)
      BY <3>1, CountingShape
    <3> QED BY <1>0, <1>9, <2>3, <3>2 DEF NextLock, TakeLock, CallStep, MapsTyped, historyVars
  <2> QED BY <2>2, <2>3
<1> QED BY <1>1, <1>2, <1>3, <1>4, <1>5, <1>6, <1>7, <1>8, <1>9 DEF Proceed

LEMMA TypesInductive == TypeInv /\ [Next]_vars => TypeInv'
<1> SUFFICES ASSUME TypeInv, [Next]_vars PROVE TypeInv'
  OBVIOUS
<1>1. CASE Next
  <2>1. PICK w \in Workers : CallStep(w) /\ MapsTyped'
    BY <1>1, EnterTypes, ProceedTypes DEF Next
  <2>2. PICK c \in Calls : Shape(c) /\ Continue(w, c)
    BY <2>1 DEF CallStep
  <2>3. call' \in [Workers -> Calls] /\ \A v \in Workers : call'[v] = IF v = w THEN c ELSE call[v]
    BY <2>2 DEF Continue, TypeInv, TypeOK
  <2>4. TypeOK'
    BY <2>1, <2>3 DEF TypeOK, MapsTyped
  <2>5. Shaped'
    BY <2>2, <2>3 DEF TypeInv, Shaped, Shape
  <2> QED BY <2>4, <2>5 DEF TypeInv
<1>2. CASE UNCHANGED vars
  BY <1>2 DEF vars, TypeInv, TypeOK, Shaped, Shape
<1> QED BY <1>1, <1>2

LEMMA TypesInvariant == Spec => []TypeInv
<1>1. Init => TypeInv
  BY StartTypes DEF TypeInv, Shaped, Shape, Init, None
<1> QED BY <1>1, TypesInductive, PTL DEF Spec

(* Every variable of the community handler keeps its type.                 *)
THEOREM TypeCorrect == Spec => []TypeOK
<1>1. TypeInv => TypeOK
  BY DEF TypeInv
<1> QED BY <1>1, TypesInvariant, PTL

(* How a step changes the calls.                                           *)
LEMMA OthersCalls ==
  ASSUME TypeInv, NEW w \in Workers, NEW c, Continue(w, c)
  PROVE  call'[w] = c /\ \A v \in Workers \ {w} : call'[v] = call[v]
BY DEF TypeInv, TypeOK, Continue

-----------------------------------------------------------------------------
(* Whom a routing has read.  A place whose members may be missing from the *)
(* recipients is still to be read.                                         *)

Routing(w) ==
  call[w].op = "route" =>
    /\ Range(call[w].queue) \subseteq call[w].tags \cup {Malformed}
    /\ call[w].recipients \subseteq ever[w]
    /\ \A p \in call[w].tags :
         /\ members[p] \subseteq ever[w] /\ stayed[w][p] \subseteq members[p]
         /\ p \in Range(call[w].queue) \/ stayed[w][p] \subseteq call[w].recipients

RouteInv == \A w \in Workers : Routing(w)

(* Who does not route changes members under the eyes of who does.          *)
LEMMA RoutingWitnesses ==
  ASSUME TypeInv, RouteInv, NEW w \in Workers, NEW c, Continue(w, c), c.op # "route",
         NEW l, NEW m \in [Places -> SUBSET Users], SetMembers(l, m)
  PROVE  RouteInv'
<1> SUFFICES ASSUME NEW v \in Workers, call'[v].op = "route" PROVE Routing(v)'
  BY DEF RouteInv, Routing
<1>1. call'[v] = call[v] /\ call[v] \in Calls
  BY OthersCalls DEF TypeInv, TypeOK
<1>2. Routing(v) /\ call[v].tags \subseteq Places
  BY <1>1 DEF RouteInv, Calls
<1>3. /\ members' = m
      /\ ever'[v] = ever[v] \cup UNION {m[p] : p \in call[v].tags}
      /\ \A p \in call[v].tags : stayed'[v][p] = stayed[v][p] \cap m[p]
  BY <1>2 DEF SetMembers, Witness, TypeInv, TypeOK
<1> QED BY <1>1, <1>2, <1>3 DEF Routing

LEMMA RoutingUndisturbed ==
  ASSUME TypeInv, RouteInv, NEW w \in Workers, NEW c, Continue(w, c), c.op # "route",
         UNCHANGED <<members, ever, stayed>>
  PROVE  RouteInv'
BY OthersCalls DEF RouteInv, Routing

LEMMA RoutingInductive == TypeInv /\ RouteInv /\ [Next]_vars => RouteInv'
<1> SUFFICES ASSUME TypeInv, RouteInv, [Next]_vars PROVE RouteInv'
  OBVIOUS
<1>0. TypeOK /\ None.op = "none"
  BY DEF TypeInv, None
<1>1. ASSUME NEW w \in Workers, NEW u \in Users, NEW p \in Places, Add(w, u, p) PROVE RouteInv'
  <2>1. [members EXCEPT ![p] = @ \cup {u}] \in [Places -> SUBSET Users]
    BY <1>0 DEF TypeOK
  <2> QED BY <1>1, <2>1, RoutingWitnesses DEF Add, Begin, None
<1>2. ASSUME NEW w \in Workers, NEW u \in Users, NEW p \in Places, Remove(w, u, p)
      PROVE  RouteInv'
  BY <1>0, <1>2, WithoutType, RoutingWitnesses DEF Remove, Begin, None
<1>3. ASSUME NEW w \in Workers, NEW p \in Communities, LeaveCommunity(w, p) PROVE RouteInv'
  <2>1. [call[w] EXCEPT !.op = "leave", !.place = p, !.todo = @ \ {p}].op # "route"
    BY <1>0 DEF TypeOK, Calls
  <2> QED BY <1>0, <1>3, <2>1, WithoutType, RoutingWitnesses DEF LeaveCommunity
<1>4. ASSUME NEW w \in Workers, SweepGroups(w) PROVE RouteInv'
  BY <1>0, <1>4, WithoutType, RoutingWitnesses DEF SweepGroups
<1>5. ASSUME NEW w \in Workers, NEW u \in Users, Cleanup(w, u) PROVE RouteInv'
  BY <1>0, <1>5, RoutingUndisturbed DEF Cleanup, Begin, None, historyVars
<1>6. ASSUME NEW w \in Workers, AddSecond(w) \/ RemoveSecond(w) PROVE RouteInv'
  BY <1>0, <1>6, RoutingUndisturbed DEF AddSecond, RemoveSecond, SetJoined, historyVars
<1>7. ASSUME NEW w \in Workers, LeaveSecond(w) PROVE RouteInv'
  <2>1. [call[w] EXCEPT !.op = "cleanup", !.place = Malformed].op # "route"
    BY <1>0 DEF TypeOK, Calls
  <2> QED BY <1>0, <1>7, <2>1, RoutingUndisturbed DEF LeaveSecond, SetJoined, historyVars
<1>8. ASSUME NEW w \in Workers, TakeGroups(w) PROVE RouteInv'
  <2>1. \A ps : [call[w] EXCEPT !.op = "sweep", !.todo = ps].op # "route"
    BY <1>0 DEF TypeOK, Calls
  <2> QED BY <1>0, <1>8, <2>1, RoutingUndisturbed DEF TakeGroups, SetJoined, historyVars
<1>9. ASSUME NEW w \in Workers, GetStats(w) \/ NextLock(w) PROVE RouteInv'
  <2>1. \A n : [None EXCEPT !.op = "stats", !.locks = n].op # "route"
    BY DEF None
  <2> QED BY <1>0, <1>9, <2>1, RoutingUndisturbed DEF GetStats, NextLock, TakeLock, historyVars
<1>10. ASSUME NEW w \in Workers, NEW e \in Events, BeginRoute(w, e) PROVE RouteInv'
  <2> SUFFICES ASSUME NEW v \in Workers PROVE Routing(v)'
    BY DEF RouteInv
  <2> DEFINE tags == Range(TagValues(e)) \ {Malformed}
             c == [None EXCEPT !.op = "route", !.queue = TagValues(e), !.tags = tags]
  <2>1. TagValues(e) \in Seq(Places \cup {Malformed}) /\ tags \subseteq Places
    BY TagValuesType, RangeOfSeq
  <2>2. Continue(w, c)
    BY <1>10 DEF BeginRoute
  <2>3. call'[w] = c /\ \A x \in Workers \ {w} : call'[x] = call[x]
    BY <2>2, OthersCalls
  <2>4. c.queue = TagValues(e) /\ c.tags = tags /\ c.recipients = {}
    BY DEF None
  <2>5. /\ members' = members
        /\ ever'[v] = IF v = w THEN UNION {members[p] : p \in tags} ELSE ever[v]
        /\ stayed'[v] = IF v = w THEN [p \in Places |-> IF p \in tags THEN members[p] ELSE {}]
                                 ELSE stayed[v]
    BY <1>0, <1>10 DEF BeginRoute, TypeOK
  <2>6. CASE v = w
    <3>1. \A p \in tags : stayed'[w][p] = members[p]
      BY <2>1, <2>5, <2>6
    <3>2. /\ Range(TagValues(e)) \subseteq tags \cup {Malformed} /\ tags \subseteq Range(TagValues(e))
          /\ \A p \in tags : members[p] \subseteq UNION {members[t] : t \in tags}
      OBVIOUS
    <3> HIDE DEF c, tags
    <3> QED BY <2>3, <2>4, <2>5, <2>6, <3>1, <3>2 DEF Routing
  <2>7. CASE v # w
    BY <2>3, <2>5, <2>7 DEF RouteInv, Routing
  <2> QED BY <2>6, <2>7
<1>11. ASSUME NEW w \in Workers, SkipValue(w) \/ ReadPlace(w) PROVE RouteInv'
  <2> SUFFICES ASSUME NEW v \in Workers PROVE Routing(v)'
    BY DEF RouteInv
  <2> DEFINE q == call[w].queue
             p == Head(q)
             read == IF p = Malformed THEN call[w].recipients
                                      ELSE call[w].recipients \cup members[p]
             c == [call[w] EXCEPT !.recipients = read, !.queue = Tail(q)]
  <2>1. /\ call[w] \in Calls /\ call[w].op = "route" /\ q # <<>>
        /\ q \in Seq(Places \cup {Malformed}) /\ Malformed \notin Places
    BY <1>0, <1>11, CommunityHandlerAssumption DEF SkipValue, ReadPlace, AtPlace, TypeOK, Calls
  <2>2. call'[w] = c /\ \A x \in Workers \ {w} : call'[x] = call[x]
    <3>1. CASE SkipValue(w)
      <4>1. c = [call[w] EXCEPT !.queue = Tail(q)]
        BY <2>1, <3>1 DEF SkipValue, Calls
      <4> QED BY <3>1, <4>1, OthersCalls DEF SkipValue
    <3>2. CASE ReadPlace(w)
      BY <2>1, <3>2, OthersCalls DEF ReadPlace, AtPlace
    <3> QED BY <1>11, <3>1, <3>2
  <2>3. UNCHANGED <<members, ever, stayed>>
    BY <1>0, <1>11 DEF SkipValue, ReadPlace, historyVars
  <2>4. CASE v = w
    <3>1. Range(q) = {p} \cup Range(Tail(q))
      BY <2>1, RangeOfTail
    <3>2. Routing(w)
      BY DEF RouteInv
    <3>3. c.op = "route" /\ c.tags = call[w].tags /\ c.queue = Tail(q) /\ c.recipients = read
      BY <2>1 DEF Calls
    <3>4. /\ Range(q) \subseteq call[w].tags \cup {Malformed}
          /\ call[w].recipients \subseteq ever[w]
          /\ \A t \in call[w].tags :
               /\ members[t] \subseteq ever[w] /\ stayed[w][t] \subseteq members[t]
               /\ t \in Range(q) \/ stayed[w][t] \subseteq call[w].recipients
      BY <2>1, <3>2 DEF Routing
    <3>5. p = Malformed \/ p \in call[w].tags
      BY <3>1, <3>4
    <3>6. Malformed \notin call[w].tags
      BY <2>1 DEF Calls
    <3> HIDE DEF c, p, q
    <3>7. /\ read \subseteq ever[w]
          /\ \A t \in call[w].tags : t \in Range(Tail(q)) \/ stayed[w][t] \subseteq read
      BY <3>1, <3>4, <3>5, <3>6
    <3> HIDE DEF read
    <3> QED BY <2>2, <2>3, <2>4, <3>1, <3>3, <3>4, <3>7 DEF Routing
  <2>5. CASE v # w
    BY <2>2, <2>3, <2>5 DEF RouteInv, Routing
  <2> QED BY <2>4, <2>5
<1>12. ASSUME NEW w \in Workers, EndRoute(w) PROVE RouteInv'
  <2> SUFFICES ASSUME NEW v \in Workers, call'[v].op = "route" PROVE Routing(v)'
    BY DEF RouteInv, Routing
  <2>1. v # w /\ call'[v] = call[v]
    BY <1>0, <1>12, OthersCalls DEF EndRoute
  <2>2. members' = members /\ ever'[v] = ever[v] /\ stayed'[v] = stayed[v]
    BY <1>0, <1>12, <2>1 DEF EndRoute, TypeOK
  <2> QED BY <2>1, <2>2 DEF RouteInv, Routing
<1>13. CASE UNCHANGED vars
  BY <1>13 DEF vars, RouteInv, Routing
<1>14. Communities \subseteq Places
  BY DEF Places
<1> QED BY <1>1, <1>2, <1>3, <1>4, <1>5, <1>6, <1>7, <1>8, <1>9, <1>10, <1>11, <1>12, <1>13, <1>14
        DEF Next, Enter, Proceed

(* A routing that has read its last place has the members it should.       *)
THEOREM RoutingCorrect == Spec => []RoutedAreMembers
<1>1. Init => RouteInv
  BY DEF Init, RouteInv, Routing, None
<1>2. TypeInv /\ RouteInv => RoutedAreMembers
  <2> SUFFICES ASSUME TypeInv, RouteInv, NEW w \in Workers,
                      call[w].op = "route", call[w].queue = <<>>,
                      NEW p \in call[w].tags
               PROVE  stayed[w][p] \subseteq call[w].recipients
    BY DEF RoutedAreMembers, RouteInv, Routing
  <2>1. Range(<<>>) = {}
    BY DEF Range
  <2> QED BY <2>1 DEF RouteInv, Routing
<1> QED BY <1>1, <1>2, TypesInvariant, RoutingInductive, PTL DEF Spec

-----------------------------------------------------------------------------
(* The locks.  Who waits with a lock in his hands is a sweep or a count.   *)

(* Where no clean-up has a lock, a count can go on; if there is none,      *)
(* everybody can.                                                          *)
LEMMA WithoutSweep ==
  ASSUME NEW u \in Workers, call[u].op # "none", \A v \in Workers : call[v].op # "sweep"
  PROVE  \E w \in Workers : call[w].op # "none" /\ LockFree(w)
<1>1. ASSUME NEW w \in Workers, call[w].op = "stats" PROVE LockFree(w)
  BY <1>1 DEF LockFree, MayRead, WriteLocked
<1>2. ASSUME \A v \in Workers : call[v].op # "stats" PROVE LockFree(u)
  BY <1>2 DEF LockFree, MayRead, MayWrite, WriteLocked, ReadLocked
<1> QED BY <1>1, <1>2

(* A clean-up that has a lock can go on, unless a count has the one it     *)
(* waits for; and that count can, unless it waits for the clean-up.        *)
LEMMA WithSweep ==
  ASSUME TypeInv, NEW v \in Workers, call[v].op = "sweep", ~Circle
  PROVE  \E w \in Workers : call[w].op # "none" /\ LockFree(w)
<1>1. CASE ~ReadLocked("group_members")
  <2>1. LockFree(v)
    BY <1>1 DEF LockFree, MayWrite, WriteLocked
  <2> QED BY <2>1
<1>2. CASE ReadLocked("group_members")
  <2>1. PICK w \in Workers, n \in 1..3 :
          call[w].op = "stats" /\ n <= call[w].locks /\ "group_members" = LockOrder[n]
    BY <1>2 DEF ReadLocked
  <2>2. call[w].locks \in 1..3 /\ n # 1
    BY <2>1 DEF TypeInv, Shaped, Shape, LockOrder
  <2>3. call[w].locks = 2 \/ call[w].locks = 3
    BY <2>1, <2>2
  <2>4. LockOrder[2 + 1] = "user_communities" /\ LockOrder[3 + 1] = "user_groups"
    BY DEF LockOrder
  <2>5. call[w].locks = 2
    BY <2>1, <2>3, <2>4 DEF Circle
  <2>6. LockFree(w)
    BY <2>1, <2>4, <2>5 DEF LockFree, MayRead, WriteLocked
  <2> QED BY <2>1, <2>6
<1> QED BY <1>1, <1>2

(* However many tasks call the handler, and whatever they call, they never *)
(* all wait for each other but in the circle of cleanup_user and get_stats. *)
THEOREM OnlyOneDeadlock == Spec => []StuckOnlyInCircle
<1>1. TypeInv => StuckOnlyInCircle
  BY WithSweep, WithoutSweep DEF StuckOnlyInCircle
<1> QED BY <1>1, TypesInvariant, PTL

-----------------------------------------------------------------------------
(* The maps, where one worker changes a user's memberships.                *)
OneCallerPerUser ==
  \A u \in Users : \A v, w \in Callers[u] : v = w

(* What the maps say of the user of a call in progress.                    *)
Doing(w) ==
  LET c == call[w] IN
  /\ c.user \in Users => w \in Callers[c.user]
  /\ c.op = "add" => c.user \in members[c.place]
  /\ c.op \in {"remove", "leave"} => c.user \notin members[c.place]
  /\ c.op = "cleanup" => c.todo = joined[c.user] \cap Communities
  /\ c.op = "leave" => c.todo = (joined[c.user] \cap Communities) \ {c.place}
  /\ c.op = "sweep" => joined[c.user] = {}

Half(w, u, p) ==
  /\ call[w].user = u
  /\ \/ call[w].op \in {"add", "remove", "leave"} /\ call[w].place = p
     \/ call[w].op = "sweep" /\ p \in call[w].todo

Agree(u, p) == u \in members[p] <=> p \in joined[u]

AgreeInv ==
  /\ \A w \in Workers : Doing(w)
  /\ \A u \in Users, p \in Places : (\E w \in Workers : Half(w, u, p)) \/ Agree(u, p)

(* A section of a call about u disturbs nothing that is said of others.    *)
LEMMA OthersKeep ==
  ASSUME OneCallerPerUser, TypeInv, TypeInv', AgreeInv,
         NEW w \in Workers, NEW u \in Users, w \in Callers[u],
         \A v \in Workers \ {w} : call'[v] = call[v],
         call[w].user \in {u, Nobody}, call'[w].user \in {u, Nobody},
         \A x \in Users \ {u} :
           joined'[x] = joined[x] /\ \A p \in Places : x \in members'[p] <=> x \in members[p],
         Doing(w)', \A p \in Places : Half(w, u, p)' \/ Agree(u, p)'
  PROVE  AgreeInv'
<1> USE CommunityHandlerAssumption
<1>1. ASSUME NEW v \in Workers PROVE Doing(v)'
  <2>1. CASE v = w
    BY <2>1
  <2>2. CASE v # w
    <3>1. call'[v] = call[v] /\ Doing(v) /\ Shape(call[v])
      BY <2>2 DEF AgreeInv, TypeInv, Shaped
    <3>2. CASE call[v].user \in Users
      <4>1. v \in Callers[call[v].user]
        BY <3>1, <3>2 DEF Doing
      <4>2. call[v].user # u
        BY <2>2, <4>1 DEF OneCallerPerUser
      <4>3. /\ joined'[call[v].user] = joined[call[v].user]
            /\ \A p \in Places : call[v].user \in members'[p] <=> call[v].user \in members[p]
        BY <3>2, <4>2
      <4> QED BY <3>1, <4>1, <4>3 DEF Doing, Shape, Places
    <3>3. CASE call[v].user \notin Users
      BY <3>1, <3>3 DEF Doing, Shape
    <3> QED BY <3>2, <3>3
  <2> QED BY <2>1, <2>2
<1>2. ASSUME NEW x \in Users, NEW p \in Places
      PROVE  (\E v \in Workers : Half(v, x, p)') \/ Agree(x, p)'
  <2>1. CASE x = u
    BY <2>1
  <2>2. CASE x # u
    <3>1. Agree(x, p)' <=> Agree(x, p)
      BY <2>2 DEF Agree
    <3>2. ASSUME NEW v \in Workers, Half(v, x, p) PROVE Half(v, x, p)'
      <4>1. v # w
        BY <2>2, <3>2 DEF Half
      <4> QED BY <3>2, <4>1 DEF Half
    <3> QED BY <3>1, <3>2 DEF AgreeInv
  <2> QED BY <2>1, <2>2
<1> QED BY <1>1, <1>2 DEF AgreeInv

(* When the section is about u, only calls of w are.                       *)
LEMMA OnlyCaller ==
  ASSUME OneCallerPerUser, AgreeInv, NEW w \in Workers, NEW u \in Users, w \in Callers[u],
         NEW p \in Places, ~Half(w, u, p)
  PROVE  Agree(u, p)
<1> SUFFICES ASSUME NEW v \in Workers, Half(v, u, p) PROVE FALSE
  BY DEF AgreeInv
<1>1. v \in Callers[u]
  BY DEF AgreeInv, Doing, Half
<1> QED BY <1>1 DEF OneCallerPerUser

(* A step that goes on with a routing or the counting.                     *)
LEMMA AgreeUndisturbed ==
  ASSUME TypeInv, TypeInv', AgreeInv, NEW w \in Workers,
         \A v \in Workers \ {w} : call'[v] = call[v],
         call[w].user = Nobody, call'[w].user = Nobody, UNCHANGED <<members, joined>>
  PROVE  AgreeInv'
<1> USE CommunityHandlerAssumption
<1>1. ASSUME NEW v \in Workers PROVE Doing(v)'
  <2>1. CASE v = w
    <3>1. Shape(call[w])' /\ call'[w].user \notin Users
      BY DEF TypeInv, Shaped
    <3> QED BY <2>1, <3>1 DEF Doing, Shape
  <2>2. CASE v # w
    <3>1. Doing(v) /\ call'[v] = call[v]
      BY <2>2 DEF AgreeInv
    <3> QED BY <3>1 DEF Doing
  <2> QED BY <2>1, <2>2
<1>2. \A v \in Workers, u \in Users, p \in Places : Half(v, u, p) => Half(v, u, p)'
  BY DEF Half
<1>3. \A u \in Users, p \in Places : Agree(u, p)' <=> Agree(u, p)
  BY DEF Agree
<1> QED BY <1>1, <1>2, <1>3 DEF AgreeInv

(* The sections on one map, read for one user.                             *)
LEMMA JoinedOfOne ==
  ASSUME TypeInv, NEW u \in Users, NEW ps \in SUBSET Places,
         joined' = [joined EXCEPT ![u] = ps], members' = members
  PROVE  /\ joined'[u] = ps
         /\ \A x \in Users \ {u} :
              joined'[x] = joined[x] /\ \A p \in Places : x \in members'[p] <=> x \in members[p]
BY DEF TypeInv, TypeOK

LEMMA WithoutOne ==
  ASSUME TypeInv, NEW u \in Users, NEW ps, members' = Without(u, ps), joined' = joined
  PROVE  /\ \A p \in Places : u \in members'[p] <=> (u \in members[p] /\ p \notin ps)
         /\ \A x \in Users \ {u} :
              joined'[x] = joined[x] /\ \A p \in Places : x \in members'[p] <=> x \in members[p]
BY DEF Without, TypeInv, TypeOK

LEMMA AgreeInductive ==
  ASSUME OneCallerPerUser, TypeInv, AgreeInv, [Next]_vars
  PROVE  AgreeInv'
<1> USE CommunityHandlerAssumption
<1>0. TypeInv' /\ TypeOK
  BY TypesInductive DEF TypeInv
<1>1. Communities \subseteq Places /\ Groups \subseteq Places /\ Communities \cap Groups = {}
      /\ Malformed \notin Places
  BY DEF Places
<1>2. None.op = "none" /\ None.user = Nobody
  BY DEF None
<1>3. ASSUME NEW w \in Workers PROVE call[w] \in Calls /\ Shape(call[w]) /\ Doing(w)
  BY <1>0 DEF TypeOK, TypeInv, Shaped, AgreeInv
<1>4. ASSUME NEW w \in Workers, NEW u \in Users, NEW p \in Places, Add(w, u, p) PROVE AgreeInv'
  <2>1. call'[w] = Begin("add", u, p) /\ \A v \in Workers \ {w} : call'[v] = call[v]
    BY <1>4, OthersCalls DEF Add
  <2>2. call'[w].op = "add" /\ call'[w].user = u /\ call'[w].place = p
    BY <2>1 DEF Begin, None
  <2>3. call[w].user = Nobody /\ w \in Callers[u]
    BY <1>2, <1>3, <1>4 DEF Add, Shape
  <2>4. /\ joined' = joined
        /\ members' = [members EXCEPT ![p] = @ \cup {u}]
    BY <1>4 DEF Add, SetMembers
  <2>5. \A x \in Users, q \in Places :
          x \in members'[q] <=> (x \in members[q] \/ (x = u /\ q = p))
    BY <1>0, <2>4 DEF TypeOK
  <2>6. Doing(w)'
    BY <2>2, <2>3, <2>5 DEF Doing
  <2>7. ASSUME NEW q \in Places PROVE Half(w, u, q)' \/ Agree(u, q)'
    <3>1. CASE q = p
      BY <2>2, <3>1 DEF Half
    <3>2. CASE q # p
      <4>1. Agree(u, q)
        BY <1>4, <2>3, OnlyCaller DEF Half, Add
      <4> QED BY <2>4, <2>5, <3>2, <4>1 DEF Agree
    <3> QED BY <3>1, <3>2
  <2>8. \A x \in Users \ {u} :
          joined'[x] = joined[x] /\ \A q \in Places : x \in members'[q] <=> x \in members[q]
    BY <2>4, <2>5
  <2> QED BY <1>0, <2>1, <2>2, <2>3, <2>6, <2>7, <2>8, OthersKeep
<1>5. ASSUME NEW w \in Workers, AddSecond(w) PROVE AgreeInv'
  <2>0. PICK u \in Users, p \in Places : u = call[w].user /\ p = call[w].place
    BY <1>3, <1>5 DEF AddSecond, Shape
  <2>1. w \in Callers[u] /\ u \in members[p] /\ call[w].op = "add"
    BY <1>3, <1>5, <2>0 DEF AddSecond, Doing
  <2>2. call'[w] = None /\ \A v \in Workers \ {w} : call'[v] = call[v]
    BY <1>5, OthersCalls DEF AddSecond
  <2>3. joined[u] \cup {p} \in SUBSET Places
    BY <1>0, <2>1 DEF TypeOK
  <2>4. /\ joined'[u] = joined[u] \cup {p} /\ members' = members
        /\ \A x \in Users \ {u} :
             joined'[x] = joined[x] /\ \A q \in Places : x \in members'[q] <=> x \in members[q]
    <3>1. joined' = [joined EXCEPT ![u] = joined[u] \cup {p}] /\ members' = members
      BY <1>5, <2>0 DEF AddSecond, SetJoined
    <3> QED BY <1>0, <2>0, <3>1 DEF TypeOK
  <2>5. Doing(w)'
    BY <1>2, <2>2 DEF Doing
  <2>6. ASSUME NEW q \in Places PROVE Agree(u, q)'
    <3>1. q = p \/ Agree(u, q)
      BY <2>0, <2>1, OnlyCaller DEF Half
    <3> QED BY <2>1, <2>4, <3>1 DEF Agree
  <2>7. call[w].user \in {u, Nobody} /\ call'[w].user \in {u, Nobody}
    BY <1>2, <2>0, <2>2
  <2> QED BY <1>0, <2>1, <2>2, <2>4, <2>5, <2>6, <2>7, OthersKeep
<1>6. ASSUME NEW w \in Workers, NEW u \in Users, NEW p \in Communities, Remove(w, u, p)
      PROVE  AgreeInv'
  <2>1. call'[w] = Begin("remove", u, p) /\ \A v \in Workers \ {w} : call'[v] = call[v]
    BY <1>6, OthersCalls DEF Remove
  <2>2. call'[w].op = "remove" /\ call'[w].user = u /\ call'[w].place = p
    BY <2>1 DEF Begin, None
  <2>3. call[w].user = Nobody /\ w \in Callers[u]
    BY <1>2, <1>3, <1>6 DEF Remove, Shape
  <2>4. /\ joined' = joined
        /\ \A q \in Places : u \in members'[q] <=> (u \in members[q] /\ q \notin {p})
        /\ \A x \in Users \ {u} :
             joined'[x] = joined[x] /\ \A q \in Places : x \in members'[q] <=> x \in members[q]
    <3>1. members' = Without(u, {p}) /\ joined' = joined
      BY <1>6 DEF Remove, SetMembers
    <3> QED BY <1>0, <3>1 DEF TypeOK, Without
  <2>5. Doing(w)'
    BY <1>1, <2>2, <2>3, <2>4 DEF Doing
  <2>6. ASSUME NEW q \in Places PROVE Half(w, u, q)' \/ Agree(u, q)'
    <3>1. CASE q = p
      BY <2>2, <3>1 DEF Half
    <3>2. CASE q # p
      <4>1. Agree(u, q)
        BY <1>6, <2>3, OnlyCaller DEF Half, Remove
      <4> QED BY <2>4, <3>2, <4>1 DEF Agree
    <3> QED BY <3>1, <3>2
  <2> QED BY <1>0, <2>1, <2>2, <2>3, <2>4, <2>5, <2>6, OthersKeep
<1>7. ASSUME NEW w \in Workers, RemoveSecond(w) \/ LeaveSecond(w) PROVE AgreeInv'
  <2>0. PICK u \in Users, p \in Places : u = call[w].user /\ p = call[w].place
    BY <1>1, <1>3, <1>7 DEF RemoveSecond, LeaveSecond, Shape
  <2> DEFINE c == IF call[w].op = "remove" THEN None
                  ELSE [call[w] EXCEPT !.op = "cleanup", !.place = Malformed]
  <2>1. w \in Callers[u] /\ u \notin members[p] /\ call[w].op \in {"remove", "leave"}
    BY <1>3, <1>7, <2>0 DEF RemoveSecond, LeaveSecond, Doing
  <2>2. call'[w] = c /\ \A v \in Workers \ {w} : call'[v] = call[v]
    BY <1>7, OthersCalls DEF RemoveSecond, LeaveSecond
  <2>3. joined[u] \ {p} \in SUBSET Places
    BY <1>0, <2>1 DEF TypeOK
  <2>4. /\ joined'[u] = joined[u] \ {p} /\ members' = members
        /\ \A x \in Users \ {u} :
             joined'[x] = joined[x] /\ \A q \in Places : x \in members'[q] <=> x \in members[q]
    BY <1>7, <2>0, <2>3, JoinedOfOne DEF RemoveSecond, LeaveSecond, SetJoined, historyVars
  <2>5. ASSUME NEW q \in Places PROVE Agree(u, q)'
    <3>1. q = p \/ Agree(u, q)
      BY <2>0, <2>1, OnlyCaller DEF Half
    <3> QED BY <2>1, <2>4, <3>1 DEF Agree
  <2>6. call'[w].user \in {u, Nobody} /\ Doing(w)'
    <3>1. CASE call[w].op = "remove"
      BY <1>2, <2>2, <3>1 DEF Doing
    <3>2. CASE call[w].op = "leave"
      <4>1. call'[w].op = "cleanup" /\ call'[w].user = u /\ call'[w].todo = call[w].todo
        BY <1>3, <2>0, <2>2, <3>2 DEF Calls
      <4>2. call[w].todo = (joined[u] \cap Communities) \ {p}
        BY <1>3, <2>0, <3>2 DEF Doing
      <4> QED BY <2>1, <2>4, <4>1, <4>2 DEF Doing
    <3> QED BY <2>1, <3>1, <3>2
  <2> HIDE DEF c
  <2>7. call[w].user \in {u, Nobody}
    BY <2>0
  <2> QED BY <1>0, <2>1, <2>2, <2>4, <2>5, <2>6, <2>7, OthersKeep
<1>8. ASSUME NEW w \in Workers, NEW u \in Users, Cleanup(w, u) PROVE AgreeInv'
  <2> DEFINE c == [Begin("cleanup", u, Malformed) EXCEPT !.todo = joined[u] \cap Communities]
  <2>1. call'[w] = c /\ \A v \in Workers \ {w} : call'[v] = call[v]
    BY <1>8, OthersCalls DEF Cleanup
  <2>2. call'[w].op = "cleanup" /\ call'[w].user = u /\ call'[w].todo = joined[u] \cap Communities
    BY <2>1 DEF Begin, None
  <2>3. call[w].user = Nobody /\ w \in Callers[u]
    BY <1>2, <1>3, <1>8 DEF Cleanup, Shape
  <2>4. UNCHANGED <<members, joined>>
    BY <1>8 DEF Cleanup
  <2>5. Doing(w)'
    BY <2>2, <2>3, <2>4 DEF Doing
  <2>6. ASSUME NEW q \in Places PROVE Agree(u, q)'
    <3>1. Agree(u, q)
      BY <1>8, <2>3, OnlyCaller DEF Half, Cleanup
    <3> QED BY <2>4, <3>1 DEF Agree
  <2> QED BY <1>0, <2>1, <2>2, <2>3, <2>4, <2>5, <2>6, OthersKeep
<1>9. ASSUME NEW w \in Workers, NEW p \in Communities, LeaveCommunity(w, p) PROVE AgreeInv'
  <2>0. PICK u \in Users : u = call[w].user
    BY <1>3, <1>9 DEF LeaveCommunity, Shape
  <2> DEFINE c == [call[w] EXCEPT !.op = "leave", !.place = p, !.todo = @ \ {p}]
  <2>1. w \in Callers[u] /\ call[w].op = "cleanup" /\ call[w].todo = joined[u] \cap Communities
    BY <1>3, <1>9, <2>0 DEF LeaveCommunity, Doing
  <2>2. call'[w] = c /\ \A v \in Workers \ {w} : call'[v] = call[v]
    BY <1>9, OthersCalls DEF LeaveCommunity
  <2>3. call'[w].op = "leave" /\ call'[w].user = u /\ call'[w].place = p
        /\ call'[w].todo = call[w].todo \ {p}
    BY <1>3, <2>0, <2>2 DEF Calls
  <2>4. /\ joined' = joined
        /\ \A q \in Places : u \in members'[q] <=> (u \in members[q] /\ q \notin {p})
        /\ \A x \in Users \ {u} :
             joined'[x] = joined[x] /\ \A q \in Places : x \in members'[q] <=> x \in members[q]
    <3>1. members' = Without(u, {p}) /\ joined' = joined
      BY <1>9, <2>0 DEF LeaveCommunity, SetMembers
    <3> HIDE DEF c
    <3> QED BY <3>1, WithoutOne
  <2>5. Doing(w)'
    BY <1>1, <2>1, <2>3, <2>4 DEF Doing
  <2>6. ASSUME NEW q \in Places PROVE Half(w, u, q)' \/ Agree(u, q)'
    <3>1. CASE q = p
      BY <2>3, <3>1 DEF Half
    <3>2. CASE q # p
      <4>1. Agree(u, q)
        BY <2>1, OnlyCaller DEF Half
      <4> QED BY <2>4, <3>2, <4>1 DEF Agree
    <3> QED BY <3>1, <3>2
  <2> HIDE DEF c
  <2>7. call[w].user \in {u, Nobody}
    BY <2>0
  <2> QED BY <1>0, <2>1, <2>2, <2>3, <2>4, <2>5, <2>6, <2>7, OthersKeep
<1>10. ASSUME NEW w \in Workers, TakeGroups(w) PROVE AgreeInv'
  <2>0. PICK u \in Users, groups \in SUBSET Groups :
          u = call[w].user /\ groups = joined[u] \cap Groups
    BY <1>3, <1>10 DEF TakeGroups, Shape
  <2> DEFINE c == IF groups = {} THEN None ELSE [call[w] EXCEPT !.op = "sweep", !.todo = groups]
  <2>1. w \in Callers[u] /\ call[w].op = "cleanup" /\ joined[u] \cap Communities = {}
    BY <1>3, <1>10, <2>0 DEF TakeGroups, Doing
  <2>2. call'[w] = c /\ \A v \in Workers \ {w} : call'[v] = call[v]
    BY <1>10, <2>0, OthersCalls DEF TakeGroups
  <2>3. joined[u] \ groups \in SUBSET Places /\ joined[u] \ groups = {}
    BY <1>0, <2>0, <2>1 DEF TypeOK, Places
  <2>4. /\ joined'[u] = {} /\ members' = members
        /\ \A x \in Users \ {u} :
             joined'[x] = joined[x] /\ \A q \in Places : x \in members'[q] <=> x \in members[q]
    BY <1>10, <2>0, <2>3, JoinedOfOne DEF TakeGroups, SetJoined, historyVars
  <2>5. \/ groups = {} /\ call'[w] = None
        \/ call'[w].op = "sweep" /\ call'[w].user = u /\ call'[w].todo = groups
    BY <1>3, <2>0, <2>2 DEF Calls
  <2>6. Doing(w)' /\ call'[w].user \in {u, Nobody}
    BY <1>2, <2>1, <2>4, <2>5 DEF Doing
  <2>7. ASSUME NEW q \in Places PROVE Half(w, u, q)' \/ Agree(u, q)'
    <3>1. Agree(u, q)
      BY <2>1, OnlyCaller DEF Half
    <3>2. CASE q \in groups
      BY <2>5, <3>2 DEF Half
    <3>3. CASE q \notin groups
      BY <2>3, <2>4, <3>1, <3>3 DEF Agree
    <3> QED BY <3>2, <3>3
  <2> HIDE DEF c
  <2>8. call[w].user \in {u, Nobody}
    BY <2>0
  <2> QED BY <1>0, <2>1, <2>2, <2>4, <2>6, <2>7, <2>8, OthersKeep
<1>11. ASSUME NEW w \in Workers, SweepGroups(w) PROVE AgreeInv'
  <2>0. PICK u \in Users, todo \in SUBSET Groups : u = call[w].user /\ todo = call[w].todo
    BY <1>3, <1>11 DEF SweepGroups, Shape
  <2>1. w \in Callers[u] /\ call[w].op = "sweep" /\ joined[u] = {}
    BY <1>3, <1>11, <2>0 DEF SweepGroups, Doing
  <2>2. call'[w] = None /\ \A v \in Workers \ {w} : call'[v] = call[v]
    BY <1>11, OthersCalls DEF SweepGroups
  <2>3. /\ joined' = joined
        /\ \A q \in Places : u \in members'[q] <=> (u \in members[q] /\ q \notin todo)
        /\ \A x \in Users \ {u} :
             joined'[x] = joined[x] /\ \A q \in Places : x \in members'[q] <=> x \in members[q]
    BY <1>11, <2>0, WithoutOne DEF SweepGroups, SetMembers
  <2>4. ASSUME NEW q \in Places PROVE Agree(u, q)'
    <3>1. q \in todo \/ Agree(u, q)
      BY <2>0, <2>1, OnlyCaller DEF Half
    <3> QED BY <2>1, <2>3, <3>1 DEF Agree
  <2>5. Doing(w)' /\ call'[w].user \in {u, Nobody}
    BY <1>2, <2>2 DEF Doing
  <2>6. call[w].user \in {u, Nobody}
    BY <2>0
  <2> QED BY <1>0, <2>1, <2>2, <2>3, <2>4, <2>5, <2>6, OthersKeep
<1>12. ASSUME NEW w \in Workers,
              \/ \E e \in Events : BeginRoute(w, e)
              \/ SkipValue(w) \/ ReadPlace(w) \/ EndRoute(w) \/ GetStats(w) \/ NextLock(w)
       PROVE  AgreeInv'
  <2>1. UNCHANGED <<members, joined>>
    BY <1>12 DEF BeginRoute, SkipValue, ReadPlace, EndRoute, GetStats, NextLock, TakeLock
  <2>2. call[w].user = Nobody
    BY <1>2, <1>3, <1>12
    DEF BeginRoute, SkipValue, ReadPlace, AtPlace, EndRoute, GetStats, NextLock, Shape
  <2>3. PICK c : Continue(w, c) /\ c.user = Nobody
    <3>1. \A r : call[w].user = [call[w] EXCEPT !.queue = r].user
      BY <1>3 DEF Calls
    <3>2. \A r, q : call[w].user = [call[w] EXCEPT !.recipients = r, !.queue = q].user
      BY <1>3 DEF Calls
    <3>3. /\ \A n : [None EXCEPT !.op = "stats", !.locks = n].user = Nobody
          /\ \A q, t : [None EXCEPT !.op = "route", !.queue = q, !.tags = t].user = Nobody
      BY DEF None
    <3>4. CASE \E e \in Events : BeginRoute(w, e)
      BY <3>3, <3>4 DEF BeginRoute
    <3>5. CASE SkipValue(w)
      BY <2>2, <3>1, <3>5 DEF SkipValue
    <3>6. CASE ReadPlace(w)
      BY <2>2, <3>2, <3>6 DEF ReadPlace
    <3>7. CASE EndRoute(w)
      BY <1>2, <3>7 DEF EndRoute
    <3>8. CASE GetStats(w) \/ NextLock(w)
      <4>1. TakeLock(w)
        BY <3>8 DEF GetStats, NextLock
      <4> QED BY <1>2, <3>3, <4>1 DEF TakeLock
    <3> QED BY <1>12, <3>4, <3>5, <3>6, <3>7, <3>8
  <2>4. call'[w].user = Nobody /\ \A v \in Workers \ {w} : call'[v] = call[v]
    BY <2>3, OthersCalls
  <2> QED BY <1>0, <2>1, <2>2, <2>4, AgreeUndisturbed
<1>13. CASE UNCHANGED vars
  BY <1>13 DEF vars, AgreeInv, Doing, Half, Agree
<1> QED BY <1>4, <1>5, <1>6, <1>7, <1>8, <1>9, <1>10, <1>11, <1>12, <1>13
        DEF Next, Enter, Proceed

LEMMA AgreeInvariant ==
  ASSUME OneCallerPerUser
  PROVE  Spec => []AgreeInv
<1>1. Init => AgreeInv
  BY CommunityHandlerAssumption DEF Init, AgreeInv, Doing, Agree, None
<1>2. TypeInv /\ AgreeInv /\ [Next]_vars => AgreeInv'
  BY AgreeInductive
<1> QED BY <1>1, <1>2, TypesInvariant, PTL DEF Spec

(* Where one worker changes a user's memberships, the maps by place and by *)
(* user agree wherever no call is in the middle of them.                   *)
THEOREM AgreementCorrect ==
  ASSUME OneCallerPerUser
  PROVE  Spec => []MapsAgree
<1>1. AgreeInv => MapsAgree
  BY DEF AgreeInv, MapsAgree, HalfDone, Half, Agree
<1> QED BY <1>1, AgreeInvariant, PTL

(* The step that ends a clean-up.                                          *)
LEMMA CleanupStep ==
  ASSUME OneCallerPerUser, TypeInv, AgreeInv, TypeInv', AgreeInv', [Next]_vars,
         NEW w \in Workers, call[w].op \in {"cleanup", "sweep"}, call'[w].op = "none"
  PROVE  /\ joined'[call[w].user] = {}
         /\ \A p \in Places : call[w].user \notin members'[p]
<1> USE CommunityHandlerAssumption
<1>1. PICK u \in Users : u = call[w].user
  BY DEF TypeInv, Shaped, Shape
<1>2. w \in Callers[u] /\ Doing(w) /\ call'[w] = None
  BY <1>1 DEF TypeInv, Shaped, Shape, AgreeInv, Doing
<1>3. PICK v \in Workers, c \in Calls : (Enter(v) \/ Proceed(v)) /\ Continue(v, c)
  <2>1. Next
    BY DEF vars
  <2> QED BY <2>1, EnterTypes, ProceedTypes DEF Next, CallStep
<1>4. v = w
  BY <1>3, OthersCalls
<1>5. (TakeGroups(w) /\ joined[u] \cap Groups = {}) \/ SweepGroups(w)
  <2>1. call[w] \in Calls
    BY DEF TypeInv, TypeOK
  <2>2. /\ \A p : [call[w] EXCEPT !.op = "leave", !.place = p, !.todo = @ \ {p}].op # "none"
        /\ \A g : [call[w] EXCEPT !.op = "sweep", !.todo = g].op # "none"
    BY <2>1 DEF Calls
  <2>3. ~Enter(w)
    BY DEF Enter, Cleanup, Add, Remove, BeginRoute, GetStats
  <2>4. ASSUME NEW p \in Communities, LeaveCommunity(w, p) PROVE FALSE
    BY <2>2, <2>4, OthersCalls DEF LeaveCommunity
  <2>5. TakeGroups(w) \/ SweepGroups(w)
    BY <1>3, <1>4, <2>3, <2>4
    DEF Proceed, AddSecond, RemoveSecond, LeaveSecond, SkipValue, ReadPlace, AtPlace,
        EndRoute, NextLock
  <2>6. CASE TakeGroups(w)
    <3>1. PICK g : g = joined[u] \cap Groups
      OBVIOUS
    <3>2. Continue(w, IF g = {} THEN None ELSE [call[w] EXCEPT !.op = "sweep", !.todo = g])
      BY <1>1, <2>6, <3>1 DEF TakeGroups
    <3>3. g = {}
      BY <2>2, <3>2, OthersCalls
    <3> QED BY <2>6, <3>1, <3>3
  <2> QED BY <2>5, <2>6
<1>6. joined'[u] = {}
  <2>1. CASE TakeGroups(w) /\ joined[u] \cap Groups = {}
    <3>1. joined[u] \cap Communities = {} /\ joined[u] \subseteq Communities \cup Groups
      BY <1>1, <1>2, <2>1 DEF TakeGroups, Doing, TypeInv, TypeOK, Places
    <3>2. joined'[u] = joined[u] \ (joined[u] \cap Groups)
      BY <1>1, <2>1 DEF TakeGroups, SetJoined, TypeInv, TypeOK
    <3> QED BY <2>1, <3>1, <3>2
  <2>2. CASE SweepGroups(w)
    BY <1>1, <1>2, <2>2 DEF SweepGroups, SetMembers, Doing
  <2> QED BY <1>5, <2>1, <2>2
<1>7. ASSUME NEW p \in Places PROVE u \notin members'[p]
  <2>1. ASSUME NEW x \in Workers PROVE ~Half(x, u, p)'
    <3>1. CASE x = w
      BY <1>2, <3>1 DEF Half, None
    <3>2. CASE x # w
      <4>1. call'[x].user = u => x \in Callers[u]
        BY DEF AgreeInv, Doing
      <4> QED BY <1>2, <3>2, <4>1 DEF Half, OneCallerPerUser
    <3> QED BY <3>1, <3>2
  <2> QED BY <1>6, <2>1 DEF AgreeInv, Agree
<1> QED BY <1>1, <1>6, <1>7

(* Where one worker changes a user's memberships, a clean-up that returns  *)
(* has left the user in no place.                                          *)
THEOREM CleanupCorrect ==
  ASSUME OneCallerPerUser
  PROVE  Spec => CleanupLeavesNothing
<1> DEFINE Leaves ==
      \A w \in Workers :
        call[w].op \in {"cleanup", "sweep"} /\ call'[w].op = "none" =>
          /\ joined'[call[w].user] = {}
          /\ \A p \in Places : call[w].user \notin members'[p]
<1>1. TypeInv /\ AgreeInv /\ TypeInv' /\ AgreeInv' /\ [Next]_vars => Leaves
  BY CleanupStep
<1> QED BY <1>1, TypesInvariant, AgreeInvariant, PTL DEF Spec, CleanupLeavesNothing
=============================================================================
