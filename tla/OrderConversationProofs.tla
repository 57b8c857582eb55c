---------------------- MODULE OrderConversationProofs ----------------------
(***************************************************************************)
(* Proofs that the safety properties of OrderConversation hold for every   *)
(* set of recipients and amounts, any number of updates in progress, of    *)
(* previews and of orders, and every limit.  The Stars of a day are a sum, *)
(* which MapThenSumSet defines by recursion: what is needed of sums over   *)
(* finite sets is proved first, by descent along the strict subsets.       *)
(***************************************************************************)
EXTENDS OrderConversation, FiniteSetTheorems, SequenceTheorems, WellFoundedInduction, TLAPS

-----------------------------------------------------------------------------
(* Sums *)

\* A family of subsets of a finite set that has a smaller one for each is empty.
LEMMA NoDescent ==
  ASSUME NEW S, IsFiniteSet(S), NEW T, T \subseteq SUBSET S,
         \A t \in T : \E u \in T : u \subseteq t /\ u # t
  PROVE  T = {}
<1> SUFFICES ASSUME T # {} PROVE FALSE
  OBVIOUS
<1>1. T \subseteq FiniteSubsetsOf(S)
  BY FS_Subset DEF FiniteSubsetsOf
<1>2. IsWellFoundedOn(StrictSubsetOrdering(S), FiniteSubsetsOf(S))
  BY FS_StrictSubsetOrderingWellFounded
<1>3. PICK t \in T : \A u \in T : ~ (<<u, t>> \in StrictSubsetOrdering(S))
  BY <1>1, <1>2, WFMin
<1> QED
  BY <1>3 DEF StrictSubsetOrdering

First(s) == CHOOSE x \in s : TRUE

\* g is the function that MapThenSumSet iterates over the subsets of S.
Sums(f, S, g) ==
  g = [s \in SUBSET S |-> IF s = {} THEN 0 ELSE f[First(s)] + g[s \ {First(s)}]]

LEMMA TotalDef ==
  ASSUME NEW f, NEW S
  PROVE  Total(f, S) = (CHOOSE g : Sums(f, S, g))[S]
  BY DEF Total, MapThenSumSet, MapThenFoldSet, Sums, First

LEMMA FirstIn ==
  ASSUME NEW s, s # {}
  PROVE  First(s) \in s
  BY DEF First

LEMMA SumsValue ==
  ASSUME NEW f, NEW S, NEW g, Sums(f, S, g), NEW s \in SUBSET S
  PROVE  g[s] = IF s = {} THEN 0 ELSE f[First(s)] + g[s \ {First(s)}]
<1> DEFINE val(t) == IF t = {} THEN 0 ELSE f[First(t)] + g[t \ {First(t)}]
<1>1. g = [t \in SUBSET S |-> val(t)]
  BY DEF Sums
<1> HIDE DEF val
<1>2. g[s] = val(s)
  BY <1>1
<1> QED
  BY <1>2 DEF val

LEMMA SumsTop ==
  ASSUME NEW f, NEW S, NEW g, Sums(f, S, g)
  PROVE  g[S] = IF S = {} THEN 0 ELSE f[First(S)] + g[S \ {First(S)}]
<1>1. S \in SUBSET S
  OBVIOUS
<1> QED
  BY <1>1, SumsValue

LEMMA SumsAgree ==
  ASSUME NEW f, NEW S, IsFiniteSet(S), NEW A \in SUBSET S, NEW B \in SUBSET S,
         NEW g, NEW h, Sums(f, A, g), Sums(f, B, h), NEW s \in SUBSET (A \intersect B)
  PROVE  g[s] = h[s]
<1> DEFINE T == {t \in SUBSET (A \intersect B) : g[t] # h[t]}
<1>1. T \subseteq SUBSET S
  OBVIOUS
<1>2. ASSUME NEW t \in T PROVE \E u \in T : u \subseteq t /\ u # t
  <2>1. t \in SUBSET A /\ t \in SUBSET B
    OBVIOUS
  <2>2. /\ g[t] = IF t = {} THEN 0 ELSE f[First(t)] + g[t \ {First(t)}]
        /\ h[t] = IF t = {} THEN 0 ELSE f[First(t)] + h[t \ {First(t)}]
    BY <2>1, SumsValue
  <2>3. t # {} /\ g[t \ {First(t)}] # h[t \ {First(t)}]
    BY <2>2
  <2>4. t \ {First(t)} \in T /\ t \ {First(t)} # t
    BY <2>1, <2>3, FirstIn
  <2> QED
    BY <2>4
<1>3. T = {}
  <2> HIDE DEF T
  <2> QED
    BY <1>1, <1>2, NoDescent
<1> QED
  BY <1>3

LEMMA SumsExist ==
  ASSUME NEW f, NEW S, IsFiniteSet(S)
  PROVE  \A s \in SUBSET S : \E g : Sums(f, s, g)
<1> DEFINE T == {t \in SUBSET S : ~ \E g : Sums(f, t, g)}
<1>1. T \subseteq SUBSET S
  OBVIOUS
<1>2. ASSUME NEW t \in T PROVE \E u \in T : u \subseteq t /\ u # t
  <2> SUFFICES ASSUME \A u \in SUBSET t : u # t => \E g : Sums(f, u, g)
               PROVE  \E g : Sums(f, t, g)
    OBVIOUS
  <2> DEFINE sum(u) == CHOOSE g : Sums(f, u, g)
  <2>1. \A u \in SUBSET t : u # t => Sums(f, u, sum(u))
    OBVIOUS
  <2> HIDE DEF sum
  <2> DEFINE val(u) == IF u = {} THEN 0 ELSE f[First(u)] + sum(u \ {First(u)})[u \ {First(u)}]
             all == [u \in SUBSET t |-> val(u)]
  <2>2. ASSUME NEW u \in SUBSET t, u # {} PROVE all[u] = f[First(u)] + all[u \ {First(u)}]
    <3> PICK v, w : v = u \ {First(u)} /\ w = v \ {First(v)}
      OBVIOUS
    <3>7. PICK gv, gw : gv = sum(v) /\ gw = sum(w)
      OBVIOUS
    <3>1. v \in SUBSET t /\ v # t /\ First(u) \in u
      BY <2>2, FirstIn
    <3>2. all[u] = f[First(u)] + gv[v] /\ all[v] = IF v = {} THEN 0 ELSE f[First(v)] + gw[w]
      BY <2>2, <3>1, <3>7
    <3>3. w \in SUBSET t /\ w # t /\ w \in SUBSET (v \intersect w)
      BY <3>1
    <3>4. Sums(f, v, gv) /\ Sums(f, w, gw)
      BY <2>1, <3>1, <3>3, <3>7
    <3>5. gv[v] = IF v = {} THEN 0 ELSE f[First(v)] + gv[w]
      BY ZenonT(60), <3>4, SumsTop
    <3>6. gv[w] = gw[w]
      <4>1. v \in SUBSET S /\ w \in SUBSET S
        BY <3>1, <3>3, <1>1
      <4> QED
        BY <3>3, <3>4, <4>1, SumsAgree
    <3> QED
      BY <3>2, <3>5, <3>6
  <2>3. all[{}] = 0
    OBVIOUS
  <2>4. all = [u \in SUBSET t |-> IF u = {} THEN 0 ELSE f[First(u)] + all[u \ {First(u)}]]
    <3>1. ASSUME NEW u \in SUBSET t
          PROVE  val(u) = IF u = {} THEN 0 ELSE f[First(u)] + all[u \ {First(u)}]
      BY <2>2, <2>3
    <3> QED
      BY <3>1
  <2> HIDE DEF all
  <2>5. Sums(f, t, all)
    BY <2>4 DEF Sums
  <2> QED
    BY <2>5
<1>3. T = {}
  <2> HIDE DEF T
  <2> QED
    BY <1>1, <1>2, NoDescent
<1> QED
  BY <1>3

\* Of the sum of no element, and of one more.
LEMMA TotalStep ==
  ASSUME NEW f, NEW S, IsFiniteSet(S), NEW s \in SUBSET S
  PROVE  Total(f, s) = IF s = {} THEN 0 ELSE f[First(s)] + Total(f, s \ {First(s)})
<1> PICK v : v = s \ {First(s)}
  OBVIOUS
<1> DEFINE sum(u) == CHOOSE g : Sums(f, u, g)
<1>1. Sums(f, s, sum(s)) /\ Sums(f, v, sum(v))
  BY SumsExist
<1>2. Total(f, s) = sum(s)[s] /\ Total(f, v) = sum(v)[v]
  BY TotalDef
<1> HIDE DEF sum
<1>3. sum(s)[s] = IF s = {} THEN 0 ELSE f[First(s)] + sum(s)[v]
  BY <1>1, SumsValue
<1>4. sum(s)[v] = sum(v)[v]
  BY <1>1, SumsAgree
<1> QED
  BY <1>2, <1>3, <1>4

\* Sums of naturals are naturals.
LEMMA TotalNat ==
  ASSUME NEW f, NEW S, IsFiniteSet(S), \A i \in S : f[i] \in Nat
  PROVE  \A s \in SUBSET S : Total(f, s) \in Nat
<1> DEFINE T == {t \in SUBSET S : Total(f, t) \notin Nat}
<1>1. ASSUME NEW t \in T PROVE \E u \in T : u \subseteq t /\ u # t
  <2> PICK u : u = t \ {First(t)}
    OBVIOUS
  <2>1. t \in SUBSET S /\ Total(f, t) \notin Nat
    OBVIOUS
  <2>2. Total(f, t) = IF t = {} THEN 0 ELSE f[First(t)] + Total(f, u)
    BY <2>1, TotalStep
  <2>3. t # {}
    BY <2>1, <2>2
  <2>4. First(t) \in t /\ f[First(t)] \in Nat
    BY <2>1, <2>3, FirstIn
  <2>5. Total(f, u) \notin Nat
    BY <2>1, <2>2, <2>3, <2>4
  <2> QED
    BY <2>1, <2>4, <2>5
<1>2. T \subseteq SUBSET S
  OBVIOUS
<1>3. T = {}
  <2> HIDE DEF T
  <2> QED
    BY <1>1, <1>2, NoDescent
<1> QED
  BY <1>3

\* Any element may be taken out of a sum first.
LEMMA TotalRemove ==
  ASSUME NEW f, NEW S, IsFiniteSet(S), \A i \in S : f[i] \in Nat
  PROVE  \A s \in SUBSET S : \A x \in s : Total(f, s) = f[x] + Total(f, s \ {x})
<1> DEFINE T == {t \in SUBSET S : \E x \in t : Total(f, t) # f[x] + Total(f, t \ {x})}
<1>1. ASSUME NEW t \in T PROVE \E u \in T : u \subseteq t /\ u # t
  <2> SUFFICES ASSUME \A u \in SUBSET t : u # t => \A z \in u : Total(f, u) = f[z] + Total(f, u \ {z}),
                      NEW x \in t
               PROVE  Total(f, t) = f[x] + Total(f, t \ {x})
    OBVIOUS
  <2> PICK y, tx, ty, v : y = First(t) /\ tx = t \ {x} /\ ty = t \ {y} /\ v = t \ {x, y}
    OBVIOUS
  <2>1. t \in SUBSET S /\ y \in t
    BY FirstIn
  <2>2. Total(f, t) = f[y] + Total(f, ty)
    BY <2>1, TotalStep
  <2>3. CASE x = y
    BY <2>2, <2>3
  <2>4. CASE x # y
    <3>1. tx \in SUBSET t /\ tx # t /\ y \in tx /\ ty \in SUBSET t /\ ty # t /\ x \in ty
      BY <2>1, <2>4
    <3>2. tx \ {y} = v /\ ty \ {x} = v
      OBVIOUS
    <3>3. Total(f, tx) = f[y] + Total(f, v) /\ Total(f, ty) = f[x] + Total(f, v)
      BY <3>1, <3>2
    <3>4. v \in SUBSET S /\ f[x] \in Nat /\ f[y] \in Nat
      BY <2>1
    <3>5. Total(f, v) \in Nat
      BY <3>4, TotalNat
    <3>6. Total(f, t) = f[x] + Total(f, tx)
      BY <2>2, <3>3, <3>4, <3>5
    <3> QED
      BY <3>6
  <2> QED
    BY <2>3, <2>4
<1>2. T \subseteq SUBSET S
  OBVIOUS
<1>3. T = {}
  <2> HIDE DEF T
  <2> QED
    BY <1>1, <1>2, NoDescent
<1> QED
  BY <1>3

\* A part has no larger sum.
LEMMA TotalPart ==
  ASSUME NEW f, NEW S, IsFiniteSet(S), \A i \in S : f[i] \in Nat
  PROVE  \A t \in SUBSET S : \A s \in SUBSET t : Total(f, s) <= Total(f, t)
<1> DEFINE T == {t \in SUBSET S : \E s \in SUBSET t : ~ (Total(f, s) <= Total(f, t))}
<1>1. ASSUME NEW t \in T PROVE \E u \in T : u \subseteq t /\ u # t
  <2>1. PICK s \in SUBSET t : ~ (Total(f, s) <= Total(f, t))
    OBVIOUS
  <2>2. t \in SUBSET S /\ s \in SUBSET S
    OBVIOUS
  <2>3. Total(f, s) \in Nat /\ Total(f, t) \in Nat
    BY <2>2, TotalNat
  <2>4. s # t
    BY <2>1, <2>3
  <2>5. PICK x \in t : x \notin s
    BY <2>4
  <2> PICK u : u = t \ {x}
    OBVIOUS
  <2>6. u \in SUBSET S /\ f[x] \in Nat
    BY <2>2
  <2>7. Total(f, t) = f[x] + Total(f, u) /\ Total(f, u) \in Nat
    BY <2>2, <2>6, TotalRemove, TotalNat
  <2>8. ~ (Total(f, s) <= Total(f, u))
    BY <2>1, <2>3, <2>6, <2>7
  <2>9. s \in SUBSET u /\ u \subseteq t /\ u # t
    BY <2>5
  <2> QED
    BY <2>6, <2>8, <2>9
<1>2. T \subseteq SUBSET S
  OBVIOUS
<1>3. T = {}
  <2> HIDE DEF T
  <2> QED
    BY <1>1, <1>2, NoDescent
<1> QED
  BY <1>3

\* Only the values of the elements count.
LEMMA TotalAgree ==
  ASSUME NEW f, NEW g, NEW S, IsFiniteSet(S), \A i \in S : f[i] = g[i]
  PROVE  \A s \in SUBSET S : Total(f, s) = Total(g, s)
<1> DEFINE T == {t \in SUBSET S : Total(f, t) # Total(g, t)}
<1>1. ASSUME NEW t \in T PROVE \E u \in T : u \subseteq t /\ u # t
  <2> PICK u : u = t \ {First(t)}
    OBVIOUS
  <2>1. t \in SUBSET S /\ Total(f, t) # Total(g, t)
    OBVIOUS
  <2>2. /\ Total(f, t) = IF t = {} THEN 0 ELSE f[First(t)] + Total(f, u)
        /\ Total(g, t) = IF t = {} THEN 0 ELSE g[First(t)] + Total(g, u)
    BY <2>1, TotalStep
  <2>3. t # {}
    BY <2>1, <2>2
  <2>4. First(t) \in t /\ f[First(t)] = g[First(t)]
    BY <2>1, <2>3, FirstIn
  <2>5. Total(f, u) # Total(g, u)
    BY <2>1, <2>2, <2>3, <2>4
  <2> QED
    BY <2>1, <2>4, <2>5
<1>2. T \subseteq SUBSET S
  OBVIOUS
<1>3. T = {}
  <2> HIDE DEF T
  <2> QED
    BY <1>1, <1>2, NoDescent
<1> QED
  BY <1>3

\* One more element, the values of the others being the same.
LEMMA TotalAdded ==
  ASSUME NEW f, NEW g, NEW S, IsFiniteSet(S), \A i \in S : f[i] \in Nat /\ g[i] = f[i],
         NEW s \in SUBSET S, NEW n, n \notin S, g[n] \in Nat
  PROVE  Total(g, s \union {n}) = Total(f, s) + g[n]
<1> PICK B, u : B = S \union {n} /\ u = s \union {n}
  OBVIOUS
<1>1. IsFiniteSet(B) /\ \A i \in B : g[i] \in Nat
  BY FS_AddElement
<1>2. u \in SUBSET B /\ n \in u /\ u \ {n} = s
  OBVIOUS
<1>3. Total(g, u) = g[n] + Total(g, u \ {n})
  BY <1>1, <1>2, TotalRemove
<1>4. Total(g, s) = Total(f, s) /\ Total(f, s) \in Nat
  BY TotalAgree, TotalNat
<1> QED
  BY <1>2, <1>3, <1>4

-----------------------------------------------------------------------------
(* The coroutines *)

Places ==
  {"idle", "resolve", "options", "again", "quote", "existing", "lock", "insert", "payment"}

LEMMA IdleType == Idle \in Task /\ NoData \in Data
                    /\ Idle.pc = "idle" /\ NoData.token = NoToken
  BY DEF Idle, NoData, Task, Data, Tokens, NoToken, Kinds

LEMMA StarsNat ==
  ASSUME NEW d \in Data
  PROVE  d.stars \in Nat
<1>1. d.stars \in Amounts \union {0}
  BY DEF Data
<1>2. \A n \in Amounts : n \in Nat
  BY LimitAssumption
<1> QED
  BY <1>1, <1>2

\* What t does to the local states.
LEMMA SetStep ==
  ASSUME TypeOK, NEW t \in Tasks, NEW pc \in Places, NEW d \in Data, Set(t, pc, d)
  PROVE  /\ task' \in [Tasks -> Task]
         /\ task'[t].pc = pc /\ task'[t].data = d
         /\ \A u \in Tasks \ {t} : task'[u] = task[u]
<1>1. [pc |-> pc, data |-> d] \in Task
  BY DEF Task, Places
<1> QED
  BY <1>1 DEF Set, TypeOK

LEMMA DoneStep ==
  ASSUME TypeOK, NEW t \in Tasks, Done(t)
  PROVE  /\ task' \in [Tasks -> Task]
         /\ task'[t].pc = "idle"
         /\ \A u \in Tasks \ {t} : task'[u] = task[u]
  BY IdleType DEF Done, TypeOK

LEMMA AskedType ==
  ASSUME NEW k \in Kinds, NEW s \in Amounts, NEW d \in Data,
         k = "gift" => d.recipient # NoOne
  PROVE  /\ Asked(k, s, d) \in Data
         /\ Asked(k, s, d).recipient \in People /\ Asked(k, s, d).stars \in Amounts
<1>1. (IF k = "self" THEN Buyer ELSE d.recipient) \in People
  BY DEF Kinds, Data, People
<1> QED
  BY <1>1 DEF Asked, Data, NoToken

-----------------------------------------------------------------------------
(* Types *)

LEMMA TaskData ==
  ASSUME TypeOK, NEW t \in Tasks
  PROVE  /\ task[t].data \in Data /\ task[t].data.token \in Tokens \union {NoToken}
         /\ task[t].data.kind \in Kinds /\ task[t].data.stars \in Amounts \union {0}
         /\ task[t].data.recipient \in People \union {NoOne}
  BY DEF TypeOK, Task, Data

\* A new preview leaves the others as they are.
LEMMA ShowsMore ==
  ASSUME TypeOK, NEW q \in Quote, shown' = Append(shown, q)
  PROVE  /\ Len(shown) \in Nat /\ Len(shown') = Len(shown) + 1
         /\ shown'[Len(shown) + 1] = q
         /\ \A n \in 1..Len(shown) : shown'[n] = shown[n]
         /\ shown' \in Seq(Quote)
  BY DEF TypeOK

LEMMA QuotedType ==
  ASSUME TypeOK, NEW t \in Tasks, TaskFits(t), Quoted(t)
  PROVE  LET d == task[t].data IN
         /\ QuoteOf(d) \in Quote /\ [d EXCEPT !.token = Len(shown) + 1] \in Data
         /\ QuoteOf(d).kind = d.kind /\ QuoteOf(d).stars = d.stars
         /\ [d EXCEPT !.token = Len(shown) + 1].token = Len(shown) + 1
         /\ [d EXCEPT !.token = Len(shown) + 1].kind = d.kind
         /\ [d EXCEPT !.token = Len(shown) + 1].stars = d.stars
         /\ [d EXCEPT !.token = Len(shown) + 1].recipient = d.recipient
         /\ d.recipient \in People
<1> PICK d : d = task[t].data
  OBVIOUS
<1>1. d \in Data /\ d.recipient \in People /\ d.stars \in Amounts /\ d.kind \in Kinds
  BY TaskData DEF TaskFits, Quoted
<1>2. Len(shown) \in Nat /\ Len(shown) < MaxQuotes
  BY DEF Quoted, TypeOK
<1>3. Len(shown) + 1 \in Tokens
  BY <1>2, LimitAssumption DEF Tokens
<1>4. QuoteOf(d) \in Quote /\ QuoteOf(d).kind = d.kind /\ QuoteOf(d).stars = d.stars
  BY <1>1 DEF QuoteOf, Quote
<1> QED
  BY <1>1, <1>3, <1>4 DEF Data

-----------------------------------------------------------------------------
(* The initial states *)

LEMMA InvInit == Init => TypeOK /\ Inv
<1> SUFFICES ASSUME Init PROVE TypeOK /\ Inv
  OBVIOUS
<1>1. /\ asking = FALSE /\ data = NoData /\ shown = << >> /\ orders = << >>
      /\ rowLock = NoTask /\ task = [t \in Tasks |-> Idle]
  BY DEF Init
<1>2. /\ shown \in Seq(Quote) /\ Len(shown) = 0 /\ Len(shown) <= MaxQuotes
      /\ orders \in Seq(Order) /\ Len(orders) = 0
  BY <1>1, LimitAssumption
<1>3. task \in [Tasks -> Task] /\ \A t \in Tasks : task[t].pc = "idle"
  BY <1>1, IdleType
<1>4. TypeOK
  BY <1>1, <1>2, <1>3, IdleType DEF TypeOK
<1>5. DataInv
  BY <1>1, IdleType DEF DataInv
<1>6. OrdersInv /\ OneOrderPerPreview
  BY <1>2 DEF OrdersInv, OneOrderPerPreview
<1>7. \A t \in Tasks : TaskFits(t)
  BY <1>3 DEF TaskFits
<1> QED
  BY <1>4, <1>5, <1>6, <1>7 DEF Inv

-----------------------------------------------------------------------------
(* What a step leaves alone *)

ShownStays == \A n \in 1..Len(shown) : n \in 1..Len(shown') /\ shown'[n] = shown[n]

RoomStays == \A s \in Nat : Room(s) => Room(s)'

LEMMA OrdersStay ==
  ASSUME UNCHANGED orders
  PROVE  /\ RoomStays /\ OpenIds' = OpenIds /\ Total(Stars, DayIds)' = Total(Stars, DayIds)
         /\ LimitsHold => LimitsHold'
<1>1. OpenIds' = OpenIds /\ DayIds' = DayIds /\ Stars' = Stars
  BY DEF OpenIds, OpenOrders, DayIds, Stars
<1> QED
  BY <1>1 DEF RoomStays, Room, LimitsHold

LEMMA TaskKept ==
  ASSUME TypeOK, NEW u \in Tasks, TaskFits(u), task'[u] = task[u], ShownStays,
         task[u].pc = "insert" => rowLock' = rowLock /\ RoomStays
  PROVE  TaskFits(u)'
<1> PICK d, pc : d = task[u].data /\ pc = task[u].pc
  OBVIOUS
<1>1. task'[u].data = d /\ task'[u].pc = pc
  OBVIOUS
<1>2. AsShown(d) => AsShown(d)'
  BY DEF AsShown, ShownStays
<1>3. pc = "insert" => rowLock' = u /\ Room(d.stars)'
  <2>1. d.stars \in Nat
    BY TaskData, StarsNat
  <2>2. pc = "insert" => rowLock = u /\ Room(d.stars)
    BY DEF TaskFits
  <2> QED
    BY <2>1, <2>2 DEF RoomStays
<1>4. /\ pc \in {"resolve", "quote"} => d.recipient \in People
      /\ pc = "quote" => d.stars \in Amounts
      /\ pc \in {"again", "existing", "lock", "insert", "payment"} =>
           AsShown(d) /\ d.recipient \in People
      /\ pc \in {"lock", "insert", "payment"} => ~Misdirected(d)
  BY DEF TaskFits
<1> QED
  BY <1>1, <1>2, <1>3, <1>4 DEF TaskFits, AsShown, Misdirected, Room

\* A step of t alone that shows no preview, stores no order and locks nothing.
LEMMA QuietStep ==
  ASSUME TypeOK, Inv, NEW t \in Tasks, task' \in [Tasks -> Task],
         \A u \in Tasks \ {t} : task'[u] = task[u],
         UNCHANGED <<shown, orders, rowLock>>,
         asking' \in BOOLEAN, data' \in Data, DataInv', TaskFits(t)'
  PROVE  TypeOK' /\ Inv'
<1>1. TypeOK'
  BY DEF TypeOK
<1>2. OrdersInv' /\ OneOrderPerPreview'
  BY DEF Inv, OrdersInv, OneOrderPerPreview, AsShown, Misdirected
<1>3. RoomStays /\ ShownStays
  BY OrdersStay DEF ShownStays
<1>4. ASSUME NEW u \in Tasks, u # t PROVE TaskFits(u)'
  <2>1. TaskFits(u)
    BY DEF Inv
  <2> QED
    BY <1>3, <1>4, <2>1, TaskKept
<1> QED
  BY <1>1, <1>2, <1>4 DEF Inv

\* ... and leaves the data of the conversation.
LEMMA DataKept ==
  ASSUME DataInv, UNCHANGED <<data, shown>>
  PROVE  DataInv'
  BY DEF DataInv, AsShown

LEMMA DataCleared ==
  ASSUME data' = NoData
  PROVE  data' \in Data /\ DataInv'
  BY IdleType DEF DataInv

\* A step of the menus that moves no coroutine.
LEMMA MenuStep ==
  ASSUME TypeOK, Inv, UNCHANGED <<shown, orders, rowLock, task>>,
         asking' \in BOOLEAN, data' \in Data, DataInv'
  PROVE  TypeOK' /\ Inv'
<1>1. TypeOK'
  BY DEF TypeOK
<1>2. OrdersInv' /\ OneOrderPerPreview'
  BY DEF Inv, OrdersInv, OneOrderPerPreview, AsShown, Misdirected
<1>3. RoomStays /\ ShownStays
  BY OrdersStay DEF ShownStays
<1>4. ASSUME NEW u \in Tasks PROVE TaskFits(u)'
  <2>1. TaskFits(u)
    BY DEF Inv
  <2> QED
    BY <1>3, <2>1, TaskKept
<1> QED
  BY <1>1, <1>2, <1>4 DEF Inv

\* A coroutine that ends, or goes on to a place with data that fit there.
LEMMA EndsFit ==
  ASSUME NEW t \in Tasks, task'[t].pc \in {"idle", "options"}
  PROVE  TaskFits(t)'
  BY DEF TaskFits

\* A step of the conversation that takes fitting data along.
LEMMA GoesOn ==
  ASSUME TypeOK, Inv, NEW t \in Tasks, NEW pc \in Places \ {"insert"}, NEW d \in Data,
         Set(t, pc, d), UNCHANGED <<data, shown, orders, rowLock>>, asking' \in BOOLEAN,
         pc \in {"resolve", "quote"} => d.recipient \in People,
         pc = "quote" => d.stars \in Amounts,
         pc \in {"again", "existing", "lock", "payment"} => AsShown(d) /\ d.recipient \in People,
         pc \in {"lock", "payment"} => ~Misdirected(d)
  PROVE  TypeOK' /\ Inv'
<1>1. /\ task' \in [Tasks -> Task] /\ task'[t].pc = pc /\ task'[t].data = d
      /\ \A u \in Tasks \ {t} : task'[u] = task[u]
  BY SetStep
<1>2. TaskFits(t)'
  BY <1>1 DEF TaskFits, AsShown, Misdirected
<1>3. data' \in Data /\ DataInv'
  BY DataKept DEF Inv, TypeOK
<1> QED
  BY <1>1, <1>2, <1>3, QuietStep

LEMMA Ends ==
  ASSUME TypeOK, Inv, NEW t \in Tasks, Done(t),
         UNCHANGED <<data, shown, orders, rowLock>>, asking' \in BOOLEAN
  PROVE  TypeOK' /\ Inv'
<1>1. /\ task' \in [Tasks -> Task] /\ task'[t].pc = "idle"
      /\ \A u \in Tasks \ {t} : task'[u] = task[u]
  BY DoneStep
<1>2. data' \in Data /\ DataInv'
  BY DataKept DEF Inv, TypeOK
<1> QED
  BY <1>1, <1>2, EndsFit, QuietStep

-----------------------------------------------------------------------------
(* The menus and the preview *)

LEMMA ResolveBegins ==
  ASSUME TypeOK, Inv, NEW t \in Tasks, BeginResolve(t)
  PROVE  TypeOK' /\ Inv'
<1>1. PICK r \in People : Set(t, "resolve", [NoData EXCEPT !.recipient = r])
  BY DEF BeginResolve
<1>2. [NoData EXCEPT !.recipient = r] \in Data /\ [NoData EXCEPT !.recipient = r].recipient = r
  BY IdleType DEF Data
<1>3. "resolve" \in Places \ {"insert"} /\ asking' \in BOOLEAN
       /\ UNCHANGED <<data, shown, orders, rowLock>>
  BY DEF Places, BeginResolve, TypeOK
<1> QED
  BY <1>1, <1>2, <1>3, GoesOn

LEMMA ResolveEnds ==
  ASSUME TypeOK, Inv, NEW t \in Tasks, Resolved(t)
  PROVE  TypeOK' /\ Inv'
<1> PICK r : r = task[t].data.recipient
  OBVIOUS
<1> DEFINE new == [data EXCEPT !.recipient = r]
<1>1. r \in People
  BY DEF Resolved, Inv, TaskFits
<1>2. data' = new /\ data \in Data
  BY DEF Resolved, TypeOK
<1>3. new \in Data /\ new.token = data.token /\ new.kind = data.kind
       /\ new.stars = data.stars /\ new.recipient = r
  BY <1>1, <1>2 DEF Data
<1> HIDE DEF new
<1>4. DataInv'
  BY <1>1, <1>2, <1>3 DEF Inv, DataInv, AsShown, Resolved
<1>5. /\ task' \in [Tasks -> Task] /\ task'[t].pc = "options"
      /\ \A u \in Tasks \ {t} : task'[u] = task[u]
  <2>1. "options" \in Places
    BY DEF Places
  <2> QED
    BY <2>1, SetStep, IdleType DEF Resolved
<1>6. UNCHANGED <<shown, orders, rowLock>> /\ asking' \in BOOLEAN
  BY DEF Resolved, TypeOK
<1> QED
  BY <1>2, <1>3, <1>4, <1>5, <1>6, EndsFit, QuietStep

LEMMA QuoteBegins ==
  ASSUME TypeOK, Inv, NEW t \in Tasks, NEW k \in Kinds, NEW s \in Amounts, BeginQuote(t, k, s)
  PROVE  TypeOK' /\ Inv'
<1>1. /\ Asked(k, s, data) \in Data
      /\ Asked(k, s, data).recipient \in People /\ Asked(k, s, data).stars \in Amounts
  BY AskedType DEF BeginQuote, TypeOK
<1>2. "quote" \in Places \ {"insert"} /\ asking' \in BOOLEAN
  BY DEF Places, BeginQuote, TypeOK
<1> QED
  BY <1>1, <1>2, GoesOn DEF BeginQuote

LEMMA QuotedAgain ==
  ASSUME TypeOK, Inv, NEW t \in Tasks, QuoteAgain(t)
  PROVE  TypeOK' /\ Inv'
<1> PICK d : d = task[t].data
  OBVIOUS
<1>1. d \in Data /\ d.kind \in Kinds
  BY TaskData
<1>2. AsShown(d)
  BY DEF QuoteAgain, Inv, TaskFits
<1>3. d.stars \in Amounts
  <2>1. shown[d.token] \in Quote
    BY <1>2, ElementOfSeq DEF AsShown, TypeOK
  <2> QED
    BY <1>2, <2>1 DEF AsShown, Quote
<1>4. (d.kind = "gift" => data.recipient # NoOne) /\ data \in Data
  BY DEF QuoteAgain, TypeOK
<1> PICK k, s : k = d.kind /\ s = d.stars
  OBVIOUS
<1>5. /\ Asked(k, s, data) \in Data
      /\ Asked(k, s, data).recipient \in People /\ Asked(k, s, data).stars \in Amounts
  BY <1>1, <1>3, <1>4, AskedType
<1>6. /\ "quote" \in Places \ {"insert"} /\ asking' \in BOOLEAN
      /\ Set(t, "quote", Asked(k, s, data)) /\ UNCHANGED <<data, shown, orders, rowLock>>
  BY DEF Places, QuoteAgain, TypeOK
<1> QED
  BY <1>5, <1>6, GoesOn

LEMMA Confirmed ==
  ASSUME TypeOK, Inv, NEW t \in Tasks, NEW n \in Tokens, Confirm(t, n)
  PROVE  TypeOK' /\ Inv'
<1>1. data.token = n /\ n # NoToken /\ data \in Data
  BY DEF Confirm, Current, Tokens, NoToken, TypeOK
<1>2. AsShown(data) /\ data.recipient \in People
  BY <1>1 DEF Inv, DataInv
<1>3. [data EXCEPT !.token = n] = data
  BY <1>1 DEF Data
<1>4. Set(t, "existing", data) \/ Set(t, "again", data)
  BY <1>3 DEF Confirm
<1>5. {"existing", "again"} \subseteq Places \ {"insert"} /\ asking' \in BOOLEAN
       /\ UNCHANGED <<data, shown, orders, rowLock>>
  BY DEF Places, Confirm, TypeOK
<1> QED
  BY <1>1, <1>2, <1>4, <1>5, GoesOn

LEMMA QuoteShown ==
  ASSUME TypeOK, Inv, NEW t \in Tasks, Quoted(t)
  PROVE  TypeOK' /\ Inv'
<1> PICK d, q, new : d = task[t].data /\ q = QuoteOf(d) /\ new = [d EXCEPT !.token = Len(shown) + 1]
  OBVIOUS
<1>1. /\ q \in Quote /\ new \in Data /\ q.kind = d.kind /\ q.stars = d.stars
      /\ new.token = Len(shown) + 1 /\ new.kind = d.kind /\ new.stars = d.stars
      /\ new.recipient = d.recipient /\ d.recipient \in People
  BY QuotedType DEF Inv
<1>2. /\ shown' = Append(shown, q) /\ data' = new /\ asking' = FALSE /\ Done(t)
      /\ UNCHANGED <<orders, rowLock>> /\ Len(shown) < MaxQuotes
  BY DEF Quoted
<1>3. /\ Len(shown) \in Nat /\ Len(shown') = Len(shown) + 1 /\ shown'[Len(shown) + 1] = q
      /\ \A n \in 1..Len(shown) : shown'[n] = shown[n]
      /\ shown' \in Seq(Quote)
  BY <1>1, <1>2, ShowsMore
<1>4. ShownStays
  BY <1>3 DEF ShownStays
<1>5. /\ task' \in [Tasks -> Task] /\ task'[t].pc = "idle"
      /\ \A u \in Tasks \ {t} : task'[u] = task[u]
  BY <1>2, DoneStep
<1>6. TypeOK'
  <2>1. Len(shown') <= MaxQuotes
    BY <1>2, <1>3, LimitAssumption
  <2> QED
    BY <1>1, <1>2, <1>3, <1>5, <2>1 DEF TypeOK
<1>7. DataInv'
  <2>1. new.token \in 1..Len(shown')
    BY <1>1, <1>3
  <2> QED
    BY <1>1, <1>2, <1>3, <2>1 DEF DataInv, AsShown
<1>8. OrdersInv' /\ OneOrderPerPreview'
  BY <1>2, <1>4 DEF Inv, OrdersInv, OneOrderPerPreview, AsShown, Misdirected, ShownStays
<1>9. ASSUME NEW u \in Tasks, u # t PROVE TaskFits(u)'
  <2>1. TaskFits(u)
    BY DEF Inv
  <2> QED
    BY <1>2, <1>4, <1>5, <1>9, <2>1, OrdersStay, TaskKept
<1> QED
  BY <1>5, <1>6, <1>7, <1>8, <1>9, EndsFit DEF Inv

-----------------------------------------------------------------------------
(* The order *)

LEMMA LooksForOrder ==
  ASSUME TypeOK, Inv, NEW t \in Tasks, LookForOrder(t)
  PROVE  TypeOK' /\ Inv'
<1> PICK d, pc : d = task[t].data /\ pc = IF Exists(d) THEN "payment" ELSE "lock"
  OBVIOUS
<1>1. d \in Data /\ AsShown(d) /\ d.recipient \in People /\ ~Misdirected(d)
  BY TaskData DEF LookForOrder, Inv, TaskFits
<1>2. /\ Set(t, pc, d) /\ UNCHANGED <<data, shown, orders, rowLock>>
      /\ asking' \in BOOLEAN /\ pc \in {"payment", "lock"}
  BY DEF LookForOrder, TypeOK
<1>3. {"payment", "lock"} \subseteq Places \ {"insert"}
  BY DEF Places
<1> QED
  BY <1>1, <1>2, <1>3, GoesOn

LEMMA OrderIds ==
  ASSUME TypeOK
  PROVE  /\ Len(orders) \in Nat /\ IsFiniteSet(1..Len(orders))
         /\ \A i \in 1..Len(orders) : Stars[i] = orders[i].stars /\ Stars[i] \in Nat
         /\ DayIds \subseteq 1..Len(orders) /\ Total(Stars, DayIds) \in Nat
<1>1. Len(orders) \in Nat /\ IsFiniteSet(1..Len(orders))
  BY FS_Interval DEF TypeOK
<1>2. ASSUME NEW i \in 1..Len(orders)
      PROVE  Stars[i] = orders[i].stars /\ Stars[i] \in Nat
  <2>1. orders[i] \in Order
    BY ElementOfSeq DEF TypeOK
  <2> QED
    BY <2>1, LimitAssumption DEF Stars, Order
<1>3. DayIds \subseteq 1..Len(orders)
  BY DEF DayIds
<1>4. Total(Stars, DayIds) \in Nat
  BY <1>1, <1>2, <1>3, TotalNat
<1> QED
  BY <1>1, <1>2, <1>3, <1>4

LEMMA OpenFinite ==
  ASSUME TypeOK
  PROVE  /\ IsFiniteSet(OpenIds) /\ Cardinality(OpenIds) \in Nat
         /\ Cardinality(OpenIds) <= Cardinality(OpenOrders)
         /\ Cardinality(OpenOrders) \in Nat
<1>1. IsFiniteSet(1..Len(orders))
  <2>1. Len(orders) \in Nat
    BY DEF TypeOK
  <2> QED
    BY <2>1, FS_Interval
<1>2. OpenIds \subseteq OpenOrders /\ OpenOrders \subseteq 1..Len(orders)
  BY DEF OpenIds, OpenOrders
<1>3. IsFiniteSet(OpenOrders) /\ IsFiniteSet(OpenIds)
  BY <1>1, <1>2, FS_Subset
<1> QED
  BY <1>2, <1>3, FS_Subset, FS_CardinalityType

\* The limits are counted by the coroutine that takes the row of the buyer.
LEMMA LocksAndCounts ==
  ASSUME TypeOK, Inv, NEW t \in Tasks, LockAndCount(t)
  PROVE  TypeOK' /\ Inv'
<1>1. CASE ~WithinLimits(task[t].data)
  BY <1>1, Ends DEF LockAndCount, TypeOK
<1>2. CASE WithinLimits(task[t].data)
  <2> PICK d : d = task[t].data
    OBVIOUS
  <2>1. d \in Data /\ AsShown(d) /\ d.recipient \in People /\ ~Misdirected(d)
    BY TaskData DEF LockAndCount, Inv, TaskFits
  <2>2. /\ rowLock = NoTask /\ rowLock' = t /\ Set(t, "insert", d)
        /\ UNCHANGED <<asking, data, shown, orders>>
    BY <1>2 DEF LockAndCount, RowFree
  <2>3. "insert" \in Places
    BY DEF Places
  <2>4. /\ task' \in [Tasks -> Task] /\ task'[t].pc = "insert" /\ task'[t].data = d
        /\ \A u \in Tasks \ {t} : task'[u] = task[u]
    BY <2>1, <2>2, <2>3, SetStep
  <2>5. Room(d.stars)
    <3>1. Cardinality(OpenOrders) < MaxOpen /\ DailyStars + d.stars <= DailyLimit
      BY <1>2 DEF WithinLimits
    <3>2. Cardinality(OpenIds) < MaxOpen
      BY <3>1, OpenFinite, LimitAssumption
    <3>3. Total(Stars, DayIds) <= DailyStars /\ DailyStars \in Nat
      <4> PICK counted : counted = {i \in 1..Len(orders) : orders[i].counted}
        OBVIOUS
      <4>1. DailyStars = Total(Stars, counted) /\ counted \in SUBSET (1..Len(orders))
            /\ DayIds \in SUBSET counted
        BY DEF DailyStars, DayIds
      <4> QED
        BY <4>1, OrderIds, TotalPart, TotalNat
    <3>4. d.stars \in Nat
      BY <2>1, StarsNat
    <3>5. Total(Stars, DayIds) + d.stars <= DailyLimit
      BY <3>1, <3>3, <3>4, OrderIds, LimitAssumption
    <3> QED
      BY <3>2, <3>5 DEF Room
  <2>6. RoomStays /\ ShownStays
    BY <2>2, OrdersStay DEF ShownStays
  <2>7. TaskFits(t)'
    <3>1. d.stars \in Nat
      BY <2>1, StarsNat
    <3>2. Room(d.stars)'
      BY <2>5, <2>6, <3>1 DEF RoomStays
    <3> QED
      BY <2>1, <2>2, <2>4, <3>2 DEF TaskFits, AsShown, Misdirected, Room
  <2>8. ASSUME NEW u \in Tasks, u # t PROVE TaskFits(u)'
    <3>1. TaskFits(u) /\ task[u].pc # "insert"
      BY <2>2, TaskAssumption DEF Inv, TaskFits
    <3> QED
      BY <2>4, <2>6, <2>8, <3>1, TaskKept
  <2>9. TypeOK' /\ DataInv'
    BY <2>2, <2>4, DataKept DEF TypeOK, Inv
  <2>10. OrdersInv' /\ OneOrderPerPreview'
    BY <2>2 DEF Inv, OrdersInv, OneOrderPerPreview, AsShown, Misdirected
  <2> QED
    BY <2>7, <2>8, <2>9, <2>10 DEF Inv
<1> QED
  BY <1>1, <1>2

\* What a new order adds.
LEMMA NewOrderFits ==
  ASSUME TypeOK, NEW d \in Data, AsShown(d), d.recipient \in People
  PROVE  /\ NewOrder(d) \in Order
         /\ NewOrder(d).open = TRUE /\ NewOrder(d).counted = TRUE /\ NewOrder(d).late = FALSE
         /\ NewOrder(d).token = d.token /\ NewOrder(d).kind = d.kind
         /\ NewOrder(d).stars = d.stars /\ NewOrder(d).recipient = d.recipient
<1>1. d.token \in Tokens /\ d.kind \in Kinds
  BY LimitAssumption DEF AsShown, TypeOK, Data, Tokens
<1>2. shown[d.token] \in Quote
  BY ElementOfSeq DEF AsShown, TypeOK
<1>3. d.stars \in Amounts
  BY <1>2 DEF AsShown, Quote
<1> QED
  BY <1>1, <1>3 DEF NewOrder, Order

LEMMA OrderAdded ==
  ASSUME TypeOK, NEW r \in Order, r.open = TRUE, r.counted = TRUE, r.late = FALSE,
         orders' = Append(orders, r)
  PROVE  /\ Len(orders) \in Nat /\ Len(orders') = Len(orders) + 1
         /\ orders' \in Seq(Order) /\ orders'[Len(orders) + 1] = r
         /\ \A i \in 1..Len(orders) : orders'[i] = orders[i]
         /\ OpenIds' = OpenIds \union {Len(orders) + 1}
         /\ Cardinality(OpenIds') <= Cardinality(OpenIds) + 1
         /\ Cardinality(OpenIds') \in Nat
         /\ Total(Stars, DayIds)' = Total(Stars, DayIds) + r.stars
<1>1. /\ Len(orders) \in Nat /\ Len(orders') = Len(orders) + 1
      /\ orders' \in Seq(Order) /\ orders'[Len(orders) + 1] = r
      /\ \A i \in 1..Len(orders) : orders'[i] = orders[i]
  BY DEF TypeOK
<1>2. 1..Len(orders') = (1..Len(orders)) \union {Len(orders) + 1}
  BY <1>1
<1>3. OpenIds' = OpenIds \union {Len(orders) + 1}
  BY <1>1, <1>2 DEF OpenIds, OpenOrders
<1>4. /\ Cardinality(OpenIds \union {Len(orders) + 1}) = Cardinality(OpenIds)
           \/ Cardinality(OpenIds \union {Len(orders) + 1}) = Cardinality(OpenIds) + 1
      /\ Cardinality(OpenIds) \in Nat
  BY OpenFinite, FS_AddElement
<1>5. Total(Stars, DayIds)' = Total(Stars, DayIds) + r.stars
  <2>1. PICK n, B, old, new : n = Len(orders) + 1 /\ B = 1..Len(orders) /\ old = Stars /\ new = Stars'
    OBVIOUS
  <2>2. DayIds' = DayIds \union {n} /\ DayIds \in SUBSET B /\ n \notin B
    BY <1>1, <1>2, <2>1 DEF DayIds
  <2>3. new[n] = r.stars /\ \A i \in B : new[i] = old[i]
    BY <1>1, <1>2, <2>1 DEF Stars
  <2>4. r.stars \in Amounts
    BY DEF Order
  <2>5. new[n] \in Nat /\ IsFiniteSet(B) /\ \A i \in B : old[i] \in Nat
    BY <2>1, <2>3, <2>4, OrderIds, LimitAssumption
  <2>6. Total(new, DayIds \union {n}) = Total(old, DayIds) + new[n]
    BY <2>2, <2>3, <2>5, TotalAdded
  <2> QED
    BY <2>1, <2>2, <2>3, <2>6
<1> QED
  BY <1>1, <1>3, <1>4, <1>5

\* Of two orders of one preview with the same recipient the second is not stored.
LEMMA Inserts ==
  ASSUME TypeOK, Inv, NEW t \in Tasks, Insert(t)
  PROVE  TypeOK' /\ Inv' /\ (LimitsHold => LimitsHold')
<1> PICK d : d = task[t].data
  OBVIOUS
<1>1. /\ d \in Data /\ AsShown(d) /\ d.recipient \in People /\ ~Misdirected(d)
      /\ rowLock = t /\ Room(d.stars)
  BY TaskData DEF Insert, Inv, TaskFits
<1>2. /\ task[t].pc = "insert" /\ rowLock' = NoTask /\ Set(t, "payment", d)
      /\ UNCHANGED <<asking, data, shown>>
      /\ orders' = IF Exists(d) THEN orders ELSE Append(orders, NewOrder(d))
  BY DEF Insert
<1>3. "payment" \in Places
  BY DEF Places
<1>4. /\ task' \in [Tasks -> Task] /\ task'[t].pc = "payment" /\ task'[t].data = d
      /\ \A u \in Tasks \ {t} : task'[u] = task[u]
  BY <1>1, <1>2, <1>3, SetStep
<1>5. TaskFits(t)'
  BY <1>1, <1>2, <1>4 DEF TaskFits, AsShown, Misdirected
<1>6. ASSUME NEW u \in Tasks, u # t PROVE TaskFits(u)'
  <2>1. TaskFits(u) /\ task[u].pc # "insert"
    BY <1>1, <1>6 DEF Inv, TaskFits
  <2>2. ShownStays
    BY <1>2 DEF ShownStays
  <2> QED
    BY <1>4, <1>6, <2>1, <2>2, TaskKept
<1>7. DataInv'
  BY <1>2, DataKept DEF Inv
<1>8. CASE Exists(d)
  <2>1. OrdersInv' /\ OneOrderPerPreview'
    BY <1>2, <1>8 DEF Inv, OrdersInv, OneOrderPerPreview, AsShown, Misdirected
  <2>2. TypeOK'
    BY <1>2, <1>4, <1>8 DEF TypeOK
  <2>3. LimitsHold => LimitsHold'
    BY <1>2, <1>8, OrdersStay
  <2> QED
    BY <1>1, <1>5, <1>6, <1>7, <2>1, <2>2, <2>3 DEF Inv
<1>9. CASE ~Exists(d)
  <2> PICK r : r = NewOrder(d)
    OBVIOUS
  <2>1. /\ r \in Order /\ r.open = TRUE /\ r.counted = TRUE /\ r.late = FALSE
        /\ r.token = d.token /\ r.kind = d.kind
        /\ r.stars = d.stars /\ r.recipient = d.recipient
    BY <1>1, NewOrderFits
  <2>2. /\ Len(orders) \in Nat /\ Len(orders') = Len(orders) + 1
        /\ orders' \in Seq(Order) /\ orders'[Len(orders) + 1] = r
        /\ \A i \in 1..Len(orders) : orders'[i] = orders[i]
        /\ Cardinality(OpenIds') <= Cardinality(OpenIds) + 1
        /\ Cardinality(OpenIds') \in Nat
        /\ Total(Stars, DayIds)' = Total(Stars, DayIds) + r.stars
    BY <1>2, <1>9, <2>1, OrderAdded
  <2>3. TypeOK'
    BY <1>2, <1>4, <2>2 DEF TypeOK
  <2>4. \A i \in 1..Len(orders') : i \in 1..Len(orders) \/ i = Len(orders) + 1
    BY <2>2
  <2>5. OrdersInv'
    <3>1. AsShown(r) /\ ~Misdirected(r)
      BY <1>1, <2>1 DEF AsShown, Misdirected
    <3>2. \A i \in 1..Len(orders') : AsShown(orders'[i]) /\ ~Misdirected(orders'[i])
      BY <2>2, <2>4, <3>1 DEF Inv, OrdersInv
    <3> QED
      BY <1>2, <3>2 DEF OrdersInv, AsShown, Misdirected
  <2>6. ASSUME NEW i \in 1..Len(orders), orders[i].token = r.token
        PROVE  orders[i].recipient # r.recipient
    <3>1. AsShown(orders[i])
      BY DEF Inv, OrdersInv
    <3>2. orders[i].kind = d.kind /\ orders[i].stars = d.stars /\ orders[i].token = d.token
      BY <1>1, <2>1, <2>6, <3>1 DEF AsShown
    <3> QED
      BY <1>9, <2>1, <3>2 DEF Exists, Key
  <2>7. OneOrderPerPreview'
    BY <2>2, <2>4, <2>6 DEF Inv, OneOrderPerPreview
  <2>8. LimitsHold'
    <3>1. Cardinality(OpenIds) < MaxOpen /\ Total(Stars, DayIds) + r.stars <= DailyLimit
      BY <1>1, <2>1 DEF Room
    <3>2. Cardinality(OpenIds') <= MaxOpen
      BY <2>2, <3>1, OpenFinite, LimitAssumption
    <3> QED
      BY <2>2, <3>1, <3>2 DEF LimitsHold
  <2> QED
    BY <1>1, <1>5, <1>6, <1>7, <2>2, <2>3, <2>5, <2>7, <2>8 DEF Inv
<1> QED
  BY <1>8, <1>9

LEMMA PaymentBegins ==
  ASSUME TypeOK, Inv, NEW t \in Tasks, PaymentStarts(t)
  PROVE  TypeOK' /\ Inv'
<1>1. /\ task' \in [Tasks -> Task] /\ task'[t].pc = "idle"
      /\ \A u \in Tasks \ {t} : task'[u] = task[u]
  BY DoneStep DEF PaymentStarts
<1>2. data' \in Data /\ DataInv' /\ asking' \in BOOLEAN /\ UNCHANGED <<shown, orders, rowLock>>
  BY DataCleared DEF PaymentStarts
<1> QED
  BY <1>1, <1>2, EndsFit, QuietStep

LEMMA ProcessStops ==
  ASSUME TypeOK, Inv, Stops
  PROVE  TypeOK' /\ Inv'
<1>1. /\ task' = [t \in Tasks |-> Idle] /\ data' = NoData /\ asking' = FALSE
      /\ rowLock' = NoTask /\ UNCHANGED <<shown, orders>>
  BY DEF Stops
<1>2. task' \in [Tasks -> Task] /\ \A t \in Tasks : task'[t].pc = "idle"
  BY <1>1, IdleType
<1>3. data' \in Data /\ DataInv'
  BY <1>1, DataCleared
<1>4. TypeOK'
  BY <1>1, <1>2, <1>3 DEF TypeOK
<1>5. OrdersInv' /\ OneOrderPerPreview'
  BY <1>1 DEF Inv, OrdersInv, OneOrderPerPreview, AsShown, Misdirected
<1>6. \A t \in Tasks : TaskFits(t)'
  BY <1>2, EndsFit
<1> QED
  BY <1>3, <1>4, <1>5, <1>6 DEF Inv

LEMMA OrderChange ==
  ASSUME TypeOK, NEW i \in 1..Len(orders), OrderMoves(i)
  PROVE  \E open, counted, late \in BOOLEAN :
           /\ orders' = [orders EXCEPT ![i] =
                [orders[i] EXCEPT !.open = open, !.counted = counted, !.late = late]]
           /\ open => late \/ (orders[i].open /\ ~orders[i].late)
           /\ counted => late \/ (orders[i].counted /\ ~orders[i].late)
<1> DEFINE order == orders[i]
           Changed(open, counted, late) ==
             [order EXCEPT !.open = open, !.counted = counted, !.late = late]
<1>1. order \in Order /\ order.open \in BOOLEAN /\ order.counted \in BOOLEAN
       /\ order.late \in BOOLEAN
  <2>1. order \in Order
    BY ElementOfSeq DEF TypeOK
  <2> QED
    BY <2>1 DEF Order
<1>2. CASE order.open /\ order.counted /\ orders' = [orders EXCEPT ![i].open = FALSE]
  <2>1. [order EXCEPT !.open = FALSE] = Changed(FALSE, order.counted, order.late)
    BY <1>1 DEF Order
  <2>2. orders' = [orders EXCEPT ![i] = Changed(FALSE, order.counted, order.late)]
    BY <1>2, <2>1
  <2> QED
    BY <1>1, <1>2, <2>2
<1>3. CASE order.open /\ order.counted /\ orders' = [orders EXCEPT ![i].counted = FALSE]
  <2>1. [order EXCEPT !.counted = FALSE] = Changed(order.open, FALSE, order.late)
    BY <1>1 DEF Order
  <2>2. orders' = [orders EXCEPT ![i] = Changed(order.open, FALSE, order.late)]
    BY <1>3, <2>1
  <2> QED
    BY <1>1, <1>3, <2>2
<1>4. CASE orders' = [orders EXCEPT ![i].open = FALSE, ![i].counted = FALSE, ![i].late = FALSE]
  <2>1. orders' = [orders EXCEPT ![i] = Changed(FALSE, FALSE, FALSE)]
    BY <1>4 DEF TypeOK
  <2> QED
    BY <2>1
<1>5. CASE \E recent \in BOOLEAN :
             orders' = [orders EXCEPT ![i].open = TRUE, ![i].counted = recent, ![i].late = TRUE]
  <2>1. PICK recent \in BOOLEAN :
          orders' = [orders EXCEPT ![i].open = TRUE, ![i].counted = recent, ![i].late = TRUE]
    BY <1>5
  <2>2. orders' = [orders EXCEPT ![i] = Changed(TRUE, recent, TRUE)]
    BY <2>1 DEF TypeOK
  <2> QED
    BY <2>2
<1> QED
  BY <1>2, <1>3, <1>4, <1>5 DEF OrderMoves

\* Only a late payment opens an order, or makes it count, that did not.
LEMMA OrderGoesOn ==
  ASSUME TypeOK, Inv, NEW i \in 1..Len(orders), OrderMoves(i)
  PROVE  TypeOK' /\ Inv' /\ (LimitsHold => LimitsHold')
<1>1. PICK open \in BOOLEAN, counted \in BOOLEAN, late \in BOOLEAN :
        /\ orders' = [orders EXCEPT ![i] =
             [orders[i] EXCEPT !.open = open, !.counted = counted, !.late = late]]
        /\ open => late \/ (orders[i].open /\ ~orders[i].late)
        /\ counted => late \/ (orders[i].counted /\ ~orders[i].late)
  BY OrderChange
<1> DEFINE new == [orders[i] EXCEPT !.open = open, !.counted = counted, !.late = late]
<1>2. orders[i] \in Order /\ Len(orders) \in Nat
  BY ElementOfSeq DEF TypeOK
<1>3. /\ new \in Order /\ new.open = open /\ new.counted = counted /\ new.late = late
      /\ new.token = orders[i].token
      /\ new.kind = orders[i].kind /\ new.stars = orders[i].stars
      /\ new.recipient = orders[i].recipient
  BY <1>2 DEF Order
<1>4. orders' = [orders EXCEPT ![i] = new]
  BY <1>1
<1> HIDE DEF new
<1>5. orders' \in Seq(Order) /\ Len(orders') = Len(orders)
       /\ \A j \in 1..Len(orders) : orders'[j] = IF j = i THEN new ELSE orders[j]
  BY <1>3, <1>4, ExceptSeq DEF TypeOK
<1>6. UNCHANGED <<asking, data, shown, rowLock, task>>
  BY DEF OrderMoves
<1>7. TypeOK'
  BY <1>5, <1>6 DEF TypeOK
<1>8. \A j \in 1..Len(orders) :
        /\ orders'[j].token = orders[j].token /\ orders'[j].kind = orders[j].kind
        /\ orders'[j].stars = orders[j].stars /\ orders'[j].recipient = orders[j].recipient
  BY <1>3, <1>5
<1>9. OrdersInv' /\ OneOrderPerPreview'
  BY <1>5, <1>6, <1>8 DEF Inv, OrdersInv, OneOrderPerPreview, AsShown, Misdirected
<1>10. OpenIds' \subseteq OpenIds
  BY <1>1, <1>3, <1>5 DEF OpenIds, OpenOrders
<1>11. Cardinality(OpenIds') <= Cardinality(OpenIds) /\ Cardinality(OpenIds') \in Nat
        /\ Cardinality(OpenIds) \in Nat
  BY <1>10, OpenFinite, FS_Subset, FS_CardinalityType
<1>12. Total(Stars, DayIds)' <= Total(Stars, DayIds) /\ Total(Stars, DayIds)' \in Nat
  <2> PICK days, stars : days = DayIds' /\ stars = Stars'
    OBVIOUS
  <2>1. days \subseteq DayIds
    BY <1>1, <1>3, <1>5 DEF DayIds
  <2>2. \A j \in 1..Len(orders) : stars[j] = Stars[j]
    BY <1>5, <1>8 DEF Stars
  <2>3. days \in SUBSET (1..Len(orders)) /\ days \in SUBSET DayIds
    BY <2>1, OrderIds
  <2>4. Total(stars, days) = Total(Stars, days)
    <3>1. PICK S, old : S = 1..Len(orders) /\ old = Stars
      OBVIOUS
    <3>2. IsFiniteSet(S) /\ \A j \in S : stars[j] = old[j]
      BY <2>2, <3>1, OrderIds
    <3>3. \A s \in SUBSET S : Total(stars, s) = Total(old, s)
      BY <3>2, TotalAgree
    <3> QED
      BY <2>3, <3>1, <3>3
  <2>5. Total(Stars, days) <= Total(Stars, DayIds) /\ Total(Stars, days) \in Nat
    BY <2>3, OrderIds, TotalPart, TotalNat
  <2> QED
    BY <2>4, <2>5
<1>13. RoomStays /\ (LimitsHold => LimitsHold')
  <2>1. ASSUME NEW s \in Nat, Room(s) PROVE Room(s)'
    BY <1>11, <1>12, <2>1, OrderIds, LimitAssumption DEF Room
  <2>2. LimitsHold => LimitsHold'
    BY <1>11, <1>12, OrderIds, LimitAssumption DEF LimitsHold
  <2> QED
    BY <2>1, <2>2 DEF RoomStays
<1>14. ASSUME NEW u \in Tasks PROVE TaskFits(u)'
  <2>1. TaskFits(u) /\ ShownStays /\ task'[u] = task[u] /\ rowLock' = rowLock
    BY <1>6 DEF Inv, ShownStays
  <2> QED
    BY <1>13, <2>1, TaskKept
<1>15. DataInv'
  BY <1>6, DataKept DEF Inv
<1> QED
  BY <1>7, <1>9, <1>13, <1>14, <1>15 DEF Inv

-----------------------------------------------------------------------------
(* Every step *)

Safe == TypeOK /\ Inv /\ LimitsHold

LEMMA TaskStep ==
  ASSUME Safe, NEW t \in Tasks,
         \/ BeginResolve(t) \/ Resolved(t) \/ OptionsShown(t) \/ CallFails(t) \/ Quoted(t)
         \/ QuoteAgain(t) \/ LookForOrder(t) \/ Refuse(t) \/ LockAndCount(t)
         \/ PaymentStarts(t) \/ PaymentFails(t)
         \/ \E k \in Kinds : BeginOptions(t, k) \/ \E s \in Amounts : BeginQuote(t, k, s)
         \/ \E n \in Tokens : Confirm(t, n)
  PROVE  Safe'
<1>1. TypeOK /\ Inv
  BY DEF Safe
<1>2. UNCHANGED orders
  BY DEF BeginResolve, Resolved, OptionsShown, CallFails, Quoted, QuoteAgain, LookForOrder,
         Refuse, LockAndCount, PaymentStarts, PaymentFails, BeginOptions, BeginQuote, Confirm
<1>3. LimitsHold'
  BY <1>2, OrdersStay DEF Safe
<1>4. CASE OptionsShown(t) \/ CallFails(t) \/ Refuse(t) \/ PaymentFails(t)
  <2>1. Done(t) /\ UNCHANGED <<data, shown, orders, rowLock>> /\ asking' \in BOOLEAN
    BY <1>1, <1>4 DEF OptionsShown, CallFails, Refuse, PaymentFails, TypeOK
  <2> QED
    BY <1>1, <1>3, <2>1, Ends DEF Safe
<1>5. CASE BeginResolve(t) \/ Resolved(t) \/ Quoted(t) \/ QuoteAgain(t)
  BY <1>1, <1>3, <1>5, ResolveBegins, ResolveEnds, QuoteShown, QuotedAgain DEF Safe
<1>6. CASE LookForOrder(t) \/ LockAndCount(t) \/ PaymentStarts(t)
  BY <1>1, <1>3, <1>6, LooksForOrder, LocksAndCounts, PaymentBegins DEF Safe
<1>7. CASE \/ \E k \in Kinds, s \in Amounts : BeginQuote(t, k, s)
           \/ \E n \in Tokens : Confirm(t, n)
  BY <1>1, <1>3, <1>7, QuoteBegins, Confirmed DEF Safe
<1>8. ASSUME NEW k \in Kinds, BeginOptions(t, k) PROVE Safe'
  <2>1. "options" \in Places \ {"insert"} /\ asking' \in BOOLEAN
    BY <1>1, <1>8 DEF Places, BeginOptions, TypeOK
  <2> QED
    BY <1>1, <1>3, <1>8, <2>1, IdleType, GoesOn DEF BeginOptions, Safe
<1> QED
  BY <1>4, <1>5, <1>6, <1>7, <1>8

LEMMA SafeStep ==
  ASSUME Safe, [Next]_vars
  PROVE  Safe'
<1>1. TypeOK /\ Inv /\ LimitsHold
  BY DEF Safe
<1>2. CASE Clear
  <2>1. TypeOK' /\ Inv'
    BY <1>1, <1>2, DataCleared, MenuStep DEF Clear
  <2> QED
    BY <1>1, <1>2, <2>1, OrdersStay DEF Clear, Safe
<1>3. CASE AskUsername \/ \E k \in Kinds : AskAmount(k)
  <2>1. UNCHANGED <<data, shown, orders, rowLock, task>> /\ asking' \in BOOLEAN
    BY <1>3 DEF AskUsername, AskAmount
  <2>2. data' \in Data /\ DataInv'
    BY <1>1, <2>1, DataKept DEF TypeOK, Inv
  <2> QED
    BY <1>1, <2>1, <2>2, MenuStep, OrdersStay DEF Safe
<1>4. CASE Stops
  BY <1>1, <1>4, ProcessStops, OrdersStay DEF Stops, Safe
<1>5. CASE \E t \in Tasks : Insert(t)
  BY <1>1, <1>5, Inserts DEF Safe
<1>6. CASE \E i \in 1..Len(orders) : OrderMoves(i)
  BY <1>1, <1>6, OrderGoesOn DEF Safe
<1>7. CASE UNCHANGED vars
  <2>1. UNCHANGED <<asking, data, shown, orders, rowLock, task>>
    BY <1>7 DEF vars
  <2>2. data' \in Data /\ DataInv' /\ asking' \in BOOLEAN
    BY <1>1, <2>1, DataKept DEF TypeOK, Inv
  <2> QED
    BY <1>1, <2>1, <2>2, MenuStep, OrdersStay DEF Safe
<1> QED
  BY <1>2, <1>3, <1>4, <1>5, <1>6, <1>7, TaskStep DEF Next

LEMMA SafeInit == Init => Safe
<1> SUFFICES ASSUME Init PROVE Safe
  OBVIOUS
<1>1. OpenIds = {} /\ DayIds = {}
  BY DEF Init, OpenIds, OpenOrders, DayIds
<1>2. Cardinality(OpenIds) <= MaxOpen
  BY <1>1, FS_EmptySet, LimitAssumption
<1>3. Total(Stars, DayIds) <= DailyLimit
  <2> PICK f, S : f = Stars /\ S = {}
    OBVIOUS
  <2>1. Total(f, S) = 0
    BY FS_EmptySet, TotalStep
  <2> QED
    BY <1>1, <2>1, LimitAssumption
<1> QED
  BY <1>2, <1>3, InvInit DEF Safe, LimitsHold

LEMMA SafeInvariant == Spec => []Safe
  BY SafeInit, SafeStep, PTL DEF Spec

-----------------------------------------------------------------------------
(* The theorems *)

\* The data of the conversation, the previews and the orders have their types whatever
\* updates overlap (OrderFlow, create_order).
THEOREM TypeCorrect == Spec => []TypeOK
<1>1. Safe => TypeOK
  BY DEF Safe
<1> QED
  BY <1>1, SafeInvariant, PTL

\* The inductive invariant: data with a token, and what a coroutine took of them, agree
\* with the preview of the token, and whoever has the row of the buyer has counted
\* (confirm_order, upsert_user).
THEOREM InvariantHolds == Spec => []Inv
<1>1. Safe => Inv
  BY DEF Safe
<1> QED
  BY <1>1, SafeInvariant, PTL

\* One preview makes one order for each recipient at most (create_order).
THEOREM OneOrder == Spec => []OneOrderPerPreview
<1>1. Safe => OneOrderPerPreview
  BY DEF Safe, Inv
<1> QED
  BY <1>1, SafeInvariant, PTL

\* An order has the kind and the Stars of the preview that was confirmed, and one for
\* oneself goes to oneself (confirm_order, _build_preview).
THEOREM OrderAsShown == Spec => []OrderIsAsShown
<1>1. Safe => OrderIsAsShown
  BY DEF Safe, Inv, OrdersInv, AsShown, Misdirected, OrderIsAsShown
<1> QED
  BY <1>1, SafeInvariant, PTL

\* Clicks at once get neither past the limit of open orders nor past that of the Stars of
\* a day (upsert_user, count_open_orders, daily_stars).
THEOREM Limits == Spec => []LimitsHold
<1>1. Safe => LimitsHold
  BY DEF Safe
<1> QED
  BY <1>1, SafeInvariant, PTL
=============================================================================
