---------------------------- MODULE CopilotProofs ----------------------------
(***************************************************************************)
(* Proofs about the chats of the copilot, for any number of faults.        *)
(*                                                                         *)
(* The first part is about OrderCopilot, for any listings, names and       *)
(* likenesses of names and any supply: what opens in the wallet is what    *)
(* the summary showed.                                                     *)
(*                                                                         *)
(* The second part is about OwnerChat, for any answers and any properties: *)
(* what a chat deploys or removes is what it last showed or asked about.   *)
(***************************************************************************)
EXTENDS OrderCopilot, OwnerChat, FiniteSetTheorems, TLAPS

Sessions ==
  [open : BOOLEAN, done : BOOLEAN, asks : BOOLEAN,
   name : Queries \cup {None}, amount : Counts \cup {None},
   next : {"name", "count", None}, pid : Listings \cup {None},
   among : SUBSET Listings]

AllSessions == [Workflows -> Sessions]

(* What a line carries that the state keeps *)
LineOK(line) ==
  /\ line.k # "hello"
  /\ line.k \in {"summary", "cancelled"} => line.w \in Workflows
  /\ line.k = "summary" => line.o \in Orders

(* An order shows what the session of workflow w that waits for a Yes      *)
(* holds: listing and count for an investment, some listing for the others *)
Answers(x, w, o) ==
  IF w = "invest"
  THEN x.pid \in Listings /\ x.amount \in Counts /\ o = Order(w, x.pid, x.amount)
  ELSE \E p \in Listings : o = Order(w, p, None)

(* An order is one that a session asked for                                *)
Placed(s, o) ==
  /\ o.w \in Workflows /\ s[o.w].asks
  /\ IF o.w = "invest" THEN o = Order("invest", s["invest"].pid, s["invest"].amount)
     ELSE LET found == Candidates(s[o.w].name, offered[o.w])
          IN Cardinality(found) = 1 /\ o = Order(o.w, Only(found), None)

(* What a turn may do to sessions s: none that asks is new without its     *)
(* summary, none goes on asking after it was declined, and an order needs  *)
(* one that asks                                                           *)
Good(s, x) ==
  /\ x.s \in AllSessions /\ LineOK(x.said) /\ x.order \in Orders \cup {None}
  /\ \A w \in Workflows : x.s[w].asks =>
       \/ x.s[w] = s[w] /\ ~(x.said.k \in {"summary", "cancelled"} /\ x.said.w = w)
       \/ x.said.k = "summary" /\ x.said.w = w /\ Answers(x.s[w], w, x.said.o)
  /\ x.order # None => Placed(s, x.order)

(* Nothing asks in t that did not in s                                     *)
Quiet(s, t) == t \in AllSessions /\ \A w \in Workflows : t[w].asks => t[w] = s[w]

(* An investment that waits for its Yes has a listing and a count *)
Ready(s) ==
  /\ s \in AllSessions
  /\ s["invest"].asks => s["invest"].pid \in Listings /\ s["invest"].amount \in Counts

(* What a user or the interface can say *)
Utterance(u) ==
  /\ u.k \in {"say", "invest", "claim", "rent"} => u.q \in Queries \cup {None}
  /\ u.k \in {"count", "invest"} => u.n \in Counts \cup {None, Bad}
  /\ u.k = "count" => u.n \in Counts \cup {Bad}
-------------------------------------------------------------------------------
LEMMA SessionFields ==
  ASSUME NEW name \in Queries \cup {None}, NEW n \in Counts \cup {None},
         NEW next \in {"name", "count", None}, NEW p \in Listings \cup {None}
  PROVE  /\ NoSession \in Sessions /\ ~NoSession.asks
         /\ Collecting(name, n, next, p) \in Sessions /\ ~Collecting(name, n, next, p).asks
         /\ Awaiting(name, n, p) \in Sessions /\ Awaiting(name, n, p).asks
         /\ Awaiting(name, n, p).pid = p /\ Awaiting(name, n, p).amount = n
         /\ Awaiting(name, n, p).name = name
         /\ Submitted(name, n, p) \in Sessions /\ ~Submitted(name, n, p).asks
<1>1. NoSession \in Sessions /\ ~NoSession.asks
  BY DEF NoSession, Sessions
<1>2. Collecting(name, n, next, p) \in Sessions /\ ~Collecting(name, n, next, p).asks
  BY DEF NoSession, Sessions, Collecting
<1>3. /\ Awaiting(name, n, p) \in Sessions /\ Awaiting(name, n, p).asks
      /\ Awaiting(name, n, p).pid = p /\ Awaiting(name, n, p).amount = n
      /\ Awaiting(name, n, p).name = name
  BY DEF NoSession, Sessions, Collecting, Awaiting
<1>4. Submitted(name, n, p) \in Sessions /\ ~Submitted(name, n, p).asks
  BY DEF NoSession, Sessions, Submitted
<1>5. QED
  BY <1>1, <1>2, <1>3, <1>4

LEMMA StartedIsQuiet == Started \in Sessions /\ ~Started.asks
<1>1. None \in Queries \cup {None} /\ None \in Counts \cup {None} /\ None \in Listings \cup {None}
  OBVIOUS
<1>2. QED
  BY <1>1, SessionFields DEF Started

(* Candidates of a query are among the items it is looked up in *)
LEMMA CandidatesAmong ==
  ASSUME NEW q, NEW items \in SUBSET Listings
  PROVE  /\ Candidates(q, items) \in SUBSET items
         /\ IsFiniteSet(Candidates(q, items))
         /\ Cardinality(Candidates(q, items)) = 1 =>
              /\ Only(Candidates(q, items)) \in items
              /\ Candidates(q, items) = {Only(Candidates(q, items))}
<1>1. Candidates(q, items) \in SUBSET items
  BY DEF Candidates
<1>2. IsFiniteSet(Candidates(q, items))
  BY <1>1, OrderAssumption, FS_Subset
<1>3. Cardinality(Candidates(q, items)) = 1 => \E p : Candidates(q, items) = {p}
  BY <1>2, FS_Singleton
<1>4. QED
  BY <1>1, <1>2, <1>3 DEF Only

(* The listing that has the name a query uses is what the query means, if  *)
(* it means one                                                            *)
LEMMA OwnNameFound ==
  ASSUME NEW items \in SUBSET Listings, NEW p \in items,
         Cardinality(Candidates(NameOf[p], items)) = 1
  PROVE  Only(Candidates(NameOf[p], items)) = p
<1> DEFINE q == NameOf[p]
           exact == {i \in items : NameOf[i] = q}
<1>1. q \in Names /\ q \notin Listings /\ q \in Queries /\ p \in Close[q]
  BY OrderAssumption DEF Queries
<1>2. Candidates(q, items) = {Only(Candidates(q, items))}
  BY <1>1, CandidatesAmong
<1>3. p \in Candidates(q, items)
  BY <1>1 DEF Candidates
<1>4. QED
  BY <1>2, <1>3
-------------------------------------------------------------------------------
(* Turns that ask for nothing new *)
LEMMA QuietPut ==
  ASSUME NEW s, NEW t, Quiet(s, t), NEW w \in Workflows, NEW x \in Sessions, ~x.asks
  PROVE  Quiet(s, Put(t, w, x))
  BY DEF Quiet, Put, AllSessions

LEMMA QuietAnswered ==
  ASSUME NEW s, NEW t, Quiet(s, t), NEW w \in Workflows
  PROVE  /\ Quiet(s, Answered(t, w)) /\ ~Answered(t, w)[w].asks
         /\ Answered(t, w)[w].pid = t[w].pid
<1>1. t[w] \in Sessions
  BY DEF Quiet, AllSessions
<1> DEFINE x == [t[w] EXCEPT !.asks = FALSE]
<1>2. x \in Sessions /\ ~x.asks /\ x.pid = t[w].pid
  BY <1>1 DEF Sessions
<1>3. Answered(t, w) = [t EXCEPT ![w] = x]
  BY DEF Answered, Quiet, AllSessions
<1> HIDE DEF x
<1>4. QED
  BY <1>2, <1>3 DEF Quiet, AllSessions

LEMMA GoodQuiet ==
  ASSUME NEW s, NEW t, Quiet(s, t), NEW line, LineOK(line), line.k # "summary",
         line.k = "cancelled" => ~t[line.w].asks
  PROVE  Good(s, Result(t, line))
<1>1. Result(t, line).s = t /\ Result(t, line).said = line /\ Result(t, line).order = None
  BY DEF Result
<1> DEFINE x == Result(t, line)
<1> HIDE DEF x
<1>2. x.s = t /\ x.said = line /\ x.order = None
  BY <1>1 DEF x
<1>3. Good(s, x)
  BY <1>2 DEF Good, Quiet
<1>4. QED
  BY <1>3 DEF x

LEMMA GoodLine ==
  ASSUME NEW s, NEW t, Quiet(s, t), NEW k \in {"chat", "count", "catalog"}
  PROVE  Good(s, Result(t, Line(k)))
<1>1. Line(k).k = k /\ LineOK(Line(k))
  BY DEF Line, LineOK
<1>2. QED
  BY <1>1, GoodQuiet

LEMMA GoodWhich ==
  ASSUME NEW s, NEW t, Quiet(s, t), NEW w \in Workflows
  PROVE  Good(s, Result(t, Which(w)))
<1>1. Which(w).k = "which" /\ LineOK(Which(w))
  BY DEF Which, LineOK
<1>2. QED
  BY <1>1, GoodQuiet

LEMMA GoodAsk ==
  ASSUME NEW s, NEW t, Quiet(s, t), NEW w \in Workflows
  PROVE  Good(s, Result(t, Ask(w)))
<1>1. Ask(w).k = "ask" /\ LineOK(Ask(w))
  BY DEF Ask, LineOK
<1>2. QED
  BY <1>1, GoodQuiet

LEMMA GoodCancel ==
  ASSUME NEW s, NEW t, Quiet(s, t), NEW w \in Workflows
  PROVE  \A x \in Cancel(t, w) : Good(s, x)
<1> DEFINE line == [k |-> "cancelled", w |-> w]
<1>1. LineOK(line) /\ line.k = "cancelled" /\ line.w = w
  BY DEF LineOK
<1> HIDE DEF line
<1>2. NoSession \in Sessions /\ ~NoSession.asks
  BY DEF NoSession, Sessions
<1>3. Quiet(s, Put(t, w, NoSession)) /\ ~Put(t, w, NoSession)[w].asks
  BY <1>2, QuietPut DEF Put, Quiet, AllSessions
<1>4. Good(s, Result(Put(t, w, NoSession), line))
  BY <1>1, <1>3, GoodQuiet
<1>5. QED
  BY <1>4 DEF Cancel, line

(* A turn that gives a summary *)
LEMMA GoodSummary ==
  ASSUME NEW s, NEW t, Quiet(s, t), NEW w \in Workflows, NEW y \in Sessions,
         NEW o \in Orders, o.w = w, Answers(y, w, o)
  PROVE  Good(s, Result(Put(t, w, y), [k |-> "summary", w |-> w, o |-> o]))
<1> DEFINE line == [k |-> "summary", w |-> w, o |-> o]
           r == Result(Put(t, w, y), line)
<1>1. LineOK(line) /\ line.k = "summary" /\ line.w = w /\ line.o = o
  BY DEF LineOK
<1>2. r.s = Put(t, w, y) /\ r.said = line /\ r.order = None
  BY DEF Result
<1>3. /\ Put(t, w, y) \in AllSessions /\ Put(t, w, y)[w] = y
      /\ \A v \in Workflows : v # w => Put(t, w, y)[v] = t[v]
  BY DEF Put, Quiet, AllSessions
<1> HIDE DEF line, r
<1>4. ASSUME NEW v \in Workflows, r.s[v].asks
      PROVE  \/ r.s[v] = s[v] /\ ~(r.said.k \in {"summary", "cancelled"} /\ r.said.w = v)
             \/ r.said.k = "summary" /\ r.said.w = v /\ Answers(r.s[v], v, r.said.o)
  <2>1. CASE v = w
    BY <1>1, <1>2, <1>3, <2>1
  <2>2. CASE v # w
    BY <1>1, <1>2, <1>3, <1>4, <2>2 DEF Quiet
  <2>3. QED
    BY <2>1, <2>2
<1>5. Good(s, r)
  BY <1>1, <1>2, <1>3, <1>4 DEF Good
<1>6. QED
  BY <1>5 DEF r, line

LEMMA GoodConfirm ==
  ASSUME NEW s, NEW t, Quiet(s, t), NEW w \in Workflows, NEW name \in Queries \cup {None},
         NEW p \in Listings, NEW n \in Counts \cup {None},
         IF w = "invest" THEN n \in Counts ELSE n = None
  PROVE  \A x \in Confirm(t, w, name, p, n) : Good(s, x)
<1>1. /\ Awaiting(name, n, p) \in Sessions /\ Awaiting(name, n, p).pid = p
      /\ Awaiting(name, n, p).amount = n
  <2>1. "name" \in {"name", "count", None} /\ p \in Listings \cup {None}
    OBVIOUS
  <2>2. QED
    BY <2>1, SessionFields
<1>2. Order(w, p, n) \in Orders /\ Order(w, p, n).w = w
  BY DEF Order, Orders
<1>3. Answers(Awaiting(name, n, p), w, Order(w, p, n))
  BY <1>1 DEF Answers
<1>4. QED
  BY <1>1, <1>2, <1>3, GoodSummary DEF Confirm

(* A turn that opens an order *)
LEMMA GoodOpens ==
  ASSUME NEW s, NEW t, Quiet(s, t), NEW o \in Orders, Placed(s, o)
  PROVE  Good(s, Opens(t, o))
<1> DEFINE x == Opens(t, o)
<1>1. x.s = t /\ x.said = Line("ordered") /\ x.order = o
  BY DEF Opens
<1>2. Line("ordered").k = "ordered" /\ LineOK(Line("ordered"))
  BY DEF Line, LineOK
<1> HIDE DEF x
<1>3. Good(s, x)
  BY <1>1, <1>2 DEF Good, Quiet
<1>4. QED
  BY <1>3 DEF x
-------------------------------------------------------------------------------
(* The turns of an investment *)
LEMMA GoodReject ==
  ASSUME NEW s, NEW t, Quiet(s, t), NEW name \in Queries \cup {None},
         NEW p \in Listings \cup {None}
  PROVE  \A x \in RejectCount(t, name, p) : Good(s, x)
<1> DEFINE y == Collecting(name, None, "count", p)
<1>1. y \in Sessions /\ ~y.asks
  <2>1. None \in Counts \cup {None} /\ "count" \in {"name", "count", None}
    OBVIOUS
  <2>2. QED
    BY <2>1, SessionFields
<1> HIDE DEF y
<1>2. Quiet(s, Put(t, "invest", y))
  BY <1>1, QuietPut DEF Workflows
<1>3. Good(s, Result(Put(t, "invest", y), Line("count")))
  BY <1>2, GoodLine
<1>4. QED
  BY <1>3 DEF RejectCount, y

LEMMA GoodSubmitInvestment ==
  ASSUME NEW s, NEW t, Quiet(s, t), NEW p \in Listings, NEW n \in Counts,
         s["invest"].asks, p = s["invest"].pid, n = s["invest"].amount
  PROVE  \A x \in SubmitInvestment(t, p, n) : Good(s, x)
<1> DEFINE sent == Submitted(NameOf[p], n, p)
           kept == Collecting(NameOf[p], n, "count", p)
           o == Order("invest", p, n)
<1>1. NameOf[p] \in Queries \cup {None}
  BY OrderAssumption DEF Queries
<1>2. sent \in Sessions /\ ~sent.asks /\ kept \in Sessions /\ ~kept.asks
  <2> DEFINE name == NameOf[p]
  <2>1. /\ name \in Queries \cup {None} /\ "count" \in {"name", "count", None}
        /\ p \in Listings \cup {None} /\ n \in Counts \cup {None}
    BY <1>1
  <2> HIDE DEF name
  <2>2. /\ Submitted(name, n, p) \in Sessions /\ ~Submitted(name, n, p).asks
        /\ Collecting(name, n, "count", p) \in Sessions
        /\ ~Collecting(name, n, "count", p).asks
    BY <2>1, SessionFields, ZenonT(60)
  <2>3. QED
    BY <2>2 DEF name
<1>3. o \in Orders /\ o.w = "invest"
  BY DEF Order, Orders, Workflows
<1>4. Placed(s, o)
  BY <1>3 DEF Placed, Workflows
<1> HIDE DEF sent, kept, o
<1>5. Quiet(s, Put(t, "invest", sent)) /\ Quiet(s, Put(t, "invest", kept))
  BY <1>2, QuietPut DEF Workflows
<1>6. Good(s, Opens(Put(t, "invest", sent), o))
  BY <1>3, <1>4, <1>5, GoodOpens
<1>7. Good(s, Result(Put(t, "invest", kept), Line("chat"))) /\ Good(s, Result(t, Line("chat")))
  BY <1>5, GoodLine
<1>8. QED
  BY <1>6, <1>7 DEF SubmitInvestment, sent, kept, o

LEMMA GoodFillInvestment ==
  ASSUME NEW s, NEW t, Quiet(s, t), NEW q \in Queries \cup {None},
         NEW n \in Counts \cup {None, Bad}, NEW submit \in BOOLEAN,
         submit => /\ s["invest"].asks /\ s["invest"].pid \in Listings
                   /\ n = s["invest"].amount /\ n \in Counts
                   /\ t["invest"].pid = s["invest"].pid
  PROVE  \A x \in FillInvestment(t, q, n, submit) : Good(s, x)
<1> DEFINE y == t["invest"]
           name == IF q # None THEN q ELSE y.name
           said_n == IF q # None \/ n # None THEN n ELSE y.amount
           items == IF y.among = {} THEN Investable ELSE Investable \cap y.among
           found == IF name = None THEN {} ELSE Candidates(name, items)
           p == Only(found)
           amount == KeptCount(y, p, said_n)
           among == IF Cardinality(found) > 1 THEN Candidates(name, Investable) ELSE {}
           unresolved == [Collecting(name, said_n, "name", None) EXCEPT !.among = among]
           none == Collecting(None, said_n, "name", None)
           count == Collecting(NameOf[p], None, "count", p)
           Fill == FillInvestment(t, q, n, submit)
<1>1. y \in Sessions
  BY DEF Quiet, AllSessions, Workflows
<1>2. CASE n = Bad
  <2>1. Fill = RejectCount(t, y.name, y.pid)
    BY <1>2 DEF FillInvestment
  <2>2. y.name \in Queries \cup {None} /\ y.pid \in Listings \cup {None}
    BY <1>1 DEF Sessions
  <2>3. QED
    BY <2>1, <2>2, GoodReject
<1>3. CASE n # Bad
  <2>1. /\ name \in Queries \cup {None} /\ said_n \in Counts \cup {None}
        /\ items \in SUBSET Listings /\ Investable \in SUBSET Listings
    BY <1>1, <1>3 DEF Sessions, Investable
  <2>2. CASE name = None
    <3>1. Fill = {Result(Put(t, "invest", none), Ask("invest"))}
      BY <1>3, <2>2 DEF FillInvestment
    <3>2. none \in Sessions /\ ~none.asks
      <4>1. /\ None \in Queries \cup {None} /\ "name" \in {"name", "count", None}
            /\ None \in Listings \cup {None}
        OBVIOUS
      <4>2. QED
        BY <2>1, <4>1, SessionFields
    <3> HIDE DEF none, Fill
    <3>3. Quiet(s, Put(t, "invest", none))
      BY <3>2, QuietPut DEF Workflows
    <3>4. QED
      BY <3>1, <3>3, GoodAsk DEF Workflows, Fill
  <2>3. CASE name # None /\ Cardinality(found) # 1
    <3>1. Fill = {Result(Put(t, "invest", unresolved), Which("invest"))}
      BY <1>3, <2>3 DEF FillInvestment
    <3>2. Candidates(name, Investable) \in SUBSET Listings
      BY <2>1, <2>3, CandidatesAmong
    <3>3. /\ Collecting(name, said_n, "name", None) \in Sessions
          /\ ~Collecting(name, said_n, "name", None).asks
      <4>1. "name" \in {"name", "count", None} /\ None \in Listings \cup {None}
        OBVIOUS
      <4>2. QED
        BY <2>1, <4>1, SessionFields
    <3>4. among \in SUBSET Listings
      BY <3>2
    <3>5. unresolved \in Sessions /\ ~unresolved.asks
      <4> HIDE DEF among, name, said_n
      <4>1. QED
        BY <3>3, <3>4 DEF Sessions
    <3> HIDE DEF unresolved, Fill
    <3>6. Quiet(s, Put(t, "invest", unresolved))
      BY <3>5, QuietPut DEF Workflows
    <3>7. QED
      BY <3>1, <3>6, GoodWhich DEF Fill, Workflows
  <2>4. CASE name # None /\ Cardinality(found) = 1
    <3>1. p \in Listings /\ NameOf[p] \in Queries \cup {None}
      <4>1. found = Candidates(name, items) /\ name \in Queries
        BY <2>1, <2>4
      <4> HIDE DEF found, name, items
      <4>2. p \in Listings
        BY <2>1, <2>4, <4>1, CandidatesAmong
      <4> HIDE DEF p
      <4>3. QED
        BY <4>2, OrderAssumption DEF Queries
    <3>2. amount \in Counts \cup {None}
      BY <2>1 DEF KeptCount
    <3>3. CASE ~InSupply(amount, p)
      <4>1. Fill = RejectCount(t, NameOf[p], p)
        BY <1>3, <2>4, <3>3 DEF FillInvestment
      <4>2. QED
        BY <3>1, <4>1, GoodReject
    <3>4. CASE InSupply(amount, p) /\ submit /\ amount = None
      <4>1. Fill = {Result(t, Line("chat"))}
        BY <1>3, <2>4, <3>4 DEF FillInvestment
      <4>2. QED
        BY <4>1, GoodLine
    <3>5. CASE InSupply(amount, p) /\ submit /\ amount # None
      <4>1. Fill = SubmitInvestment(t, p, amount)
        BY <1>3, <2>4, <3>5 DEF FillInvestment
      <4>2. said_n = n
        <5>1. n # None
          BY <3>5, OrderAssumption DEF Counts
        <5>2. QED
          BY <5>1
      <4>3. /\ amount = s["invest"].amount /\ p = s["invest"].pid
            /\ amount \in Counts /\ s["invest"].asks
        <5>1. y.pid # None /\ y.pid = s["invest"].pid
          BY <3>5, OrderAssumption
        <5> HIDE DEF p, y, said_n
        <5>2. QED
          BY <3>5, <4>2, <5>1 DEF KeptCount
      <4> HIDE DEF p, amount, Fill
      <4>4. QED
        BY <3>1, <4>1, <4>3, GoodSubmitInvestment DEF Fill
    <3>6. CASE InSupply(amount, p) /\ ~submit /\ amount = None
      <4>1. Fill = {Result(Put(t, "invest", count), Line("count"))}
        BY <1>3, <2>4, <3>6 DEF FillInvestment
      <4>2. count \in Sessions /\ ~count.asks
        <5>1. /\ None \in Counts \cup {None} /\ "count" \in {"name", "count", None}
              /\ p \in Listings \cup {None}
          BY <3>1
        <5> HIDE DEF p
        <5>2. QED
          BY <3>1, <5>1, SessionFields, ZenonT(60)
      <4> HIDE DEF count, Fill
      <4>3. Quiet(s, Put(t, "invest", count))
        BY <4>2, QuietPut DEF Workflows
      <4>4. QED
        BY <4>1, <4>3, GoodLine DEF Fill
    <3>7. CASE InSupply(amount, p) /\ ~submit /\ amount # None
      <4>1. Fill = Confirm(t, "invest", NameOf[p], p, amount)
        BY <1>3, <2>4, <3>7 DEF FillInvestment
      <4>2. amount \in Counts
        BY <3>2, <3>7
      <4> HIDE DEF p, amount, Fill
      <4>3. QED
        BY <3>1, <4>1, <4>2, GoodConfirm DEF Workflows, Fill
    <3>8. QED
      BY <3>3, <3>4, <3>5, <3>6, <3>7
  <2>5. QED
    BY <2>2, <2>3, <2>4
<1>4. QED
  BY <1>2, <1>3

LEMMA UtteranceFields ==
  ASSUME NEW u, Utterance(u)
  PROVE  /\ Query(u) \in Queries \cup {None} /\ Count(u) \in Counts \cup {None, Bad}
         /\ Words \in Queries
<1>1. Words \in Queries
  BY OrderAssumption DEF Queries
<1>2. Query(u) \in Queries \cup {None}
  <2>1. CASE u.k \in {"say", "invest", "claim", "rent"}
    BY <2>1 DEF Query, Utterance
  <2>2. CASE u.k \in {"yes", "no"}
    BY <1>1, <2>2 DEF Query
  <2>3. CASE u.k \notin {"say", "invest", "claim", "rent", "yes", "no"}
    BY <2>3 DEF Query
  <2>4. QED
    BY <2>1, <2>2, <2>3
<1>3. Count(u) \in Counts \cup {None, Bad}
  BY DEF Count, Utterance
<1>4. QED
  BY <1>1, <1>2, <1>3

LEMMA GoodInvestTurn ==
  ASSUME NEW s, Ready(s), NEW u, Utterance(u)
  PROVE  \A x \in InvestTurn(s, u) : Good(s, x)
<1> DEFINE y == s["invest"]
           began == Put(s, "invest", Started)
<1>1. Quiet(s, s) /\ y \in Sessions
  BY DEF Ready, Quiet, AllSessions, Workflows
<1>2. Quiet(s, began)
  BY <1>1, StartedIsQuiet, QuietPut DEF Workflows
<1>3. y.name \in Queries \cup {None} /\ y.pid \in Listings \cup {None}
  BY <1>1 DEF Sessions
<1>4. Query(u) \in Queries \cup {None} /\ Count(u) \in Counts \cup {None, Bad}
  BY UtteranceFields
<1>5. CASE y.asks
  <2>1. y.pid \in Listings /\ y.amount \in Counts
    BY <1>5 DEF Ready
  <2>2. CASE u.k = "yes"
    <3> DEFINE t == Answered(s, "invest")
    <3>1. Quiet(s, t) /\ t["invest"].pid = y.pid
      BY <1>1, QuietAnswered DEF Workflows
    <3>2. InvestTurn(s, u) = FillInvestment(t, y.name, y.amount, TRUE)
      <4>1. Count(u) # Bad /\ u.k # "no"
        BY <2>2, OrderAssumption DEF Count
      <4>2. QED
        BY <1>5, <2>2, <4>1 DEF InvestTurn
    <3> HIDE DEF t
    <3>3. \A x \in FillInvestment(t, y.name, y.amount, TRUE) : Good(s, x)
      <4>1. y.amount \in Counts \cup {None, Bad}
        BY <2>1
      <4>2. QED
        BY <1>1, <1>3, <1>5, <2>1, <3>1, <4>1, GoodFillInvestment DEF Workflows
    <3>4. QED
      BY <3>2, <3>3
  <2>3. CASE u.k = "no"
    <3>1. Count(u) # Bad /\ u.k # "yes"
      BY <2>3, OrderAssumption DEF Count
    <3>2. InvestTurn(s, u) = Cancel(s, "invest")
      BY <1>5, <2>3, <3>1 DEF InvestTurn
    <3>3. QED
      BY <1>1, <3>2, GoodCancel DEF Workflows
  <2>4. CASE u.k \notin {"yes", "no"} /\ Count(u) = Bad
    <3>1. InvestTurn(s, u) = RejectCount(s, y.name, y.pid)
      BY <1>5, <2>4 DEF InvestTurn
    <3>2. QED
      BY <1>1, <1>3, <3>1, GoodReject
  <2>5. CASE u.k \notin {"yes", "no"} /\ Count(u) # Bad
    <3>1. InvestTurn(s, u) = Confirm(s, "invest", y.name, y.pid, y.amount)
      BY <1>5, <2>5 DEF InvestTurn
    <3>2. "invest" \in Workflows /\ y.amount \in Counts \cup {None}
      BY <2>1 DEF Workflows
    <3>3. QED
      BY <1>1, <1>3, <2>1, <3>1, <3>2, GoodConfirm
  <2>6. QED
    BY <2>2, <2>3, <2>4, <2>5
<1>6. CASE ~y.asks
  <2>1. InvestTurn(s, u) \in {{}, FillInvestment(s, Query(u), Count(u), FALSE),
                              {Result(began, Ask("invest"))},
                              FillInvestment(began, Query(u), Count(u), FALSE)}
    BY <1>6 DEF InvestTurn
  <2> HIDE DEF began, y
  <2>2. \A x \in FillInvestment(s, Query(u), Count(u), FALSE) : Good(s, x)
    BY <1>1, <1>4, GoodFillInvestment
  <2>3. \A x \in FillInvestment(began, Query(u), Count(u), FALSE) : Good(s, x)
    BY <1>2, <1>4, GoodFillInvestment
  <2>4. Good(s, Result(began, Ask("invest")))
    BY <1>2, GoodAsk DEF Workflows
  <2>5. QED
    BY <2>1, <2>2, <2>3, <2>4
<1>7. QED
  BY <1>5, <1>6
-------------------------------------------------------------------------------
(* The turns of a claim or a rent payment *)
LEMMA GoodFillListing ==
  ASSUME NEW s, NEW t, Quiet(s, t), NEW w \in {"claim", "rent"}, NEW name,
         NEW submit \in BOOLEAN, offered[w] \in SUBSET Listings,
         submit => s[w].asks /\ name = s[w].name
  PROVE  \A x \in FillListing(t, w, name, submit) : Good(s, x)
<1> DEFINE found == Candidates(name, offered[w])
           p == Only(found)
           title == NameOf[p]
           paid == Submitted(title, None, p)
           o == Order(w, p, None)
<1>1. w \in Workflows /\ w # "invest"
  BY DEF Workflows
<1>2. CASE Cardinality(found) # 1
  <2>1. FillListing(t, w, name, submit) = {Result(t, Which(w))}
    BY <1>2 DEF FillListing
  <2>2. QED
    BY <1>1, <2>1, GoodWhich
<1>3. CASE Cardinality(found) = 1
  <2>1. p \in Listings
    BY <1>3, CandidatesAmong
  <2>2. title \in Queries \cup {None}
    <3> HIDE DEF p
    <3>1. QED
      BY <2>1, OrderAssumption DEF Queries
  <2>3. o \in Orders /\ o.w = w
    <3> HIDE DEF p
    <3>1. QED
      BY <1>1, <2>1 DEF Order, Orders
  <2>4. CASE ~submit
    <3>1. FillListing(t, w, name, submit) = Confirm(t, w, title, p, None)
      BY <1>3, <2>4 DEF FillListing
    <3> HIDE DEF p, title
    <3>2. None \in Counts \cup {None}
      OBVIOUS
    <3>3. QED
      BY <1>1, <2>1, <2>2, <3>1, <3>2, GoodConfirm
  <2>5. CASE submit
    <3>1. Placed(s, o)
      BY <1>1, <1>3, <2>3, <2>5 DEF Placed
    <3>2. paid \in Sessions /\ ~paid.asks
      <4> HIDE DEF title, p
      <4>1. /\ None \in Counts \cup {None} /\ None \in {"name", "count", None}
            /\ p \in Listings \cup {None}
        BY <2>1
      <4>2. QED
        BY <2>2, <4>1, SessionFields
    <3>3. /\ FillListing(t, w, name, submit)
               \in {{Opens(Put(t, w, paid), o), Result(t, Line("chat"))},
                    {Opens(Put(t, w, paid), o), Result(Put(t, w, paid), Line("chat")),
                     Result(t, Line("chat"))}}
      <4>1. CASE w = "claim"
        <5>1. FillListing(t, w, name, submit) = ClaimRewards(t, p)
          BY <1>3, <2>5, <4>1 DEF FillListing
        <5>2. QED
          BY <4>1, <5>1 DEF ClaimRewards
      <4>2. CASE w = "rent"
        <5>1. FillListing(t, w, name, submit) = PayRent(t, p)
          BY <1>3, <2>5, <4>2 DEF FillListing
        <5>2. QED
          BY <4>2, <5>1 DEF PayRent
      <4>3. QED
        BY <4>1, <4>2
    <3> HIDE DEF paid, o
    <3>4. Quiet(s, Put(t, w, paid))
      BY <1>1, <3>2, QuietPut
    <3>5. Good(s, Opens(Put(t, w, paid), o))
      BY <2>3, <3>1, <3>4, GoodOpens
    <3>6. Good(s, Result(Put(t, w, paid), Line("chat"))) /\ Good(s, Result(t, Line("chat")))
      BY <3>4, GoodLine
    <3>7. QED
      BY <3>3, <3>5, <3>6
  <2>6. QED
    BY <2>4, <2>5
<1>4. QED
  BY <1>2, <1>3

LEMMA GoodReplay ==
  ASSUME NEW s, NEW t, Quiet(s, t), NEW w \in {"claim", "rent"},
         offered[w] \in SUBSET Listings
  PROVE  \A x \in Replay(t, w) : Good(s, x)
<1> DEFINE name == t[w].name
           found == Candidates(name, offered[w])
           p == Only(found)
           pid == IF w = "rent" THEN t[w].pid ELSE p
           y == Awaiting(name, None, pid)
           o == Order(w, p, None)
<1>1. w \in Workflows /\ w # "invest"
  BY DEF Workflows
<1>2. name \in Queries \cup {None} /\ t[w].pid \in Listings \cup {None}
  <2>1. t[w] \in Sessions
    BY <1>1 DEF Quiet, AllSessions
  <2>2. QED
    BY <2>1 DEF Sessions
<1>3. CASE Cardinality(found) # 1
  <2>1. Replay(t, w) = {Result(t, Which(w))}
    BY <1>3 DEF Replay
  <2>2. QED
    BY <1>1, <2>1, GoodWhich
<1>4. CASE Cardinality(found) = 1
  <2>1. p \in Listings
    BY <1>4, CandidatesAmong
  <2>2. o \in Orders /\ o.w = w /\ Answers(y, w, o)
    <3> HIDE DEF p, y
    <3>1. QED
      BY <1>1, <2>1 DEF Order, Orders, Answers
  <2>3. y \in Sessions
    <3>1. /\ None \in Counts \cup {None} /\ "name" \in {"name", "count", None}
          /\ pid \in Listings \cup {None}
      BY <1>2, <2>1
    <3> HIDE DEF pid, name
    <3>2. QED
      BY <1>2, <3>1, SessionFields
  <2>4. Replay(t, w) = {Result(Put(t, w, y), [k |-> "summary", w |-> w, o |-> o])}
    BY <1>4 DEF Replay
  <2> HIDE DEF y, o
  <2>5. QED
    BY <1>1, <2>2, <2>3, <2>4, GoodSummary
<1>5. QED
  BY <1>3, <1>4

LEMMA GoodAnswerSummary ==
  ASSUME NEW s, NEW t, Quiet(s, t), NEW w \in {"claim", "rent"}, NEW u,
         offered[w] \in SUBSET Listings, t[w] = s[w], s[w].asks
  PROVE  \A x \in AnswerSummary(t, w, u) : Good(s, x)
<1> DEFINE a == Answered(t, w)
           name == t[w].name
<1>1. w \in Workflows
  BY DEF Workflows
<1>2. Quiet(s, a) /\ name = s[w].name
  BY <1>1, QuietAnswered
<1>3. AnswerSummary(t, w, u) \in {FillListing(a, w, name, TRUE), Cancel(t, w), Replay(t, w)}
  BY DEF AnswerSummary
<1> HIDE DEF a, name
<1>4. \A x \in FillListing(a, w, name, TRUE) : Good(s, x)
  BY <1>2, GoodFillListing
<1>5. \A x \in Cancel(t, w) : Good(s, x)
  BY <1>1, GoodCancel
<1>6. \A x \in Replay(t, w) : Good(s, x)
  BY GoodReplay
<1>7. QED
  BY <1>3, <1>4, <1>5, <1>6

LEMMA GoodListingTurn ==
  ASSUME NEW s, NEW t, Quiet(s, t), NEW u,
         offered \in [{"claim", "rent"} -> SUBSET Listings]
  PROVE  /\ t["claim"] = s["claim"] => \A x \in ClaimTurn(t, u) : Good(s, x)
         /\ t["rent"] = s["rent"] => \A x \in RentTurn(t, u) : Good(s, x)
<1>1. ASSUME NEW w \in {"claim", "rent"}, NEW name
      PROVE  /\ w \in Workflows /\ offered[w] \in SUBSET Listings
             /\ Quiet(s, Put(t, w, Started))
             /\ \A x \in FillListing(t, w, name, FALSE) : Good(s, x)
             /\ \A x \in FillListing(Put(t, w, Started), w, name, FALSE) : Good(s, x)
             /\ Good(s, Result(Put(t, w, Started), Ask(w)))
  <2>1. w \in Workflows /\ offered[w] \in SUBSET Listings
    BY DEF Workflows
  <2> DEFINE began == Put(t, w, Started)
  <2>2. Quiet(s, began)
    BY <2>1, StartedIsQuiet, QuietPut
  <2> HIDE DEF began
  <2>3. /\ \A x \in FillListing(t, w, name, FALSE) : Good(s, x)
        /\ \A x \in FillListing(began, w, name, FALSE) : Good(s, x)
    BY <2>1, <2>2, GoodFillListing
  <2>4. Good(s, Result(began, Ask(w)))
    BY <2>1, <2>2, GoodAsk
  <2>5. QED
    BY <2>1, <2>2, <2>3, <2>4 DEF began
<1>2. ASSUME t["claim"] = s["claim"]
      PROVE  \A x \in ClaimTurn(t, u) : Good(s, x)
  <2> DEFINE w == "claim"
             began == Put(t, w, Started)
             rows == offered[w]
             first == Taken(t[w], Hint(w, u))
             sole == NameOf[Only(rows)]
  <2>1. CASE t[w].asks
    <3>1. ClaimTurn(t, u) = AnswerSummary(t, "claim", u)
      BY <2>1 DEF ClaimTurn
    <3>2. offered["claim"] \in SUBSET Listings /\ s["claim"].asks
      BY <1>2, <2>1
    <3>3. QED
      BY <1>2, <3>1, <3>2, GoodAnswerSummary
  <2>2. CASE ~t[w].asks
    <3>1. ClaimTurn(t, u) \in {{}, FillListing(t, w, first, FALSE),
              FillListing(began, w, u.q, FALSE), FillListing(began, w, sole, FALSE),
              {Result(began, Ask(w))}}
      BY <2>2 DEF ClaimTurn
    <3> HIDE DEF first, sole, began
    <3>2. /\ \A x \in FillListing(t, w, first, FALSE) : Good(s, x)
          /\ \A x \in FillListing(began, w, u.q, FALSE) : Good(s, x)
          /\ \A x \in FillListing(began, w, sole, FALSE) : Good(s, x)
          /\ Good(s, Result(began, Ask(w)))
      BY <1>1 DEF began
    <3>3. QED
      BY <3>1, <3>2
  <2>3. QED
    BY <2>1, <2>2
<1>3. ASSUME t["rent"] = s["rent"]
      PROVE  \A x \in RentTurn(t, u) : Good(s, x)
  <2> DEFINE w == "rent"
             began == Put(t, w, Started)
             first == Taken(t[w], Hint(w, u))
  <2>1. CASE t[w].asks
    <3>1. RentTurn(t, u) = AnswerSummary(t, "rent", u)
      BY <2>1 DEF RentTurn
    <3>2. offered["rent"] \in SUBSET Listings /\ s["rent"].asks
      BY <1>3, <2>1
    <3>3. QED
      BY <1>3, <3>1, <3>2, GoodAnswerSummary
  <2>2. CASE ~t[w].asks
    <3>1. RentTurn(t, u) \in {{}, FillListing(t, w, first, FALSE),
              FillListing(began, w, u.q, FALSE), {Result(began, Ask(w))}}
      BY <2>2 DEF RentTurn
    <3> HIDE DEF first, began
    <3>2. /\ \A x \in FillListing(t, w, first, FALSE) : Good(s, x)
          /\ \A x \in FillListing(began, w, u.q, FALSE) : Good(s, x)
          /\ Good(s, Result(began, Ask(w)))
      BY <1>1 DEF began
    <3>3. QED
      BY <3>1, <3>2
  <2>3. QED
    BY <2>1, <2>2
<1>4. QED
  BY <1>2, <1>3
-------------------------------------------------------------------------------
(* Whole turns *)
LEMMA AbortIsQuiet ==
  ASSUME NEW s, s \in AllSessions, NEW w \in Workflows, NEW u
  PROVE  /\ Quiet(s, Abort(s, w)) /\ Quiet(s, AbortIdle(s, w, u))
         /\ \A v \in Workflows : v # w => AbortIdle(s, w, u)[v] = s[v]
<1>1. Quiet(s, s)
  BY DEF Quiet
<1>2. NoSession \in Sessions /\ ~NoSession.asks
  BY DEF NoSession, Sessions
<1>3. Quiet(s, Put(s, w, NoSession))
  BY <1>1, <1>2, QuietPut
<1>4. \A v \in Workflows : v # w => Put(s, w, NoSession)[v] = s[v]
  BY DEF Put, AllSessions
<1>5. QED
  BY <1>1, <1>3, <1>4 DEF Abort, AbortIdle

LEMMA GoodModel ==
  ASSUME NEW s, NEW t, Quiet(s, t), NEW u
  PROVE  \A x \in Model(t, u) : Good(s, x)
<1>1. Good(s, Result(t, Line("chat")))
  BY GoodLine
<1>2. \A x \in FillInvestment(t, Words, None, FALSE) : Good(s, x)
  <2>1. Words \in Queries \cup {None} /\ None \in Counts \cup {None, Bad}
    BY OrderAssumption DEF Queries
  <2>2. QED
    BY <2>1, GoodFillInvestment
<1>3. QED
  BY <1>1, <1>2 DEF Model

LEMMA GoodOutcomes ==
  ASSUME NEW u, Utterance(u), Ready(Prepared),
         offered \in [{"claim", "rent"} -> SUBSET Listings]
  PROVE  \A x \in Outcomes(u) : Good(Prepared, x)
<1> DEFINE s == Prepared
           t == AbortIdle(s, "invest", u)
           i == AbortIdle(s, "rent", u)
           j == AbortIdle(t, "claim", u)
<1>1. s \in AllSessions /\ Quiet(s, s)
  BY DEF Ready, Quiet
<1>2. \A x \in InvestTurn(s, u) : Good(s, x)
  BY GoodInvestTurn
<1>3. /\ Quiet(s, Abort(s, "rent")) /\ Quiet(s, Abort(s, "invest"))
      /\ Quiet(s, t) /\ t["claim"] = s["claim"] /\ Quiet(s, i)
  BY <1>1, AbortIsQuiet DEF Workflows
<1> HIDE DEF s
<1>4. Quiet(s, j)
  <2> HIDE DEF t
  <2>1. t \in AllSessions
    BY <1>3 DEF Quiet
  <2>2. Quiet(t, j)
    BY <2>1, AbortIsQuiet DEF Workflows
  <2>3. QED
    BY <1>3, <2>2 DEF Quiet
<1> HIDE DEF t, i, j
<1>5. \A x \in Look(s) : Good(s, x)
  <2>1. \A w \in {"rent", "invest"} : /\ Good(s, Result(Abort(s, w), Line("catalog")))
                                      /\ Good(s, Result(Abort(s, w), Line("chat")))
    BY <1>3, GoodLine
  <2>2. QED
    BY <2>1 DEF Look
<1>6. /\ \A x \in ClaimTurn(t, u) : Good(s, x)
      /\ \A x \in RentTurn(s, u) : Good(s, x)
  BY <1>1, <1>3, GoodListingTurn
<1>7. \A x \in Model(i, u) \cup Model(j, u) : Good(s, x)
  BY <1>3, <1>4, GoodModel
<1>8. Outcomes(u) \in {Look(s), RentTurn(s, u), Model(i, u), InvestTurn(s, u),
                       ClaimTurn(t, u), Model(j, u)}
  BY DEF Outcomes, s, t, i, j
<1>9. QED
  BY <1>2, <1>5, <1>6, <1>7, <1>8 DEF s
-------------------------------------------------------------------------------
(* A session waits for a Yes only under a summary of what it holds         *)
Summarised ==
  said.k # "hello" => \A w \in Workflows : session[w].asks => Answers(session[w], w, shown[w])

(* A patient user wants a listing that is on offer *)
Supplied == patient # None => wish \in [p : Offered(patient), named : BOOLEAN]

ChatInv == TypeOK /\ Summarised /\ Supplied

LEMMA NothingAsked == NoSessions \in AllSessions /\ \A w \in Workflows : ~NoSessions[w].asks
<1>1. NoSession \in Sessions /\ ~NoSession.asks
  BY DEF NoSession, Sessions
<1>2. QED
  BY <1>1 DEF NoSessions, AllSessions

LEMMA PreparedIsReady ==
  ASSUME TypeOK, Summarised
  PROVE  Ready(Prepared)
<1>1. CASE said.k = "hello"
  BY <1>1, NothingAsked DEF Prepared, Ready, Workflows
<1>2. CASE said.k # "hello"
  <2>1. session \in AllSessions
    BY DEF TypeOK, AllSessions, Sessions
  <2>2. session["invest"].asks => Answers(session["invest"], "invest", shown["invest"])
    BY <1>2 DEF Summarised, Workflows
  <2>3. QED
    BY <1>2, <2>1, <2>2 DEF Prepared, Ready, Answers
<1>3. QED
  BY <1>1, <1>2

LEMMA SpokenFields == ASSUME NEW u \in Utterances PROVE Utterance(u)
  BY DEF Utterances, Utterance

LEMMA WantedFields ==
  ASSUME TypeOK, Supplied, patient # None
  PROVE  Utterance(Wanted)
<1> DEFINE p == wish.p
           q == IF wish.named THEN wish.p ELSE None
           u == Wanted
<1>1. patient \in Workflows /\ wish.p \in Offered(patient)
  BY DEF TypeOK, Supplied
<1>2. Offered(patient) \in SUBSET Listings
  BY <1>1 DEF Offered, Investable, TypeOK, Workflows
<1>3. p \in Listings /\ p \in Queries \cup {None} /\ q \in Queries \cup {None}
  BY <1>1, <1>2 DEF Queries
<1>4. patient = "invest" => 1 \in Counts
  <2>1. CASE patient = "invest"
    <3>1. PICK i \in Listings : tokens[i] > 0
      BY <1>1, <2>1 DEF Offered, Investable
    <3>2. tokens[i] \in 0..Supply
      BY DEF TypeOK
    <3>3. QED
      BY <3>1, <3>2, OrderAssumption DEF Counts
  <2>2. QED
    BY <2>1
<1>5. \/ u.k \in {"yes", "no"}
      \/ u.k = "say" /\ u.q = p
      \/ u.k = "count" /\ u.n = 1 /\ patient = "invest"
      \/ u.k = "invest" /\ u.q = q /\ u.n = None
      \/ u.k \in {"claim", "rent"} /\ u.q = q
  <2>1. \/ u = [k |-> "yes"] \/ u = [k |-> "no"]
        \/ u = [k |-> "say", q |-> p]
        \/ patient = "invest" /\ u = [k |-> "count", n |-> 1]
        \/ patient = "invest" /\ u = [k |-> "invest", q |-> q, n |-> None]
        \/ patient # "invest" /\ u = [k |-> patient, q |-> q]
    BY DEF Wanted
  <2> HIDE DEF u, p, q
  <2>2. CASE patient # "invest" /\ u = [k |-> patient, q |-> q]
    BY <1>1, <2>2 DEF Workflows
  <2>3. QED
    BY <2>1, <2>2
<1> HIDE DEF p, q, u
<1>6. Utterance(u)
  BY <1>3, <1>4, <1>5, OrderAssumption DEF Utterance
<1>7. QED
  BY <1>6 DEF u
-------------------------------------------------------------------------------
(* What the lines of a turn leave behind *)
LEMMA ShownAfter ==
  ASSUME TypeOK, NEW line, LineOK(line), Show(line)
  PROVE  /\ shown' \in [Workflows -> Orders \cup {None}]
         /\ \A w \in Workflows :
              shown'[w] = IF line.k = "summary" /\ line.w = w THEN line.o
                          ELSE IF line.k = "cancelled" /\ line.w = w THEN None
                          ELSE shown[w]
<1>1. shown \in [Workflows -> Orders \cup {None}]
  BY DEF TypeOK
<1>2. CASE line.k = "summary"
  <2>1. shown' = [shown EXCEPT ![line.w] = line.o] /\ line.w \in Workflows /\ line.o \in Orders
    BY <1>2 DEF Show, LineOK
  <2>2. QED
    BY <1>1, <1>2, <2>1
<1>3. CASE line.k = "cancelled"
  <2>1. shown' = [shown EXCEPT ![line.w] = None] /\ line.w \in Workflows
    BY <1>3 DEF Show, LineOK
  <2>2. QED
    BY <1>1, <1>3, <2>1
<1>4. CASE line.k \notin {"summary", "cancelled"}
  BY <1>1, <1>4 DEF Show
<1>5. QED
  BY <1>2, <1>3, <1>4

(* A turn from a state of the invariant, its reply lost or not *)
LEMMA TurnKeepsSummarised ==
  ASSUME TypeOK, Summarised, NEW x, Good(Prepared, x), session' = x.s, Show(x.said)
  PROVE  /\ session' \in AllSessions /\ shown' \in [Workflows -> Orders \cup {None}]
         /\ Summarised'
<1>1. session' \in AllSessions /\ LineOK(x.said)
  BY DEF Good
<1>2. /\ shown' \in [Workflows -> Orders \cup {None}]
      /\ \A w \in Workflows :
           shown'[w] = IF x.said.k = "summary" /\ x.said.w = w THEN x.said.o
                       ELSE IF x.said.k = "cancelled" /\ x.said.w = w THEN None
                       ELSE shown[w]
  BY <1>1, ShownAfter
<1>3. ASSUME NEW w \in Workflows, x.s[w].asks
      PROVE  Answers(x.s[w], w, shown'[w])
  <2>1. CASE x.said.k = "summary" /\ x.said.w = w
    <3>1. Answers(x.s[w], w, x.said.o)
      BY <1>3, <2>1 DEF Good
    <3>2. QED
      BY <1>2, <2>1, <3>1
  <2>2. CASE ~(x.said.k = "summary" /\ x.said.w = w)
    <3>1. /\ x.s[w] = Prepared[w] /\ ~(x.said.k \in {"summary", "cancelled"} /\ x.said.w = w)
          /\ Prepared[w].asks
      BY <1>3, <2>2 DEF Good
    <3>2. said.k # "hello" /\ Prepared = session
      BY <3>1, NothingAsked DEF Prepared
    <3>3. Answers(session[w], w, shown[w])
      BY <3>1, <3>2 DEF Summarised
    <3>4. shown'[w] = shown[w]
      BY <1>2, <3>1
    <3>5. QED
      BY <3>1, <3>2, <3>3, <3>4
  <2>3. QED
    BY <2>1, <2>2
<1>4. \A w \in Workflows : session'[w].asks => Answers(session'[w], w, shown'[w])
  BY <1>3
<1>5. Summarised'
  BY <1>4 DEF Summarised, Answers
<1>6. QED
  BY <1>1, <1>2, <1>5
-------------------------------------------------------------------------------
(* A line of the chat, whoever says it, is something one can say *)
LEMMA TurnIsGood ==
  ASSUME ChatInv, NEW u, Utterance(u), NEW x \in Outcomes(u)
  PROVE  Good(Prepared, x)
<1>1. Ready(Prepared)
  BY PreparedIsReady DEF ChatInv
<1>2. offered \in [{"claim", "rent"} -> SUBSET Listings]
  BY DEF ChatInv, TypeOK
<1>3. QED
  BY <1>1, <1>2, GoodOutcomes

LEMMA InitGivesChatInv == ASSUME Init PROVE ChatInv
<1>1. session \in AllSessions
  BY NothingAsked DEF Init
<1>2. shown \in [Workflows -> Orders \cup {None}] /\ opened \in Orders \cup {None}
  BY DEF Init
<1>3. tokens \in [Listings -> 0..Supply]
  BY OrderAssumption DEF Init, Fresh
<1>4. offered \in [{"claim", "rent"} -> SUBSET Listings]
  BY DEF Init, AllDue
<1>5. /\ role \in {"investor", "tenant"} /\ faults \in 0..MaxFaults /\ patient = None
      /\ wish = None /\ said.k = "hello"
  BY OrderAssumption DEF Init, Line
<1>6. TypeOK
  BY <1>1, <1>2, <1>3, <1>4, <1>5 DEF TypeOK, AllSessions, Sessions
<1>7. QED
  BY <1>5, <1>6 DEF ChatInv, Summarised, Supplied

LEMMA TurnKeepsChatInv ==
  ASSUME ChatInv, NEW u, Utterance(u), Turn(u) \/ LostReply(u)
  PROVE  ChatInv'
<1>1. PICK x \in Outcomes(u) :
         /\ session' = x.s /\ Show(x.said) /\ opened' \in {x.order, None}
         /\ faults' = faults \/ (faults < MaxFaults /\ faults' = faults + 1)
         /\ UNCHANGED <<role, tokens, offered, patient, wish>>
  <2>1. CASE Turn(u)
    BY <2>1 DEF Turn
  <2>2. CASE LostReply(u)
    BY <2>2 DEF LostReply
  <2>3. QED
    BY <2>1, <2>2
<1>2. Good(Prepared, x)
  BY TurnIsGood
<1>3. /\ session' \in AllSessions /\ shown' \in [Workflows -> Orders \cup {None}]
      /\ Summarised'
  BY <1>1, <1>2, TurnKeepsSummarised DEF ChatInv
<1>4. opened' \in Orders \cup {None}
  BY <1>1, <1>2 DEF Good
<1>5. faults' \in 0..MaxFaults
  BY <1>1, OrderAssumption DEF ChatInv, TypeOK
<1>6. TypeOK'
  BY <1>1, <1>3, <1>4, <1>5 DEF ChatInv, TypeOK, AllSessions, Sessions
<1>7. Supplied'
  BY <1>1 DEF ChatInv, Supplied, Offered, Investable
<1>8. QED
  BY <1>3, <1>6, <1>7 DEF ChatInv

LEMMA RefreshKeepsChatInv ==
  ASSUME ChatInv, Refresh
  PROVE  ChatInv'
<1>1. /\ shown' \in [Workflows -> Orders \cup {None}] /\ opened' = None
      /\ patient' = None /\ wish' = None /\ said'.k = "hello" /\ faults' \in 0..MaxFaults
      /\ UNCHANGED <<role, session>>
  BY OrderAssumption DEF Refresh, Line
<1>2. tokens' \in [Listings -> 0..Supply] /\ offered' \in [{"claim", "rent"} -> SUBSET Listings]
  BY OrderAssumption DEF Refresh, Fresh, AllDue
<1>3. TypeOK'
  BY <1>1, <1>2 DEF ChatInv, TypeOK
<1>4. QED
  BY <1>1, <1>3 DEF ChatInv, Summarised, Supplied

LEMMA RestartKeepsChatInv ==
  ASSUME ChatInv, patient = None, Restart
  PROVE  ChatInv'
<1>1. /\ session' \in AllSessions /\ \A w \in Workflows : ~session'[w].asks
      /\ patient' = None /\ faults' \in 0..MaxFaults
      /\ UNCHANGED <<role, said, shown, opened, tokens, offered, wish>>
  BY NothingAsked, OrderAssumption DEF Restart, ChatInv, TypeOK
<1>2. TypeOK'
  BY <1>1 DEF ChatInv, TypeOK, AllSessions, Sessions
<1>3. QED
  BY <1>1, <1>2 DEF ChatInv, Summarised, Supplied

LEMMA MarketKeepsChatInv ==
  ASSUME ChatInv, patient = None, Market
  PROVE  ChatInv'
<1>1. tokens' \in [Listings -> 0..Supply]
  BY DEF Market, Trade, Relist, ChatInv, TypeOK
<1>2. offered' \in [{"claim", "rent"} -> SUBSET Listings]
  BY DEF Market, Trade, Relist, ChatInv, TypeOK
<1>3. /\ patient' = None /\ faults' \in 0..MaxFaults
      /\ UNCHANGED <<role, session, said, shown, opened, wish>>
  BY OrderAssumption DEF Market, ChatInv, TypeOK
<1>4. TypeOK'
  BY <1>1, <1>2, <1>3 DEF ChatInv, TypeOK
<1>5. QED
  BY <1>3, <1>4 DEF ChatInv, Summarised, Supplied, Answers

LEMMA SettleDownKeepsChatInv ==
  ASSUME ChatInv, NEW w \in Flows, SettleDown(w)
  PROVE  ChatInv'
<1>1. w \in Workflows
  BY DEF Flows, Workflows
<1>2. /\ patient' = w /\ wish' \in [p : Offered(w), named : BOOLEAN] /\ opened' = None
      /\ UNCHANGED <<role, session, said, shown, tokens, offered, faults>>
  BY DEF SettleDown
<1>3. Offered(w) \in SUBSET Listings
  BY <1>1 DEF Offered, Investable, ChatInv, TypeOK, Workflows
<1>4. TypeOK'
  BY <1>1, <1>2, <1>3 DEF ChatInv, TypeOK
<1>5. Supplied'
  BY <1>1, <1>2 DEF Supplied, Offered, Investable
<1>6. QED
  BY <1>2, <1>4, <1>5 DEF ChatInv, Summarised, Answers

LEMMA NextKeepsChatInv ==
  ASSUME ChatInv, [Next]_vars
  PROVE  ChatInv'
<1>1. CASE patient = None /\ \E u \in Utterances : Turn(u) \/ LostReply(u)
  BY <1>1, SpokenFields, TurnKeepsChatInv
<1>2. CASE patient = None /\ Restart
  BY <1>2, RestartKeepsChatInv
<1>3. CASE patient = None /\ Market
  BY <1>3, MarketKeepsChatInv
<1>4. CASE Refresh
  BY <1>4, RefreshKeepsChatInv
<1>5. CASE \E w \in Flows : SettleDown(w)
  BY <1>5, SettleDownKeepsChatInv
<1>6. CASE Cooperate
  <2>1. Utterance(Wanted)
    BY <1>6, WantedFields DEF Cooperate, ChatInv
  <2>2. QED
    BY <1>6, <2>1, TurnKeepsChatInv DEF Cooperate
<1>7. CASE UNCHANGED vars
  BY <1>7 DEF vars, ChatInv, TypeOK, Summarised, Supplied, Answers, Offered, Investable
<1>8. QED
  BY <1>1, <1>2, <1>3, <1>4, <1>5, <1>6, <1>7 DEF Next

(* The invariant the theorems rest on *)
LEMMA ChatInvariant == Spec => []ChatInv
<1>1. Init => ChatInv
  BY InitGivesChatInv
<1>2. ChatInv /\ [Next]_vars => ChatInv'
  BY NextKeepsChatInv
<1>3. QED
  BY <1>1, <1>2, PTL DEF Spec

(* Sessions, replies and the market hold values of their types, whatever   *)
(* is said, lost or traded and however often the process restarts.         *)
THEOREM SessionsTyped == Spec => []TypeOK
<1>1. ChatInv => TypeOK
  BY DEF ChatInv
<1>2. QED
  BY <1>1, ChatInvariant, PTL

(* A step that opens a new order is a turn, and the order one that its     *)
(* workflow's session asked for                                            *)
LEMMA OpenedWasPlaced ==
  ASSUME ChatInv, Next, NEW w, NewOrder(w)
  PROVE  /\ w \in Workflows /\ session[w].asks /\ Answers(session[w], w, shown[w])
         /\ IF w = "invest"
            THEN opened' = Order("invest", session["invest"].pid, session["invest"].amount)
            ELSE LET found == Candidates(session[w].name, offered[w])
                 IN Cardinality(found) = 1 /\ opened' = Order(w, Only(found), None)
<1>1. opened' # None /\ opened' # opened /\ opened'.w = w
  BY DEF NewOrder
<1>2. PICK u : Utterance(u) /\ Turn(u)
  <2>1. CASE \E u \in Utterances : Turn(u)
    BY <2>1, SpokenFields
  <2>2. CASE Cooperate
    <3>1. Utterance(Wanted)
      BY <2>2, WantedFields DEF Cooperate, ChatInv
    <3>2. QED
      BY <2>2, <3>1 DEF Cooperate
  <2>3. QED
    BY <1>1, <2>1, <2>2 DEF Next, LostReply, Restart, Market, Refresh, SettleDown
<1>3. PICK x \in Outcomes(u) : opened' = x.order
  BY <1>2 DEF Turn
<1>4. Good(Prepared, x)
  BY <1>2, TurnIsGood
<1>5. Placed(Prepared, opened')
  BY <1>1, <1>3, <1>4 DEF Good
<1>6. w \in Workflows /\ Prepared[w].asks
  BY <1>1, <1>5 DEF Placed
<1>7. said.k # "hello" /\ Prepared = session
  BY <1>6, NothingAsked DEF Prepared
<1>8. Answers(session[w], w, shown[w])
  BY <1>6, <1>7 DEF ChatInv, Summarised
<1>9. QED
  BY <1>1, <1>5, <1>6, <1>7, <1>8 DEF Placed

(* An investment opens in the wallet exactly as the last summary that was  *)
(* not declined showed it, listing and count: whatever the market did in   *)
(* between, an answer that finds another listing under the kept name opens *)
(* nothing.                                                                *)
THEOREM InvestmentAsShown == Spec => InvestedAsShown
<1>1. ChatInv /\ [Next]_vars => [NewOrder("invest") => opened' = shown["invest"]]_vars
  <2>1. ASSUME ChatInv, Next, NewOrder("invest")
        PROVE  opened' = shown["invest"]
    BY <2>1, OpenedWasPlaced DEF Answers
  <2>2. QED
    BY <2>1
<1>2. QED
  BY <1>1, ChatInvariant, PTL DEF Spec, InvestedAsShown

(* A claim or a rent payment opens for the listing its last summary        *)
(* showed, unless that listing is no longer offered or was found for a     *)
(* name that is not its own.                                               *)
THEOREM PaymentAsShown == Spec => PaidAsShown
<1> DEFINE Step == \A w \in {"claim", "rent"} : NewOrder(w) =>
             \/ opened' = shown[w]
             \/ /\ shown[w] # None
                /\ shown[w].p \notin offered[w] \/ NameOf[shown[w].p] # session[w].name
<1>1. ChatInv /\ [Next]_vars => [Step]_vars
  <2>1. ASSUME ChatInv, Next, NEW w \in {"claim", "rent"}, NewOrder(w),
               shown[w] # None => shown[w].p \in offered[w] /\ NameOf[shown[w].p] = session[w].name
        PROVE  opened' = shown[w]
    <3> DEFINE found == Candidates(session[w].name, offered[w])
    <3>1. /\ w # "invest" /\ Answers(session[w], w, shown[w])
          /\ Cardinality(found) = 1 /\ opened' = Order(w, Only(found), None)
      BY <2>1, OpenedWasPlaced
    <3>2. PICK p \in Listings : shown[w] = Order(w, p, None)
      BY <3>1 DEF Answers
    <3>3. shown[w] # None
      BY <2>1, <3>2, OrderAssumption DEF Order
    <3>4. shown[w].p = p
      BY <3>2 DEF Order
    <3>5. p \in offered[w] /\ session[w].name = NameOf[p] /\ offered[w] \in SUBSET Listings
      BY <2>1, <3>3, <3>4 DEF ChatInv, TypeOK
    <3>6. Only(found) = p
      BY <3>1, <3>5, OwnNameFound
    <3>7. QED
      BY <3>1, <3>2, <3>6
  <2>2. QED
    BY <2>1
<1>2. QED
  BY <1>1, ChatInvariant, PTL DEF Spec, PaidAsShown

-----------------------------------------------------------------------------
(***************************************************************************)
(* The owner's chat.                                                       *)
(***************************************************************************)
Values == Owner!Answers \cup {Owner!None, Owner!Skip, Owner!Words}

(* Lines, results and histories as the code can have them.                 *)
Bare == {"chat", "overview", "saved", "unknown", "limit", "refused", "which", "removed",
         "kept", "editing", "cleared", "created", "failed"}
Plain == {"chat", "overview", "saved", "unknown", "limit", "refused"}
Lasts == Owner!Fields \cup Bare \cup {Owner!None, "summary", "confirm"}
Creates == [progress : BOOLEAN, filled : Owner!Drafts, next : Owner!Fields \cup {Owner!None},
            awaiting : BOOLEAN, failed : BOOLEAN, limit : BOOLEAN]
Removals == [progress : BOOLEAN, target : Properties \cup {Owner!None}]
Chats == [recovered : Owner!Drafts, pending : Owner!Fields \cup {Owner!None}, last : Lasts,
          shown : Owner!Drafts,
          prompted : Properties \cup {Owner!None}, outcome : {Owner!None, "created", "failed"},
          asked : BOOLEAN, fresh : BOOLEAN]
Works == [create : Creates, removal : Removals, edit : Properties \cup {Owner!None},
          live : SUBSET Properties, made : SUBSET Owner!Drafts, stray : SUBSET Owner!Drafts]
Replies == [k : {"ask"}, f : Owner!Fields] \cup [k : {"summary"}, d : Owner!Drafts]
             \cup [k : {"confirm"}, p : Properties] \cup [k : Bare]
Results == [s : Works, reply : Replies]
Calls == [fields : Owner!Drafts, confirm : {Owner!None, "yes", "no"}]

(* What a line, an answer, a draft and the outcomes of the helpers are.    *)
LEMMA LineKinds ==
  ASSUME NEW u \in Owner!Utterances
  PROVE  /\ u.k \in {"create", "yes", "no", "browse", "say", "change", "remove", "edit"}
         /\ u.k = "say" => u.v \in Owner!Answers
         /\ u.k = "change" => u.f \in Owner!Fields /\ u.v \in Numbers
         /\ u.k \in {"remove", "edit"} => u.p \in Properties
BY DEF Owner!Utterances

LEMMA AnswerTyped ==
  ASSUME NEW u \in Owner!Utterances, NEW f \in Owner!Fields
  PROVE  Owner!AsAnswer(f, u) \in Values
BY LineKinds DEF Owner!AsAnswer, Values, Owner!Answers

LEMMA EmptyTyped == Owner!Empty \in Owner!Drafts
BY DEF Owner!Empty, Owner!Drafts

LEMMA MergeTyped ==
  ASSUME NEW d \in Owner!Drafts, NEW e \in Owner!Drafts
  PROVE  /\ Owner!Merge(d, e) \in Owner!Drafts
         /\ \A f \in Owner!Fields : Owner!Merge(d, e)[f] = IF d[f] # Owner!None THEN d[f] ELSE e[f]
BY DEF Owner!Merge, Owner!Drafts

LEMMA PutTyped ==
  ASSUME NEW d \in Owner!Drafts, NEW f \in Owner!Fields, NEW v \in Values
  PROVE  [d EXCEPT ![f] = v] \in Owner!Drafts
BY DEF Owner!Drafts, Values

(* Listening adds the answer to a pending question and nothing else.       *)
LEMMA HearTyped ==
  ASSUME NEW c \in Chats, NEW u \in Owner!Utterances
  PROVE  /\ Owner!Hear(c, u) \in Chats
         /\ \A f \in Owner!Fields : c.recovered[f] # Owner!None \/ f # c.pending
                                => Owner!Hear(c, u).recovered[f] = c.recovered[f]
         /\ Owner!Hear(c, u).pending = Owner!None \/ Owner!Hear(c, u) = c
         /\ Owner!Hear(c, u).last = c.last /\ Owner!Hear(c, u).shown = c.shown
         /\ Owner!Hear(c, u).prompted = c.prompted /\ Owner!Hear(c, u).outcome = c.outcome
         /\ Owner!Hear(c, u).asked = c.asked /\ Owner!Hear(c, u).fresh = c.fresh
<1> DEFINE f == c.pending
           taken == f # Owner!None /\ c.recovered[f] = Owner!None
           value == IF f = "rent" /\ u.k = "no" THEN Owner!Skip
                    ELSE IF Owner!YesNo(u) # Owner!None THEN Owner!None ELSE Owner!AsAnswer(f, u)
           drop == [c EXCEPT !.pending = Owner!None]
           take == [c EXCEPT !.recovered[f] = value, !.pending = Owner!None]
<1>1. Owner!Hear(c, u) \in {c, drop} \/ (Owner!Hear(c, u) = take /\ taken)
  BY Zenon DEF Owner!Hear
<1>2. taken => f \in Owner!Fields /\ value \in Values
  BY AnswerTyped DEF Chats, Values
<1>3. drop \in Chats /\ c \in Chats
  BY DEF Chats
<1>4. taken => [c.recovered EXCEPT ![f] = value] \in Owner!Drafts
  <2> HIDE DEF value
  <2>. QED
    BY <1>2, PutTyped DEF Chats
<1> HIDE DEF value
<1>5. taken => take \in Chats
  BY <1>4 DEF Chats
<1>6. taken => \A g \in Owner!Fields : c.recovered[g] # Owner!None \/ g # f
                                => take.recovered[g] = c.recovered[g]
  BY <1>2 DEF Chats, Owner!Drafts
<1>7. CASE Owner!Hear(c, u) \in {c, drop}
  BY <1>3, <1>7 DEF Chats
<1>8. CASE Owner!Hear(c, u) = take /\ taken
  <2>1. /\ take.pending = Owner!None /\ take.last = c.last /\ take.shown = c.shown
        /\ take.prompted = c.prompted /\ take.outcome = c.outcome
        /\ take.asked = c.asked /\ take.fresh = c.fresh
    BY DEF Chats
  <2> HIDE DEF take
  <2>. QED
    BY <1>5, <1>6, <1>8, <2>1
<1>. QED
  BY <1>1, <1>7, <1>8

LEMMA SayTyped ==
  ASSUME NEW c \in Chats, NEW r \in Replies
  PROVE  Owner!Say(c, r) \in Chats
<1> DEFINE d == [c EXCEPT !.last = r.k, !.fresh = FALSE]
<1>1. CASE r \in [k : {"ask"}, f : Owner!Fields]
  BY <1>1 DEF Chats, Owner!Say, Lasts
<1>2. CASE r \in [k : {"summary"}, d : Owner!Drafts]
  <2>1. Owner!Merge(c.recovered, r.d) \in Owner!Drafts
    BY <1>2, MergeTyped DEF Chats
  <2>. QED
    BY <1>2, <2>1 DEF Chats, Owner!Say, Lasts
<1>3. CASE r \in [k : {"confirm"}, p : Properties]
  BY <1>3 DEF Chats, Owner!Say, Lasts
<1>4. CASE r \in [k : Bare]
  <2>1. r.k \in Bare
    BY <1>4
  <2>. QED
    BY <2>1, EmptyTyped, ZenonT(60) DEF Chats, Owner!Say, Lasts, Bare, Owner!Fields
<1>. QED
  BY <1>1, <1>2, <1>3, <1>4 DEF Replies

LEMMA DraftTyped ==
  ASSUME NEW d \in Owner!Drafts, NEW f \in Owner!Fields \cup {Owner!None}
  PROVE  /\ Owner!Draft(d, f) \in Creates
         /\ Owner!Draft(d, f).filled = d /\ Owner!Draft(d, f).next = f
         /\ ~Owner!Draft(d, f).awaiting /\ ~Owner!Draft(d, f).failed /\ ~Owner!Draft(d, f).limit
BY EmptyTyped DEF Owner!Draft, Owner!NoDraft, Creates

LEMMA WaitingTyped ==
  ASSUME NEW d \in Owner!Drafts, NEW b \in BOOLEAN
  PROVE  LET w == [Owner!Draft(d, Owner!None) EXCEPT !.awaiting = TRUE, !.failed = b]
         IN /\ w \in Creates
            /\ w.filled = d /\ w.next = Owner!None /\ w.awaiting /\ w.failed = b /\ ~w.limit
BY EmptyTyped DEF Owner!Draft, Owner!NoDraft, Creates

LEMMA CompletedTyped ==
  /\ Owner!Completed \in Creates /\ Owner!NoDraft \in Creates
  /\ Owner!Completed.limit /\ ~Owner!Completed.awaiting /\ ~Owner!Completed.failed
  /\ Owner!Completed.filled = Owner!Empty /\ Owner!Completed.next = Owner!None
  /\ Owner!NoDraft.filled = Owner!Empty /\ Owner!NoDraft.next = Owner!None
  /\ ~Owner!NoDraft.limit /\ ~Owner!NoDraft.awaiting /\ ~Owner!NoDraft.failed
BY EmptyTyped DEF Owner!Completed, Owner!NoDraft, Creates

Full(d) == \A f \in Owner!Fields : d[f] # Owner!None

LEMMA FullMerge ==
  ASSUME NEW d \in Owner!Drafts, NEW e \in Owner!Drafts
  PROVE  /\ Full(d) => Owner!Merge(d, e) = d
         /\ Full(e) => Full(Owner!Merge(d, e))
BY DEF Full, Owner!Merge, Owner!Drafts

(* Filling from the history keeps the answers of the session, and          *)
(* completes it where every question was answered.                         *)
LEMMA BackfillTyped ==
  ASSUME NEW c \in Chats, NEW d \in Owner!Drafts
  PROVE  /\ Owner!Backfill(c, d) \in Owner!Drafts
         /\ \A f \in Owner!Fields : d[f] # Owner!None => Owner!Backfill(c, d)[f] = d[f]
         /\ Full(d) => Owner!Backfill(c, d) = d
         /\ c.outcome # "created" => Owner!Backfill(c, d) = Owner!Merge(d, c.recovered)
         /\ c.outcome # "created" /\ Full(c.recovered) => Full(Owner!Backfill(c, d))
BY MergeTyped, FullMerge DEF Owner!Backfill, Chats

(* A draft with all fields filled is complete and asks for nothing, not    *)
(* even for the optional rent.                                             *)
LEMMA FullIsComplete ==
  ASSUME NEW d \in Owner!Drafts
  PROVE  /\ Full(d) <=> Owner!Complete(d) /\ ~Owner!NeedsRent(d)
         /\ Owner!Complete(d) <=> Owner!FirstMissing(d) = Owner!None
         /\ Owner!FirstMissing(d) \in {Owner!None, "name", "supply"}
         /\ Owner!NextField(d) \in Owner!Fields \cup {Owner!None}
         /\ Owner!NextField(d) = Owner!None <=> Full(d)
BY DEF Full, Owner!Complete, Owner!NeedsRent, Owner!FirstMissing, Owner!NextField, Owner!Required,
   Owner!Fields, Owner!None

(* A session after the history has been compared with it.                  *)
LEMMA ReconcileCases ==
  ASSUME NEW c \in Chats, NEW w \in Creates
  PROVE  LET d == Owner!Backfill(c, w.filled)
             r == Owner!Reconcile(c, w)
         IN /\ r \in Creates
            /\ c.outcome = "created" => r.limit /\ (r = w \/ r = Owner!Completed)
            /\ c.outcome = Owner!None => r = w
            /\ c.outcome = "failed" /\ Owner!Complete(d) =>
                 r = [Owner!Draft(d, Owner!None) EXCEPT !.awaiting = TRUE, !.failed = TRUE]
            /\ c.outcome = "failed" /\ ~Owner!Complete(d) => r = w
<1> DEFINE d == Owner!Backfill(c, w.filled)
<1>1. d \in Owner!Drafts
  BY BackfillTyped DEF Creates
<1>2. [Owner!Draft(d, Owner!None) EXCEPT !.awaiting = TRUE, !.failed = TRUE] \in Creates
  BY <1>1, WaitingTyped
<1>3. c.outcome \in {Owner!None, "created", "failed"}
  BY DEF Chats
<1> HIDE DEF d
<1>4. /\ c.outcome = "created" => Owner!Reconcile(c, w) = IF w.limit THEN w ELSE Owner!Completed
      /\ c.outcome = Owner!None => Owner!Reconcile(c, w) = w
      /\ c.outcome = "failed" => Owner!Reconcile(c, w) = IF Owner!Complete(d)
           THEN [Owner!Draft(d, Owner!None) EXCEPT !.awaiting = TRUE, !.failed = TRUE] ELSE w
  BY DEF Owner!Reconcile, Owner!None, d
<1>. QED
  BY <1>2, <1>3, <1>4, CompletedTyped DEF d

(* Comparing twice changes nothing more.                                   *)
LEMMA ReconcileTwice ==
  ASSUME NEW c \in Chats, NEW w \in Creates
  PROVE  Owner!Reconcile(c, Owner!Reconcile(c, w)) = Owner!Reconcile(c, w)
<1> DEFINE d == Owner!Backfill(c, w.filled)
           r == Owner!Reconcile(c, w)
           v == [Owner!Draft(d, Owner!None) EXCEPT !.awaiting = TRUE, !.failed = TRUE]
<1>1. c.outcome \in {Owner!None, "created", "failed"} /\ d \in Owner!Drafts
  BY BackfillTyped DEF Chats, Creates
<1>2. CASE c.outcome = "failed" /\ Owner!Complete(d)
  <2>1. r = v /\ v \in Creates /\ v.filled = d
    BY <1>1, <1>2, ReconcileCases, WaitingTyped
  <2>2. Owner!Backfill(c, d) = d
    BY <1>1, <1>2 DEF Owner!Backfill, Owner!Merge, Chats, Owner!Drafts
  <2> HIDE DEF r, v, d
  <2>3. Owner!Reconcile(c, v)
          = [Owner!Draft(d, Owner!None) EXCEPT !.awaiting = TRUE, !.failed = TRUE]
    BY <1>2, <2>1, <2>2, ReconcileCases, ZenonT(60)
  <2>. QED
    BY <2>1, <2>3 DEF v, r
<1>3. CASE c.outcome # "failed" \/ ~Owner!Complete(d)
  BY <1>1, <1>3, ReconcileCases, CompletedTyped
<1>. QED
  BY <1>2, <1>3

LEMMA LastLineTyped ==
  ASSUME NEW s \in Works, NEW c \in Chats, NEW u \in Owner!Utterances, NEW d \in Owner!Drafts
  PROVE  /\ Owner!LastLine(s, c, u, d) \in Owner!Drafts
         /\ \A f \in Owner!Fields : d[f] # Owner!None => Owner!LastLine(s, c, u, d)[f] = d[f]
<1> DEFINE f == IF s.create.next # Owner!None THEN s.create.next ELSE Owner!FirstMissing(d)
<1>1. f \in Owner!Fields \cup {Owner!None}
  BY FullIsComplete DEF Works, Creates, Owner!Fields
<1>2. Owner!LastLine(s, c, u, d) = d
        \/ (f # Owner!None /\ d[f] = Owner!None
             /\ Owner!LastLine(s, c, u, d) = [d EXCEPT ![f] = Owner!AsAnswer(f, u)])
  BY Zenon DEF Owner!LastLine
<1> HIDE DEF f
<1>3. CASE f # Owner!None /\ d[f] = Owner!None
        /\ Owner!LastLine(s, c, u, d) = [d EXCEPT ![f] = Owner!AsAnswer(f, u)]
  <2>1. f \in Owner!Fields /\ Owner!AsAnswer(f, u) \in Values
    BY <1>1, <1>3, AnswerTyped
  <2> DEFINE v == Owner!AsAnswer(f, u)
  <2> HIDE DEF v
  <2>2. [d EXCEPT ![f] = v] \in Owner!Drafts
    BY <2>1, PutTyped DEF v
  <2>3. \A g \in Owner!Fields : d[g] # Owner!None => [d EXCEPT ![f] = v][g] = d[g]
    BY <1>3, <2>1 DEF Owner!Drafts
  <2>. QED
    BY <1>3, <2>2, <2>3 DEF v
<1>. QED
  BY <1>2, <1>3
-----------------------------------------------------------------------------
(* What a turn may do to the create session.                               *)
Asks(s) == {Owner!Result([s EXCEPT !.create = Owner!Draft(d, f)], Owner!Ask(f)) :
              d \in Owner!Drafts, f \in Owner!Fields}
Sums(s, d) == UNION {Owner!Summary(s, d, b) : b \in BOOLEAN}
Stays(s, c) == {Owner!Result([s EXCEPT !.create = Owner!Reconcile(c, s.create)], Owner!Reply(k)) :
                  k \in {"limit", "refused"}}

(* The line or the call says Yes.                                          *)
SaysYes(u, args) == \/ args.confirm = "yes"
                    \/ args.confirm = Owner!None /\ args.fields = Owner!Empty /\ u.k = "yes"

LEMMA AskedResult ==
  ASSUME NEW s \in Works, NEW x
  PROVE  x \in Asks(s) <=> \E d \in Owner!Drafts, f \in Owner!Fields :
                             x = Owner!Result([s EXCEPT !.create = Owner!Draft(d, f)], Owner!Ask(f))
BY DEF Asks

(* The session of s is the only thing that t has changed.                  *)
LEMMA SameElsewhere ==
  ASSUME NEW s \in Works, NEW w \in Creates, NEW t, t = [s EXCEPT !.create = w]
  PROVE  /\ t \in Works /\ t.create = w
         /\ t.removal = s.removal /\ t.edit = s.edit /\ t.live = s.live
         /\ t.made = s.made /\ t.stray = s.stray
         /\ \A v : [t EXCEPT !.create = v] = [s EXCEPT !.create = v]
         /\ \A d : Owner!Submit(t, d) = Owner!Submit(s, d) /\ Sums(t, d) = Sums(s, d)
         /\ \A d, b : Owner!Summary(t, d, b) = Owner!Summary(s, d, b)
         /\ Owner!Cancel(t) = Owner!Cancel(s) /\ Asks(t) \subseteq Asks(s)
<1>1. /\ t \in Works /\ t.create = w
      /\ t.removal = s.removal /\ t.edit = s.edit /\ t.live = s.live
      /\ t.made = s.made /\ t.stray = s.stray
  BY DEF Works
<1>2. ASSUME NEW v PROVE [t EXCEPT !.create = v] = [s EXCEPT !.create = v]
  BY DEF Works
<1>3. ASSUME NEW d PROVE Owner!Submit(t, d) = Owner!Submit(s, d)
  <2>1. Owner!Left(t, d) = Owner!Left(s, d)
    BY <1>1 DEF Owner!Left
  <2>2. \A v, m, e : [t EXCEPT !.create = v, !.made = m, !.stray = e]
                      = [s EXCEPT !.create = v, !.made = m, !.stray = e]
    BY DEF Works
  <2>3. \A v, e : [[t EXCEPT !.create = v] EXCEPT !.stray = e]
                   = [[s EXCEPT !.create = v] EXCEPT !.stray = e]
    BY <1>2
  <2>4. \A v : [t EXCEPT !.create = v].stray = s.stray /\ [s EXCEPT !.create = v].stray = s.stray
    BY <1>1 DEF Works
  <2>. QED
    BY <1>1, <1>2, <2>1, <2>2, <2>3, <2>4, ZenonT(60) DEF Owner!Submit
<1>5. ASSUME NEW d, NEW b PROVE Owner!Summary(t, d, b) = Owner!Summary(s, d, b)
  BY <1>2 DEF Owner!Summary
<1>6. Owner!Cancel(t) = Owner!Cancel(s) /\ Asks(t) \subseteq Asks(s)
  <2>1. ASSUME NEW x \in Asks(t) PROVE x \in Asks(s)
    <3>1. PICK d \in Owner!Drafts, f \in Owner!Fields :
                 x = Owner!Result([t EXCEPT !.create = Owner!Draft(d, f)], Owner!Ask(f))
      BY <1>1, AskedResult, Zenon
    <3>2. x = Owner!Result([s EXCEPT !.create = Owner!Draft(d, f)], Owner!Ask(f))
      BY <1>2, <3>1, Zenon
    <3>. QED
      BY <3>2, AskedResult, Zenon
  <2>2. Owner!Cancel(t) = Owner!Cancel(s)
    BY <1>2 DEF Owner!Cancel
  <2>. QED
    BY <2>1, <2>2
<1>7. ASSUME NEW d PROVE Sums(t, d) = Sums(s, d)
  BY <1>5 DEF Sums
<1>. QED
  BY <1>1, <1>2, <1>3, <1>5, <1>6, <1>7

LEMMA ConfirmsLine ==
  ASSUME NEW s, NEW c, NEW u \in Owner!Utterances
  PROVE  /\ Owner!Confirms(s, c, u) \in {Owner!None, "yes", "no"}
         /\ Owner!Confirms(s, c, u) = "yes" => u.k = "yes"
         /\ Owner!Confirms(s, c, u) \in {Owner!None, Owner!YesNo(u)}
BY LineKinds DEF Owner!Confirms, Owner!YesNo, Owner!None

LEMMA ConfirmationLine ==
  ASSUME NEW s, NEW c, NEW u \in Owner!Utterances, NEW args \in Calls,
         Owner!Confirmation(s, c, u, args) = "yes"
  PROVE  SaysYes(u, args)
BY ConfirmsLine DEF Owner!Confirmation, SaysYes, Calls, Owner!None

(* A submit succeeds, or keeps the draft for a retry and may have left its *)
(* listing.                                                                *)
Succeeds(s, d, x) ==
  x = Owner!Result([s EXCEPT !.create = Owner!Completed, !.made = s.made \cup {d},
                            !.stray = s.stray \ {d}], Owner!Reply("created"))
Fails(s, d, x, w, e) ==
  /\ w \in Creates /\ w.awaiting /\ w.next = Owner!None /\ w.filled = d
  /\ e = s.stray \/ e = s.stray \cup {d}
  /\ x = Owner!Result([s EXCEPT !.create = w, !.made = s.made, !.stray = e],
                      Owner!Reply("failed"))

LEMMA SubmitKinds ==
  ASSUME NEW s \in Works, NEW d \in Owner!Drafts, NEW x \in Owner!Submit(s, d)
  PROVE  Succeeds(s, d, x) \/ \E w, e : Fails(s, d, x, w, e)
<1> DEFINE again == [Owner!Draft(d, Owner!None) EXCEPT !.awaiting = TRUE]
           w == [again EXCEPT !.failed = TRUE]
<1>1. /\ w \in Creates /\ w.awaiting /\ w.next = Owner!None /\ w.filled = d
      /\ again \in Creates /\ again.awaiting /\ again.next = Owner!None /\ again.filled = d
  BY DraftTyped DEF Creates, Owner!Draft, Owner!NoDraft
<1>2. \/ Succeeds(s, d, x)
      \/ x = Owner!Result([s EXCEPT !.create = w], Owner!Reply("failed"))
      \/ x = Owner!Result([[s EXCEPT !.create = w] EXCEPT !.stray = @ \cup {d}],
                          Owner!Reply("failed"))
      \/ x = Owner!Result([s EXCEPT !.create = again], Owner!Reply("failed"))
  BY DEF Owner!Submit, Owner!Left, Succeeds
<1> HIDE DEF again, w
<1>3. \A v : /\ [s EXCEPT !.create = v]
                  = [s EXCEPT !.create = v, !.made = s.made, !.stray = s.stray]
             /\ [[s EXCEPT !.create = v] EXCEPT !.stray = @ \cup {d}]
                  = [s EXCEPT !.create = v, !.made = s.made, !.stray = s.stray \cup {d}]
  BY DEF Works
<1>4. CASE x = Owner!Result([s EXCEPT !.create = w], Owner!Reply("failed"))
  <2>1. Fails(s, d, x, w, s.stray)
    BY <1>1, <1>3, <1>4 DEF Fails
  <2>. QED
    BY <2>1
<1>5. CASE x = Owner!Result([[s EXCEPT !.create = w] EXCEPT !.stray = @ \cup {d}],
                            Owner!Reply("failed"))
  <2>1. Fails(s, d, x, w, s.stray \cup {d})
    BY <1>1, <1>3, <1>5 DEF Fails
  <2>. QED
    BY <2>1
<1>6. CASE x = Owner!Result([s EXCEPT !.create = again], Owner!Reply("failed"))
  <2>1. Fails(s, d, x, again, s.stray)
    BY <1>1, <1>3, <1>6 DEF Fails
  <2>. QED
    BY <2>1
<1>. QED
  BY <1>2, <1>4, <1>5, <1>6

(* Declining, asking, summing up and submitting give results.              *)
LEMMA MovesTyped ==
  ASSUME NEW s \in Works, NEW c \in Chats, NEW d \in Owner!Drafts
  PROVE  /\ Asks(s) \subseteq Results /\ Sums(s, d) \subseteq Results
         /\ Owner!Submit(s, d) \subseteq Results /\ Owner!Cancel(s) \subseteq Results
         /\ Stays(s, c) \subseteq Results
         /\ \A b \in BOOLEAN : Owner!Summary(s, d, b) \subseteq Sums(s, d)
<1>1. ASSUME NEW w \in Creates, NEW r \in Replies
      PROVE  Owner!Result([s EXCEPT !.create = w], r) \in Results
  BY DEF Owner!Result, Results, Works
<1>2. Asks(s) \subseteq Results
  <2>1. \A e \in Owner!Drafts, f \in Owner!Fields : Owner!Draft(e, f) \in Creates
          /\ Owner!Ask(f) \in Replies
    BY DraftTyped DEF Owner!Ask, Replies
  <2> SUFFICES ASSUME NEW x \in Asks(s) PROVE x \in Results
    OBVIOUS
  <2>2. PICK e \in Owner!Drafts, f \in Owner!Fields :
            x = Owner!Result([s EXCEPT !.create = Owner!Draft(e, f)], Owner!Ask(f))
    BY DEF Asks
  <2>. QED
    BY <1>1, <2>1, <2>2
<1>3. Sums(s, d) \subseteq Results
  <2>1. [k |-> "summary", d |-> d] \in Replies
    BY DEF Replies
  <2>2. \A b \in BOOLEAN :
          [Owner!Draft(d, Owner!None) EXCEPT !.awaiting = TRUE, !.failed = b] \in Creates
    BY WaitingTyped
  <2> SUFFICES ASSUME NEW x \in Sums(s, d) PROVE x \in Results
    OBVIOUS
  <2>3. PICK b \in BOOLEAN : x \in Owner!Summary(s, d, b)
    BY DEF Sums
  <2> DEFINE w == [Owner!Draft(d, Owner!None) EXCEPT !.awaiting = TRUE, !.failed = b]
  <2>4. x = Owner!Result([s EXCEPT !.create = w], [k |-> "summary", d |-> d]) /\ w \in Creates
    BY <2>2, <2>3 DEF Owner!Summary
  <2> HIDE DEF w
  <2>. QED
    BY <1>1, <2>1, <2>4
<1>4. Owner!Cancel(s) \subseteq Results
  <2>1. Owner!Draft(Owner!Empty, "name") \in Creates /\ Owner!Reply("cleared") \in Replies
    BY DraftTyped, EmptyTyped DEF Owner!Reply, Replies, Bare, Owner!Fields
  <2>. QED
    BY <1>1, <2>1 DEF Owner!Cancel
<1>5. Stays(s, c) \subseteq Results
  <2>1. Owner!Reconcile(c, s.create) \in Creates
    BY ReconcileCases DEF Works
  <2>2. Owner!Reply("limit") \in Replies /\ Owner!Reply("refused") \in Replies
    BY DEF Owner!Reply, Replies, Bare
  <2>. QED
    BY <1>1, <2>1, <2>2 DEF Stays
<1>6. Owner!Submit(s, d) \subseteq Results
  <2>1. Owner!Reply("created") \in Replies /\ Owner!Reply("failed") \in Replies
    BY DEF Owner!Reply, Replies, Bare
  <2>2. ASSUME NEW w \in Creates, NEW m \in SUBSET Owner!Drafts, NEW e \in SUBSET Owner!Drafts,
               NEW y \in Replies
        PROVE  Owner!Result([s EXCEPT !.create = w, !.made = m, !.stray = e], y) \in Results
    BY <2>2 DEF Owner!Result, Results, Works
  <2> SUFFICES ASSUME NEW x \in Owner!Submit(s, d) PROVE x \in Results
    OBVIOUS
  <2>3. /\ s.made \cup {d} \in SUBSET Owner!Drafts /\ s.stray \cup {d} \in SUBSET Owner!Drafts
        /\ s.made \in SUBSET Owner!Drafts /\ s.stray \in SUBSET Owner!Drafts
        /\ s.stray \ {d} \in SUBSET Owner!Drafts /\ Owner!Completed \in Creates
    BY CompletedTyped DEF Works
  <2>4. Succeeds(s, d, x) \/ \E w, e : Fails(s, d, x, w, e)
    BY SubmitKinds
  <2>5. CASE Succeeds(s, d, x)
    BY <2>1, <2>2, <2>3, <2>5 DEF Succeeds
  <2>6. ASSUME NEW w, NEW e, Fails(s, d, x, w, e) PROVE x \in Results
    BY <2>1, <2>2, <2>3, <2>6 DEF Fails
  <2>. QED
    BY <2>4, <2>5, <2>6
<1>7. \A b \in BOOLEAN : Owner!Summary(s, d, b) \subseteq Sums(s, d)
  BY DEF Sums
<1>. QED
  BY <1>2, <1>3, <1>4, <1>5, <1>6, <1>7

(* What an answer to an open draft may lead to.                            *)
MayAnswer(s, c, u, args, b, x) ==
  \/ x \in Asks(s) /\ (Full(c.recovered) => c.outcome = "created")
  \/ x \in Owner!Cancel(s)
  \/ \E d \in Owner!Drafts : Full(d) /\ x \in Owner!Summary(s, d, b)
  \/ SaysYes(u, args) /\ \E d \in Owner!Drafts : Owner!Complete(d) /\ x \in Owner!Submit(s, d)

(* What the tool answers when it collects. With nothing missing and        *)
(* nothing new it declines, sums up or submits.                            *)
LEMMA CollectAnswers ==
  ASSUME NEW s \in Works, NEW c \in Chats, NEW u \in Owner!Utterances, NEW args \in Calls,
         NEW pre \in Creates
  PROVE  /\ Owner!Collect(s, c, u, pre, args) # {}
         /\ \A x \in Owner!Collect(s, c, u, pre, args) :
              /\ MayAnswer(s, c, u, args, pre.failed, x)
              /\ args.fields = Owner!Empty /\ Full(s.create.filled)
                   => \/ x \in Owner!Cancel(s)
                      \/ x \in Owner!Summary(s, s.create.filled, pre.failed)
                      \/ x \in Owner!Submit(s, s.create.filled)
<1> DEFINE given == [f \in Owner!Fields |-> IF args.fields[f] # Owner!None THEN args.fields[f]
                                      ELSE s.create.filled[f]]
           line == Owner!LastLine(s, c, u, given)
           built == [s EXCEPT !.create = Owner!Draft(line, Owner!FirstMissing(line))]
           d == Owner!Backfill(c, line)
           asked == IF pre.next # Owner!None THEN pre.next ELSE Owner!FirstMissing(line)
           t == [s EXCEPT !.create = Owner!Draft(d, Owner!NextField(d))]
           reading == Owner!Confirmation(t, c, u, args)
           doubt == /\ Owner!Confirms(built, c, u) = Owner!None /\ asked \in {"supply", "rent"}
                    /\ d[asked] = Owner!None /\ Owner!AsAnswer(asked, u) = Owner!None
<1>1. given \in Owner!Drafts
  BY DEF Owner!Drafts, Calls, Works, Creates
<1>2. line \in Owner!Drafts /\ \A f \in Owner!Fields : given[f] # Owner!None => line[f] = given[f]
  <2> HIDE DEF given
  <2>. QED
    BY <1>1, LastLineTyped
<1>3. /\ d \in Owner!Drafts
      /\ \A f \in Owner!Fields : line[f] # Owner!None => d[f] = line[f]
      /\ c.outcome # "created" /\ Full(c.recovered) => Full(d)
  BY <1>2, BackfillTyped
<1>4. Owner!Collect(s, c, u, pre, args)
        = IF doubt THEN Owner!Reject(s, d, asked)
          ELSE IF Owner!NeedsRent(d) THEN {Owner!Result(t, Owner!Ask("rent"))}
          ELSE IF reading = "no" /\ (pre.awaiting \/ Owner!Complete(d)) THEN Owner!Cancel(t)
          ELSE IF reading = "yes" /\ Owner!Complete(d) THEN Owner!Submit(t, d)
          ELSE IF Owner!Complete(d) THEN Owner!Summary(t, d, pre.failed)
          ELSE {Owner!Result(t, Owner!Ask(Owner!FirstMissing(d)))}
  BY Zenon DEF Owner!Collect
<1>5. reading = "yes" => SaysYes(u, args)
  BY ConfirmationLine
<1>6. args.fields = Owner!Empty /\ Full(s.create.filled) => d = s.create.filled
  <2> SUFFICES ASSUME args.fields = Owner!Empty, Full(s.create.filled) PROVE d = s.create.filled
    OBVIOUS
  <2> HIDE DEF d, line
  <2>1. \A f \in Owner!Fields : given[f] = s.create.filled[f]
    BY DEF Owner!Empty
  <2> HIDE DEF given
  <2>2. \A f \in Owner!Fields : d[f] = s.create.filled[f]
    BY <1>2, <1>3, <2>1 DEF Full
  <2>3. s.create.filled \in Owner!Drafts
    BY DEF Works, Creates
  <2>. QED
    BY <1>3, <2>2, <2>3 DEF Owner!Drafts
<1>7. doubt => asked \in Owner!Fields /\ [d EXCEPT ![asked] = Owner!None] \in Owner!Drafts
        /\ ~Full(d)
  <2> HIDE DEF d, asked, built
  <2>1. doubt => asked \in Owner!Fields /\ d[asked] = Owner!None
    BY DEF Owner!Fields
  <2>2. doubt => [d EXCEPT ![asked] = Owner!None] \in Owner!Drafts
    BY <1>3, <2>1, PutTyped DEF Values
  <2>. QED
    BY <2>1, <2>2 DEF Full
<1>8. /\ Owner!NextField(d) \in Owner!Fields \cup {Owner!None}
      /\ Full(d) <=> Owner!Complete(d) /\ ~Owner!NeedsRent(d)
      /\ Owner!Complete(d) <=> Owner!FirstMissing(d) = Owner!None
      /\ Owner!FirstMissing(d) \in {Owner!None, "name", "supply"}
      /\ Owner!NeedsRent(d) => Owner!NextField(d) = "rent"
      /\ ~Owner!NeedsRent(d) => Owner!NextField(d) = Owner!FirstMissing(d)
  BY <1>3, FullIsComplete DEF Owner!NextField
<1>9. pre.failed \in BOOLEAN
  BY DEF Creates
<1>10. Owner!Draft(d, Owner!NextField(d)) \in Creates
  BY <1>3, <1>8, DraftTyped
<1> DEFINE w == Owner!Draft(d, Owner!NextField(d))
<1>11. /\ Owner!Submit(t, d) = Owner!Submit(s, d)
       /\ Owner!Summary(t, d, pre.failed) = Owner!Summary(s, d, pre.failed)
       /\ Owner!Cancel(t) = Owner!Cancel(s)
  <2> HIDE DEF w, d, t
  <2>1. t = [s EXCEPT !.create = w] /\ w \in Creates
    BY <1>10 DEF w, t
  <2>. QED
    BY <2>1, SameElsewhere
<1>12. d \in Owner!Drafts /\ Owner!NextField(d) \in Owner!Fields
         => t = [s EXCEPT !.create = Owner!Draft(d, Owner!NextField(d))]
  OBVIOUS
<1> HIDE DEF given, line, built, d, asked, reading, doubt, w
<1>13. CASE doubt
  <2>1. Owner!Reject(s, d, asked)
          = {Owner!Result(
               [s EXCEPT !.create = Owner!Draft([d EXCEPT ![asked] = Owner!None], asked)],
               Owner!Ask(asked))}
    BY DEF Owner!Reject
  <2>2. Owner!Reject(s, d, asked) \subseteq Asks(s) /\ Owner!Reject(s, d, asked) # {}
    BY <1>7, <1>13, <2>1 DEF Asks
  <2>. QED
    BY <1>3, <1>4, <1>6, <1>7, <1>13, <2>2 DEF MayAnswer
<1>14. CASE ~doubt /\ Owner!NeedsRent(d)
  <2>1. Owner!Collect(s, c, u, pre, args) = {Owner!Result(t, Owner!Ask("rent"))}
    BY <1>4, <1>14
  <2>2. Owner!Result(t, Owner!Ask("rent")) \in Asks(s)
    BY <1>3, <1>8, <1>14 DEF Asks, Owner!Fields
  <2>. QED
    BY <1>3, <1>6, <1>8, <1>14, <2>1, <2>2 DEF MayAnswer
<1>15. CASE ~doubt /\ ~Owner!NeedsRent(d) /\ ~Owner!Complete(d)
  <2>1. Owner!Collect(s, c, u, pre, args)
          \in {Owner!Cancel(s), {Owner!Result(t, Owner!Ask(Owner!FirstMissing(d)))}}
    BY <1>4, <1>11, <1>15
  <2>2. Owner!Result(t, Owner!Ask(Owner!FirstMissing(d))) \in Asks(s)
    BY <1>3, <1>8, <1>15 DEF Asks, Owner!Fields
  <2>3. Owner!Cancel(s) # {}
    BY DEF Owner!Cancel
  <2>. QED
    BY <1>3, <1>6, <1>8, <1>15, <2>1, <2>2, <2>3 DEF MayAnswer
<1>16. CASE ~doubt /\ ~Owner!NeedsRent(d) /\ Owner!Complete(d)
  <2>1. \/ Owner!Collect(s, c, u, pre, args) = Owner!Cancel(s)
        \/ Owner!Collect(s, c, u, pre, args) = Owner!Submit(s, d) /\ SaysYes(u, args)
        \/ Owner!Collect(s, c, u, pre, args) = Owner!Summary(s, d, pre.failed)
    BY <1>4, <1>5, <1>11, <1>16
  <2>2. Owner!Cancel(s) # {} /\ Owner!Submit(s, d) # {} /\ Owner!Summary(s, d, pre.failed) # {}
    BY DEF Owner!Cancel, Owner!Submit, Owner!Summary
  <2>. QED
    BY <1>3, <1>6, <1>8, <1>16, <2>1, <2>2 DEF MayAnswer
<1>. QED
  BY <1>13, <1>14, <1>15, <1>16

(* The session that the history completes is the only thing that the       *)
(* confirmation turn changes; it ends the turn with a deployed draft only  *)
(* at a Yes.                                                               *)
Turned(s, u, args, d, turn) ==
  /\ d \in Owner!Drafts
  /\ \E w \in Creates : turn.s = [s EXCEPT !.create = w] /\ w.filled = d
  /\ \/ turn.ends = {} \/ turn.ends = Owner!Cancel(s)
     \/ turn.ends = Owner!Submit(s, d) /\ Owner!Complete(d) /\ SaysYes(u, args)

(* What a Yes or a No ends a turn of the confirmation with.                *)
LEMMA TurnEnds ==
  ASSUME NEW s \in Works, NEW c \in Chats, NEW u \in Owner!Utterances, NEW args \in Calls,
         NEW pre \in Creates, s.create = pre
  PROVE  Turned(s, u, args, Owner!Backfill(c, pre.filled),
           Owner!ConfirmationTurn(s, c, u, pre, args))
<1> DEFINE d == Owner!Backfill(c, pre.filled)
           v == [pre EXCEPT !.progress = TRUE, !.filled = d]
           w == IF d = pre.filled THEN pre ELSE v
           t == IF d = pre.filled THEN s ELSE [s EXCEPT !.create = v]
           turn == Owner!ConfirmationTurn(s, c, u, pre, args)
           reading == Owner!Confirmation(t, c, u, args)
<1>1. d \in Owner!Drafts
  BY BackfillTyped DEF Creates
<1> HIDE DEF d
<1>2. w \in Creates /\ w.filled = d
  BY <1>1 DEF Creates
<1>3. t = [s EXCEPT !.create = w]
  BY DEF Works
<1>4. turn.s = t /\ turn.ends = IF ~pre.awaiting /\ ~Owner!Complete(d) THEN {}
                 ELSE IF reading = "yes" /\ Owner!Complete(d) THEN Owner!Submit(t, d)
                 ELSE IF reading = "no" THEN Owner!Cancel(t)
                 ELSE {}
  BY DEF Owner!ConfirmationTurn, d
<1> HIDE DEF w, t, turn, reading
<1>5. Owner!Submit(t, d) = Owner!Submit(s, d) /\ Owner!Cancel(t) = Owner!Cancel(s)
  BY <1>2, <1>3, SameElsewhere
<1>6. reading = "yes" => SaysYes(u, args)
  BY ConfirmationLine DEF reading
<1>. QED
  BY <1>1, <1>2, <1>3, <1>4, <1>5, <1>6 DEF d, turn, Turned

(* What fill_create_property may lead to.                                  *)
LEMMA FillMoves ==
  ASSUME NEW s \in Works, NEW c \in Chats, NEW u \in Owner!Utterances, NEW args \in Calls
  PROVE  LET seen == Owner!Reconcile(c, s.create)
         IN /\ Owner!Fill(s, c, u, args) # {}
            /\ \A x \in Owner!Fill(s, c, u, args) :
                 \/ x \in Stays(s, c)
                 \/ /\ ~seen.limit /\ (s.edit = Owner!None \/ u.k = "create")
                    /\ \E b \in {FALSE, seen.failed} : MayAnswer(s, c, u, args, b, x)
<1> DEFINE seen == Owner!Reconcile(c, s.create)
           pre == IF Owner!DropsDraft(seen, u, args) THEN Owner!NoDraft ELSE seen
           s1 == [s EXCEPT !.create = pre]
           turn == Owner!ConfirmationTurn(s1, c, u, pre, args)
           kept(k) == {Owner!Result([s EXCEPT !.create = seen], Owner!Reply(k))}
<1>1. seen \in Creates
  BY ReconcileCases DEF Works
<1> HIDE DEF seen
<1>2. pre \in Creates /\ pre.failed \in {FALSE, seen.failed}
  <2>1. pre = Owner!NoDraft \/ pre = seen
    OBVIOUS
  <2> HIDE DEF pre
  <2>. QED
    BY <1>1, <2>1, CompletedTyped DEF Creates
<1> HIDE DEF pre
<1>3. s1 \in Works /\ s1.create = pre
  BY <1>2, SameElsewhere
<1>4. Owner!Fill(s, c, u, args) =
        IF seen.limit THEN kept("limit")
        ELSE IF s.edit # Owner!None /\ u.k # "create" THEN kept("refused")
        ELSE IF turn.ends # {} THEN turn.ends
        ELSE Owner!Collect(turn.s, c, u, pre, args)
  BY Zenon DEF Owner!Fill, seen, pre
<1>5. kept("limit") # {} /\ kept("limit") \subseteq Stays(s, c)
      /\ kept("refused") # {} /\ kept("refused") \subseteq Stays(s, c)
  BY DEF Stays, seen
<1>6. /\ \E w \in Creates : turn.s = [s1 EXCEPT !.create = w]
      /\ \/ turn.ends = {} \/ turn.ends = Owner!Cancel(s1)
         \/ SaysYes(u, args) /\ \E d \in Owner!Drafts :
              Owner!Complete(d) /\ turn.ends = Owner!Submit(s1, d)
  <2> HIDE DEF s1
  <2> DEFINE d == Owner!Backfill(c, pre.filled)
  <2>1. Turned(s1, u, args, d, turn)
    BY <1>2, <1>3, TurnEnds
  <2> HIDE DEF turn, d
  <2>. QED
    BY <2>1, Zenon DEF Turned
<1>7. s1 = [s EXCEPT !.create = pre]
  OBVIOUS
<1> HIDE DEF turn, kept, s1
<1>8. /\ \A d : /\ Owner!Submit(s1, d) = Owner!Submit(s, d)
               /\ \A b : Owner!Summary(s1, d, b) = Owner!Summary(s, d, b)
      /\ Owner!Cancel(s1) = Owner!Cancel(s) /\ Asks(s1) \subseteq Asks(s)
  BY <1>2, <1>7, SameElsewhere
<1>9. PICK w \in Creates : turn.s = [s1 EXCEPT !.create = w]
  BY <1>6
<1>10. /\ turn.s \in Works
       /\ \A d : /\ Owner!Submit(turn.s, d) = Owner!Submit(s, d)
                /\ \A b : Owner!Summary(turn.s, d, b) = Owner!Summary(s, d, b)
       /\ Owner!Cancel(turn.s) = Owner!Cancel(s) /\ Asks(turn.s) \subseteq Asks(s)
  BY <1>3, <1>8, <1>9, SameElsewhere
<1> DEFINE b == pre.failed
           turned == turn.s
<1>11. /\ Owner!Collect(turned, c, u, pre, args) # {}
       /\ \A x \in Owner!Collect(turned, c, u, pre, args) : MayAnswer(turned, c, u, args, b, x)
  <2> HIDE DEF b
  <2>1. turned \in Works
    BY <1>10
  <2> HIDE DEF turned
  <2>. QED
    BY <1>2, <2>1, CollectAnswers DEF b
<1>12. \A x : MayAnswer(turned, c, u, args, b, x) => MayAnswer(s, c, u, args, b, x)
  BY <1>10 DEF MayAnswer
<1>13. CASE seen.limit \/ (s.edit # Owner!None /\ u.k # "create")
  BY <1>4, <1>5, <1>13 DEF seen
<1>14. CASE ~seen.limit /\ ~(s.edit # Owner!None /\ u.k # "create") /\ turn.ends # {}
  <2>1. Owner!Fill(s, c, u, args) = turn.ends
    BY <1>4, <1>14
  <2>2. \A x \in turn.ends : MayAnswer(s, c, u, args, b, x)
    BY <1>6, <1>8 DEF MayAnswer
  <2>. QED
    BY <1>2, <1>14, <2>1, <2>2 DEF seen
<1>15. CASE ~seen.limit /\ ~(s.edit # Owner!None /\ u.k # "create") /\ turn.ends = {}
  <2>1. Owner!Fill(s, c, u, args) = Owner!Collect(turned, c, u, pre, args)
    BY <1>4, <1>15
  <2>. QED
    BY <1>2, <1>11, <1>12, <1>15, <2>1 DEF seen
<1>. QED
  BY <1>13, <1>14, <1>15

(* A draft that waits for its Yes is declined, shown again or deployed.    *)
LEMMA FillConfirms ==
  ASSUME NEW s \in Works, NEW c \in Chats, NEW u \in Owner!Utterances, NEW args \in Calls,
         args.fields = Owner!Empty, Owner!Reconcile(c, s.create).awaiting,
         Full(Owner!Reconcile(c, s.create).filled)
  PROVE  LET seen == Owner!Reconcile(c, s.create)
         IN \A x \in Owner!Fill(s, c, u, args) :
              \/ x \in Stays(s, c)
              \/ /\ ~seen.limit
                 /\ \/ x \in Owner!Cancel(s) \/ x \in Owner!Summary(s, seen.filled, seen.failed)
                    \/ x \in Owner!Submit(s, seen.filled)
<1> DEFINE seen == Owner!Reconcile(c, s.create)
           s1 == [s EXCEPT !.create = seen]
           d == seen.filled
           turn == Owner!ConfirmationTurn(s1, c, u, seen, args)
           kept(k) == {Owner!Result([s EXCEPT !.create = seen], Owner!Reply(k))}
<1>1. seen \in Creates
  BY ReconcileCases DEF Works
<1>2. ~Owner!DropsDraft(seen, u, args)
  BY DEF Owner!DropsDraft
<1> HIDE DEF seen
<1>3. s1 \in Works /\ s1.create = seen /\ d \in Owner!Drafts
  BY <1>1, SameElsewhere DEF Creates
<1>4. Owner!Fill(s, c, u, args) =
        IF seen.limit THEN kept("limit")
        ELSE IF s.edit # Owner!None /\ u.k # "create" THEN kept("refused")
        ELSE IF turn.ends # {} THEN turn.ends
        ELSE Owner!Collect(turn.s, c, u, seen, args)
  BY <1>2, Zenon DEF Owner!Fill, seen
<1>5. kept("limit") \subseteq Stays(s, c) /\ kept("refused") \subseteq Stays(s, c)
  BY DEF Stays, seen
<1>6. Owner!Backfill(c, d) = d
  BY <1>3, BackfillTyped DEF seen
<1>7. /\ \E w \in Creates : turn.s = [s1 EXCEPT !.create = w] /\ w.filled = d
      /\ turn.ends = {} \/ turn.ends = Owner!Cancel(s1) \/ turn.ends = Owner!Submit(s1, d)
  <2> HIDE DEF s1
  <2> DEFINE e == Owner!Backfill(c, seen.filled)
  <2>1. Turned(s1, u, args, e, turn) /\ e = d
    BY <1>1, <1>3, <1>6, TurnEnds
  <2> HIDE DEF turn, e, d
  <2>. QED
    BY <2>1, Zenon DEF Turned
<1>8. s1 = [s EXCEPT !.create = seen]
  OBVIOUS
<1> HIDE DEF turn, kept, s1, d
<1>9. Owner!Submit(s1, d) = Owner!Submit(s, d) /\ Owner!Cancel(s1) = Owner!Cancel(s)
      /\ \A b : Owner!Summary(s1, d, b) = Owner!Summary(s, d, b)
  BY <1>1, <1>8, SameElsewhere
<1>10. PICK w \in Creates : turn.s = [s1 EXCEPT !.create = w] /\ w.filled = d
  BY <1>7
<1> DEFINE turned == turn.s
<1>11. /\ turned \in Works /\ turned.create = w
       /\ Owner!Submit(turned, d) = Owner!Submit(s, d) /\ Owner!Cancel(turned) = Owner!Cancel(s)
       /\ \A b : Owner!Summary(turned, d, b) = Owner!Summary(s, d, b)
  BY <1>3, <1>9, <1>10, SameElsewhere
<1> HIDE DEF turned
<1>12. \A x \in Owner!Collect(turned, c, u, seen, args) :
         \/ x \in Owner!Cancel(turned) \/ x \in Owner!Summary(turned, d, seen.failed)
         \/ x \in Owner!Submit(turned, d)
  <2>1. turned.create.filled = d /\ Full(d)
    BY <1>10, <1>11 DEF d, seen
  <2>. QED
    BY <1>1, <1>11, <2>1, CollectAnswers
<1>. QED
  BY <1>4, <1>5, <1>7, <1>9, <1>11, <1>12 DEF seen, d, turned
-----------------------------------------------------------------------------
(* Nothing has been asked or shown since the chat began.                   *)
Untouched(w, c) == /\ c.shown = Owner!Empty /\ w.filled = Owner!Empty
                   /\ c.recovered["supply"] = Owner!None /\ c.pending \in {Owner!None, "name"}

(* The session and the history agree: what waits for a Yes is what the     *)
(* last summary showed, and after a failure the two together give it.      *)
Faithful(w, c) ==
  /\ c.shown # Owner!Empty => Full(c.shown)
  /\ c.shown # Owner!Empty \/ c.outcome = "failed" => Full(c.recovered)
  /\ c.outcome # "created" =>
     /\ w.awaiting => Full(w.filled) /\ w.next = Owner!None
     /\ c.last = "summary" => w.awaiting
     /\ w.failed => c.outcome = "failed"
     /\ c.shown # Owner!Empty /\ w.awaiting => w.filled = c.shown
     /\ c.shown # Owner!Empty /\ c.outcome = "failed"
          => Owner!Merge(w.filled, c.recovered) = c.shown
     /\ c.outcome = Owner!None /\ w.awaiting => c.shown # Owner!Empty
     /\ c.outcome = Owner!None /\ ~w.awaiting /\ w.next = Owner!None => Untouched(w, c)

(* A result that leaves the create session, the drafts and what was        *)
(* deployed as they are, and removes at most the listing that is its turn. *)
Aside(s, c, x) ==
  /\ x \in Results
  /\ x.s.create \in {s.create, Owner!Reconcile(c, s.create)}
  /\ x.s.made = s.made /\ x.s.stray = s.stray
  /\ \/ /\ x.s.removal = s.removal /\ x.s.live = s.live
        /\ x.reply.k \in Plain \cup {"editing"}
     \/ /\ x.s.removal.target = Owner!None /\ x.s.live = s.live
        /\ x.reply.k \in {"which", "kept"}
     \/ /\ x.reply.k = "confirm" /\ x.s.live = s.live
        /\ x.s.removal.target = x.reply.p
     \/ /\ x.reply.k = "removed" /\ x.s.removal.target = Owner!None
        /\ x.s.live = s.live \ {s.removal.target}

(* A result that is a step of the create workflow.                         *)
Deals(s, c, x) ==
  \/ x \in Asks(s) /\ (Faithful(s.create, c) => c.outcome # "failed")
  \/ x \in Owner!Cancel(s)
  \/ \E d \in Owner!Drafts, b \in BOOLEAN :
       /\ x \in Owner!Summary(s, d, b)
       /\ Faithful(s.create, c) => Full(d) /\ (b => c.outcome = "failed")
  \/ \E d \in Owner!Drafts :
       /\ x \in Owner!Submit(s, d)
       /\ Faithful(s.create, c) =>
            Full(d) /\ Full(c.recovered) /\ (c.shown # Owner!Empty => d = c.shown)

Move(s, c, x) == Aside(s, c, x) \/ (~Owner!Reconcile(c, s.create).limit /\ Deals(s, c, x))

(* Comparing the session with the history keeps them agreed, and shows     *)
(* what they are agreed on.                                                *)
LEMMA Agreement ==
  ASSUME NEW c \in Chats, NEW w \in Creates, Faithful(w, c)
  PROVE  LET r == Owner!Reconcile(c, w)
         IN /\ Faithful(r, c)
            /\ ~r.limit => c.outcome # "created" /\ (r.failed => c.outcome = "failed")
            /\ ~r.limit /\ r.awaiting =>
                 Full(r.filled) /\ Full(c.recovered)
                   /\ (c.shown # Owner!Empty => r.filled = c.shown)
            /\ ~r.limit /\ ~r.awaiting => c.outcome = Owner!None /\ r = w
<1> DEFINE r == Owner!Reconcile(c, w)
           d == Owner!Backfill(c, w.filled)
           v == [Owner!Draft(d, Owner!None) EXCEPT !.awaiting = TRUE, !.failed = TRUE]
<1>1. c.outcome \in {Owner!None, "created", "failed"} /\ w.filled \in Owner!Drafts
        /\ c.recovered \in Owner!Drafts
  BY DEF Chats, Creates
<1>2. d \in Owner!Drafts
      /\ (c.outcome # "created" => d = Owner!Merge(w.filled, c.recovered))
      /\ (c.outcome # "created" /\ Full(c.recovered) => Full(d) /\ Owner!Complete(d))
  <2>1. /\ d \in Owner!Drafts
        /\ (c.outcome # "created" => d = Owner!Merge(w.filled, c.recovered))
        /\ (c.outcome # "created" /\ Full(c.recovered) => Full(d))
    BY <1>1, BackfillTyped
  <2> HIDE DEF d
  <2>. QED
    BY <2>1, FullIsComplete
<1>3. /\ c.outcome = "created" => r.limit /\ (r = w \/ r = Owner!Completed)
      /\ c.outcome = Owner!None => r = w
      /\ c.outcome = "failed" /\ Owner!Complete(d) => r = v
  BY ReconcileCases
<1>4. v.filled = d /\ v.next = Owner!None /\ v.awaiting /\ v.failed = TRUE /\ ~v.limit
  <2> HIDE DEF d
  <2>. QED
    BY <1>2, WaitingTyped
<1> HIDE DEF r, v, d
<1>5. CASE c.outcome = "created"
  BY <1>3, <1>5 DEF Faithful, r
<1>6. CASE c.outcome = Owner!None
  BY <1>3, <1>6 DEF Faithful, r, Owner!None
<1>7. CASE c.outcome = "failed"
  <2>1. Full(c.recovered) /\ r = v /\ Full(d)
    BY <1>2, <1>3, <1>7 DEF Faithful
  <2>2. Owner!Merge(d, c.recovered) = d
    BY <1>1, <1>2, <2>1, FullMerge
  <2>3. c.shown # Owner!Empty => d = c.shown
    BY <1>2, <1>7 DEF Faithful
  <2>4. Faithful(r, c)
    BY <1>4, <1>7, <2>1, <2>2, <2>3 DEF Faithful, Owner!None
  <2>. QED
    BY <1>4, <1>7, <2>1, <2>3, <2>4 DEF r
<1>. QED
  BY <1>1, <1>5, <1>6, <1>7

(* A result that only talks moves nothing.                                 *)
LEMMA StaysAside ==
  ASSUME NEW s \in Works, NEW c \in Chats, NEW x \in Stays(s, c)
  PROVE  Move(s, c, x)
<1>1. x \in Results
  BY MovesTyped, EmptyTyped
<1>2. PICK k \in {"limit", "refused"} :
             x = Owner!Result([s EXCEPT !.create = Owner!Reconcile(c, s.create)], Owner!Reply(k))
  BY DEF Stays
<1> DEFINE r == Owner!Reconcile(c, s.create)
<1> HIDE DEF r
<1>3. /\ x.s.create = r /\ x.s.made = s.made /\ x.s.stray = s.stray /\ x.s.removal = s.removal /\ x.s.live = s.live
      /\ x.reply.k = k
  BY <1>2 DEF Works, Owner!Result, Owner!Reply, r
<1>. QED
  BY <1>1, <1>3 DEF Move, Aside, Plain, r

(* A call that says no Yes.                                                *)
LEMMA HarmlessFill ==
  ASSUME NEW s \in Works, NEW c \in Chats, NEW u \in Owner!Utterances, NEW args \in Calls,
         ~SaysYes(u, args), NEW x \in Owner!Fill(s, c, u, args)
  PROVE  Move(s, c, x)
<1> DEFINE r == Owner!Reconcile(c, s.create)
<1>1. r \in Creates /\ (c.outcome = "created" => r.limit)
  BY ReconcileCases DEF Works
<1>2. Faithful(s.create, c) /\ ~r.limit => (r.failed => c.outcome = "failed")
  BY Agreement DEF Works
<1>3. Faithful(s.create, c) /\ c.outcome = "failed" => Full(c.recovered)
  BY DEF Faithful
<1>4. \/ x \in Stays(s, c)
      \/ ~r.limit /\ \E b \in {FALSE, r.failed} : MayAnswer(s, c, u, args, b, x)
  BY FillMoves
<1> HIDE DEF r
<1>5. CASE x \in Stays(s, c)
  BY <1>5, StaysAside
<1>6. ASSUME ~r.limit, NEW b \in {FALSE, r.failed}, MayAnswer(s, c, u, args, b, x)
      PROVE  Move(s, c, x)
  <2>1. b \in BOOLEAN
    BY <1>1 DEF Creates
  <2>2. c.outcome # "created"
    BY <1>1, <1>6
  <2>3. Deals(s, c, x)
    BY <1>2, <1>3, <1>6, <2>1, <2>2 DEF MayAnswer, Deals
  <2>. QED
    BY <1>6, <2>3 DEF Move, r
<1>. QED
  BY <1>4, <1>5, <1>6

(* A Yes or a No to a draft that waits for it.                             *)
LEMMA ConfirmingFill ==
  ASSUME NEW s \in Works, NEW c \in Chats, NEW u \in Owner!Utterances, NEW args \in Calls,
         args.fields = Owner!Empty, NEW x \in Owner!Fill(s, c, u, args),
         Faithful(s.create, c) /\ ~Owner!Reconcile(c, s.create).limit
           => Owner!Reconcile(c, s.create).awaiting
  PROVE  Move(s, c, x)
<1> DEFINE r == Owner!Reconcile(c, s.create)
<1>1. r \in Creates
  BY ReconcileCases DEF Works
<1>2. \/ x \in Stays(s, c)
      \/ ~r.limit /\ \E b \in {FALSE, r.failed} : MayAnswer(s, c, u, args, b, x)
  BY FillMoves
<1>3. Faithful(s.create, c) /\ ~r.limit =>
        /\ r.failed => c.outcome = "failed"
        /\ Full(r.filled) /\ Full(c.recovered) /\ (c.shown # Owner!Empty => r.filled = c.shown)
  BY Agreement DEF Works
<1>4. Faithful(s.create, c) /\ ~r.limit =>
        \/ x \in Stays(s, c)
        \/ x \in Owner!Cancel(s) \/ x \in Owner!Summary(s, r.filled, r.failed)
        \/ x \in Owner!Submit(s, r.filled)
  BY <1>3, FillConfirms
<1>5. r.filled \in Owner!Drafts /\ r.failed \in BOOLEAN
  BY <1>1 DEF Creates
<1>6. CASE x \in Stays(s, c)
  BY <1>6, StaysAside
<1> HIDE DEF r
<1>7. CASE x \notin Stays(s, c) /\ Faithful(s.create, c)
  <2>1. ~r.limit
    BY <1>2, <1>7
  <2>2. Deals(s, c, x)
    BY <1>3, <1>4, <1>5, <1>7, <2>1 DEF Deals
  <2>. QED
    BY <2>1, <2>2 DEF Move, r
<1>8. CASE x \notin Stays(s, c) /\ ~Faithful(s.create, c)
  <2>1. PICK b \in BOOLEAN : ~r.limit /\ MayAnswer(s, c, u, args, b, x)
    BY <1>2, <1>5, <1>8
  <2>2. Deals(s, c, x)
    BY <1>8, <2>1 DEF Deals, MayAnswer
  <2>. QED
    BY <2>1, <2>2 DEF Move, r
<1>. QED
  BY <1>6, <1>7, <1>8
-----------------------------------------------------------------------------
(* The preflights and the tools, one by one.                               *)
LEMMA AnswerMoves ==
  ASSUME Owner!Distinct,
         NEW s \in Works, NEW c \in Chats, NEW u \in Owner!Utterances,
         NEW x \in Owner!TryAnswer(s, c, u)
  PROVE  Move(s, c, x)
<1> DEFINE r == Owner!Reconcile(c, s.create)
           d == Owner!Backfill(c, r.filled)
           f == IF r.next # Owner!None THEN r.next ELSE Owner!NextField(d)
           v == Owner!AsAnswer(f, u)
<1>1. r \in Creates /\ r.filled \in Owner!Drafts /\ r.next \in Owner!Fields \cup {Owner!None}
  BY ReconcileCases DEF Works, Creates
<1>2. d \in Owner!Drafts
  BY <1>1, BackfillTyped
<1>3. f \in Owner!Fields \cup {Owner!None}
  BY <1>1, <1>2, FullIsComplete
<1>4. /\ ~(Owner!Idle(s, c, u) \/ u.k = "create" \/ f = Owner!None)
      /\ x \in IF f # "name" /\ v = Owner!None THEN Owner!Reject(s, r.filled, f)
               ELSE Owner!Fill(s, c, u, Owner!Carries(f, v))
  <2> HIDE DEF r, d, f, v
  <2>1. Owner!TryAnswer(s, c, u)
          = IF Owner!Idle(s, c, u) \/ u.k = "create" \/ f = Owner!None THEN {}
            ELSE IF f # "name" /\ v = Owner!None THEN Owner!Reject(s, r.filled, f)
            ELSE Owner!Fill(s, c, u, Owner!Carries(f, v))
    BY Zenon DEF Owner!TryAnswer, r, d, f, v
  <2>. QED
    BY <2>1
<1>5. ~r.limit /\ ~r.awaiting
  BY <1>4, Zenon DEF Owner!Idle
<1>6. f \in Owner!Fields
  BY <1>3, <1>4
<1>7. f = "name" => v # Owner!None
  <2>1. u.k = "say" => u.v # Owner!None
    BY LineKinds DEF Owner!Answers, Owner!Distinct
  <2>. QED
    BY <1>4, <2>1 DEF Owner!AsAnswer, Owner!Words, Owner!None
<1> HIDE DEF d, f
<1>8. v \in Values
  BY <1>6, AnswerTyped
<1> HIDE DEF v
<1>9. CASE f # "name" /\ v = Owner!None
  <2>1. x = Owner!Result([s EXCEPT !.create = Owner!Draft([r.filled EXCEPT ![f] = Owner!None], f)],
          Owner!Ask(f))
    BY <1>4, <1>9 DEF Owner!Reject
  <2>2. [r.filled EXCEPT ![f] = Owner!None] \in Owner!Drafts
    BY <1>1, <1>6, PutTyped DEF Values
  <2>3. x \in Asks(s)
    BY <1>6, <2>1, <2>2 DEF Asks
  <2>4. Faithful(s.create, c) => c.outcome # "failed"
    BY <1>5, Agreement DEF Works, Owner!None
  <2>. QED
    BY <1>5, <2>3, <2>4 DEF Move, Deals
<1>10. CASE ~(f # "name" /\ v = Owner!None)
  <2> DEFINE args == Owner!Carries(f, v)
  <2>1. args \in Calls /\ args.fields[f] = v /\ args.confirm = Owner!None
    BY <1>6, <1>8, EmptyTyped, PutTyped
      DEF Owner!Carries, Owner!NoArgs, Calls, Owner!Empty, Owner!Drafts, Values
  <2>2. v # Owner!None
    BY <1>7, <1>10
  <2>3. args.fields # Owner!Empty
    BY <1>6, <2>1, <2>2 DEF Owner!Empty
  <2>4. x \in Owner!Fill(s, c, u, args)
    BY <1>4, <1>10
  <2> HIDE DEF args
  <2>5. ~SaysYes(u, args)
    BY <2>1, <2>3 DEF SaysYes, Owner!None
  <2>. QED
    BY <2>1, <2>4, <2>5, HarmlessFill
<1>. QED
  BY <1>9, <1>10

LEMMA NoArgsTyped ==
  /\ Owner!NoArgs \in Calls /\ Owner!NoArgs.fields = Owner!Empty
  /\ Owner!NoArgs.confirm = Owner!None
  /\ \A k \in {"yes", "no"} : LET args == [Owner!NoArgs EXCEPT !.confirm = k]
                              IN args \in Calls /\ args.fields = Owner!Empty
BY EmptyTyped DEF Owner!NoArgs, Calls

(* The summary preflight never meets a Yes: what reads as a Yes but not as *)
(* the answer to a summary is taken by the answer preflight.               *)
LEMMA SummaryMoves ==
  ASSUME NEW s \in Works, NEW c \in Chats, NEW u \in Owner!Utterances,
         NEW x \in Owner!TrySummary(s, c, u),
         Owner!TryAnswer(s, c, u) = {}
  PROVE  Move(s, c, x)
<1> DEFINE r == Owner!Reconcile(c, s.create)
           d == Owner!Backfill(c, r.filled)
           f == IF r.next # Owner!None THEN r.next ELSE Owner!NextField(d)
           v == Owner!AsAnswer(f, u)
<1>1. r \in Creates /\ r.filled \in Owner!Drafts /\ r.next \in Owner!Fields \cup {Owner!None}
  BY ReconcileCases DEF Works, Creates
<1>2. d \in Owner!Drafts
  BY <1>1, BackfillTyped
<1>3. x \in Owner!Fill(s, c, u, Owner!NoArgs) /\ ~Owner!Idle(s, c, u)
  BY Zenon DEF Owner!TrySummary
<1>4. Owner!Confirms(s, c, u) = Owner!None
  BY <1>3, Zenon DEF Owner!Idle
<1>5. f \in Owner!Fields \cup {Owner!None} /\ (f = Owner!None => r.next = Owner!None /\ Full(d))
  BY <1>1, <1>2, FullIsComplete DEF Owner!Fields, Owner!None
<1>6. u.k = "yes" => f # Owner!None
  <2> SUFFICES ASSUME u.k = "yes", f = Owner!None PROVE FALSE
    OBVIOUS
  <2>1. Owner!YesNo(u) = "yes"
    BY DEF Owner!YesNo
  <2>2. Owner!Collecting(s, c)
    BY <1>4, <2>1 DEF Owner!Confirms, Owner!None
  <2>3. r.next # Owner!None \/ ~Owner!Complete(d) \/ Owner!NeedsRent(d)
    <3> HIDE DEF f, v
    <3>. QED
      BY <2>2, Zenon DEF Owner!Collecting
  <2>4. r.next = Owner!None /\ Owner!Complete(d) /\ ~Owner!NeedsRent(d)
    <3> HIDE DEF d, r
    <3>. QED
      BY <1>2, <1>5, FullIsComplete
  <2>. QED
    BY <2>3, <2>4
<1>7. u.k # "yes"
  <2> SUFFICES ASSUME u.k = "yes" PROVE FALSE
    OBVIOUS
  <2> HIDE DEF r, d, f, v
  <2>1. Owner!TryAnswer(s, c, u)
          = IF Owner!Idle(s, c, u) \/ u.k = "create" \/ f = Owner!None THEN {}
            ELSE IF f # "name" /\ v = Owner!None THEN Owner!Reject(s, r.filled, f)
            ELSE Owner!Fill(s, c, u, Owner!Carries(f, v))
    BY Zenon DEF Owner!TryAnswer, r, d, f, v
  <2>2. Owner!Reject(s, r.filled, f) # {}
    BY DEF Owner!Reject
  <2>3. Owner!Fill(s, c, u, Owner!Carries(f, v)) # {}
    <3>1. f \in Owner!Fields
      BY <1>5, <1>6
    <3>2. v \in Values
      BY <3>1, AnswerTyped DEF v
    <3>3. Owner!Carries(f, v) \in Calls
      BY <3>1, <3>2, EmptyTyped, PutTyped DEF Owner!Carries, Owner!NoArgs, Calls
    <3>. QED
      BY <3>3, FillMoves
  <2>4. ~Owner!Idle(s, c, u) /\ u.k # "create" /\ f # Owner!None
    BY <1>3, <1>6
  <2>. QED
    BY <2>1, <2>2, <2>3, <2>4
<1>8. ~SaysYes(u, Owner!NoArgs)
  BY <1>7, NoArgsTyped DEF SaysYes, Owner!None
<1>. QED
  BY <1>3, <1>8, NoArgsTyped, HarmlessFill

(* A Yes that reaches the submit preflight answers a summary.              *)
LEMMA SubmitMoves ==
  ASSUME NEW s \in Works, NEW c \in Chats, NEW u \in Owner!Utterances,
         NEW x \in Owner!TrySubmit(s, c, u)
  PROVE  Move(s, c, x)
<1> DEFINE r == Owner!Reconcile(c, s.create)
           d == Owner!Backfill(c, r.filled)
<1>1. r \in Creates /\ r.filled \in Owner!Drafts
  BY ReconcileCases DEF Works, Creates
<1>2. /\ x \in Owner!Fill(s, c, u, Owner!NoArgs) /\ Owner!Confirms(s, c, u) = "yes" /\ ~r.limit
      /\ Owner!Complete(d)
  BY Zenon DEF Owner!TrySubmit
<1>3. ASSUME Faithful(s.create, c), ~r.awaiting PROVE FALSE
  <2>1. c.outcome = Owner!None /\ r = s.create
    BY <1>2, <1>3, Agreement DEF Works
  <2>2. c.last # "summary"
    BY <1>3, <2>1 DEF Faithful, Owner!None
  <2>3. r.next = Owner!None
    <3>1. ~Owner!Collecting(s, c)
      BY <1>2 DEF Owner!Confirms, Owner!None
    <3>. QED
      BY <1>3, <2>2, <3>1, Zenon DEF Owner!Collecting
  <2>4. Untouched(s.create, c)
    BY <1>3, <2>1, <2>3 DEF Faithful, Owner!None
  <2>5. d = Owner!Merge(r.filled, c.recovered)
    BY <2>1 DEF Owner!Backfill, Owner!None
  <2>6. d["supply"] = Owner!None
    BY <2>1, <2>4, <2>5 DEF Untouched, Owner!Merge, Owner!Empty, Owner!Fields
  <2>. QED
    BY <1>2, <2>6 DEF Owner!Complete, Owner!Required, Owner!Fields
<1>4. Faithful(s.create, c) /\ ~r.limit => r.awaiting
  BY <1>3
<1>. QED
  BY <1>2, <1>4, NoArgsTyped, ConfirmingFill

LEMMA CreateMoves ==
  ASSUME NEW s \in Works, NEW c \in Chats, NEW x \in Owner!StartCreate(s, c)
  PROVE  Move(s, c, x)
<1> DEFINE r == Owner!Reconcile(c, s.create)
           d == Owner!Backfill(c, r.filled)
<1>1. r \in Creates /\ r.filled \in Owner!Drafts
  BY ReconcileCases DEF Works, Creates
<1>2. d \in Owner!Drafts
  BY <1>1, BackfillTyped
<1>3. Faithful(s.create, c) /\ ~r.limit =>
        /\ r.failed => c.outcome = "failed"
        /\ c.outcome = "failed" => r.awaiting /\ Full(r.filled) /\ Full(c.recovered)
        /\ c.outcome # "created"
  BY Agreement DEF Works, Owner!None
<1>4. Owner!StartCreate(s, c) =
        IF r.limit THEN {Owner!Result([s EXCEPT !.create = r], Owner!Reply("limit"))}
        ELSE IF r.failed /\ Owner!Complete(d) THEN Owner!Summary(s, d, TRUE)
        ELSE {Owner!Result([s EXCEPT !.create = Owner!Draft(Owner!Empty, "name")],
          Owner!Ask("name"))}
  BY Zenon DEF Owner!StartCreate
<1>5. CASE r.limit
  <2>1. x \in Stays(s, c)
    BY <1>4, <1>5 DEF Stays
  <2>. QED
    BY <2>1, StaysAside
<1>6. CASE ~r.limit /\ r.failed /\ Owner!Complete(d)
  <2>1. x \in Owner!Summary(s, d, TRUE)
    BY <1>4, <1>6
  <2>2. Faithful(s.create, c) => Full(d) /\ c.outcome = "failed"
    BY <1>1, <1>3, <1>6, BackfillTyped
  <2> HIDE DEF d, r
  <2>. QED
    BY <1>2, <1>6, <2>1, <2>2 DEF Move, Deals, r
<1>7. CASE ~r.limit /\ ~(r.failed /\ Owner!Complete(d))
  <2>1. x \in Asks(s)
    <3> HIDE DEF d, r
    <3>1. x = Owner!Result([s EXCEPT !.create = Owner!Draft(Owner!Empty, "name")],
            Owner!Ask("name"))
      BY <1>4, <1>7
    <3>. QED
      BY <3>1, EmptyTyped DEF Asks, Owner!Fields
  <2>2. ASSUME Faithful(s.create, c), c.outcome = "failed" PROVE FALSE
    <3>1. Full(c.recovered) /\ s.create \in Creates /\ s.create.filled \in Owner!Drafts
      BY <2>2 DEF Faithful, Works, Creates
    <3>2. Full(Owner!Backfill(c, s.create.filled))
      BY <2>2, <3>1, BackfillTyped
    <3>3. Owner!Complete(Owner!Backfill(c, s.create.filled))
      BY <3>1, <3>2, BackfillTyped, FullIsComplete
    <3> DEFINE e == Owner!Backfill(c, s.create.filled)
    <3>4. e \in Owner!Drafts
      BY <3>1, BackfillTyped
    <3> HIDE DEF e
    <3>5. r = [Owner!Draft(e, Owner!None) EXCEPT !.awaiting = TRUE, !.failed = TRUE]
      BY <2>2, <3>1, <3>3, ReconcileCases DEF e
    <3>6. r.failed = TRUE /\ r.filled = e
      BY <3>4, <3>5, WaitingTyped
    <3>7. Owner!Complete(d)
      BY <3>2, <3>3, <3>4, <3>6, BackfillTyped DEF e
    <3>. QED
      BY <1>7, <3>6, <3>7
  <2> HIDE DEF d, r
  <2>. QED
    BY <1>7, <2>1, <2>2 DEF Move, Deals, r
<1>. QED
  BY <1>5, <1>6, <1>7

LEMMA RemovalMoves ==
  ASSUME NEW s \in Works, NEW c \in Chats,
         NEW p \in Properties \cup {Owner!None}, NEW x \in Owner!StartRemoval(s, p)
  PROVE  Move(s, c, x)
<1> DEFINE target == IF s.removal.target # Owner!None THEN s.removal.target ELSE p
           asked(q) == [s EXCEPT !.removal = [progress |-> TRUE, target |-> q]]
<1>1. /\ s.removal \in Removals /\ s.create \in Creates /\ s.live \subseteq Properties
      /\ target \in Properties \cup {Owner!None}
  BY DEF Works, Removals
<1>2. \A q \in Properties \cup {Owner!None} :
        /\ asked(q) \in Works /\ asked(q).removal.target = q
        /\ asked(q).create = s.create /\ asked(q).made = s.made /\ asked(q).stray = s.stray
        /\ asked(q).live = s.live
  BY DEF Works, Removals
<1>3. \/ x = Owner!Result(asked(Owner!None), Owner!Reply("which"))
      \/ x = Owner!Result(s, Owner!Reply("unknown"))
      \/ target \in s.live /\ x = Owner!Result(asked(target), [k |-> "confirm", p |-> target])
  BY Zenon DEF Owner!StartRemoval
<1> HIDE DEF target, asked
<1>4. CASE x = Owner!Result(asked(Owner!None), Owner!Reply("which"))
  BY <1>2, <1>4 DEF Move, Aside, Owner!Result, Results, Owner!Reply, Replies, Bare
<1>5. CASE x = Owner!Result(s, Owner!Reply("unknown"))
  BY <1>5 DEF Move, Aside, Owner!Result, Results, Owner!Reply, Replies, Bare, Plain
<1>6. CASE target \in s.live /\ x = Owner!Result(asked(target), [k |-> "confirm", p |-> target])
  <2>1. target \in Properties
    BY <1>1, <1>6
  <2>. QED
    BY <1>2, <1>6, <2>1 DEF Move, Aside, Owner!Result, Results, Replies
<1>. QED
  BY <1>3, <1>4, <1>5, <1>6

LEMMA ConfirmedRemovalMoves ==
  ASSUME NEW s \in Works, NEW c \in Chats, NEW b \in BOOLEAN, NEW x \in Owner!ConfirmRemoval(s, b)
  PROVE  Move(s, c, x)
<1>1. Owner!NoRemoval \in Removals /\ Owner!NoRemoval.target = Owner!None
  BY DEF Owner!NoRemoval, Removals
<1>2. CASE b
  <2> DEFINE t == Owner!Remove(s, s.removal.target)
  <2>1. x = Owner!Result(t, Owner!Reply("removed")) \/ x = Owner!Result(s, Owner!Reply("refused"))
    BY <1>2 DEF Owner!ConfirmRemoval
  <2>2. /\ t \in Works /\ t.removal = Owner!NoRemoval /\ t.create = s.create /\ t.made = s.made
        /\ t.stray = s.stray
        /\ t.live = s.live \ {s.removal.target}
    BY <1>1 DEF Owner!Remove, Works
  <2> HIDE DEF t
  <2>. QED
    BY <1>1, <2>1, <2>2
       DEF Move, Aside, Owner!Result, Results, Owner!Reply, Replies, Bare, Plain
<1>3. CASE ~b
  <2> DEFINE t == [s EXCEPT !.removal = Owner!NoRemoval]
  <2>1. x = Owner!Result(t, Owner!Reply("kept"))
    BY <1>3 DEF Owner!ConfirmRemoval
  <2>2. /\ t \in Works /\ t.removal = Owner!NoRemoval /\ t.create = s.create /\ t.made = s.made
        /\ t.stray = s.stray
        /\ t.live = s.live
    BY <1>1 DEF Works
  <2> HIDE DEF t
  <2>. QED
    BY <1>1, <2>1, <2>2 DEF Move, Aside, Owner!Result, Results, Owner!Reply, Replies, Bare
<1>. QED
  BY <1>2, <1>3

(* A reply that changes no session, and the opening of a listing to edit.  *)
LEMMA TalkMoves ==
  ASSUME NEW s \in Works, NEW c \in Chats, NEW k \in Plain
  PROVE  Move(s, c, Owner!Result(s, Owner!Reply(k)))
<1>1. k \in Bare
  BY DEF Plain, Bare
<1>. QED
  BY <1>1 DEF Move, Aside, Owner!Result, Results, Owner!Reply, Replies

LEMMA EditMoves ==
  ASSUME NEW s \in Works, NEW c \in Chats, NEW p \in Properties, NEW x \in Owner!StartEdit(s, p)
  PROVE  Move(s, c, x)
<1> DEFINE t == [s EXCEPT !.edit = p]
<1>1. x = Owner!Result(s, Owner!Reply("unknown")) \/ x = Owner!Result(t, Owner!Reply("editing"))
  BY DEF Owner!StartEdit
<1>2. /\ t \in Works /\ t.removal = s.removal /\ t.create = s.create /\ t.made = s.made
        /\ t.stray = s.stray
      /\ t.live = s.live
  BY DEF Works
<1> HIDE DEF t
<1>3. Move(s, c, Owner!Result(t, Owner!Reply("editing")))
  BY <1>2 DEF Move, Aside, Owner!Result, Results, Owner!Reply, Replies, Bare
<1>. QED
  BY <1>1, <1>3, TalkMoves DEF Plain

LEMMA TryRemovalMoves ==
  ASSUME NEW s \in Works, NEW c \in Chats, NEW u \in Owner!Utterances,
         NEW x \in Owner!TryRemoval(s, u)
  PROVE  Move(s, c, x)
<1>1. \/ x \in Owner!ConfirmRemoval(s, Owner!DeleteYesNo(u) = "yes")
      \/ u.k = "remove" /\ x \in Owner!StartRemoval(s, u.p)
      \/ x = Owner!Result(s, Owner!Reply("unknown"))
  BY DEF Owner!TryRemoval
<1>2. (Owner!DeleteYesNo(u) = "yes") \in BOOLEAN
  OBVIOUS
<1>3. u.k = "remove" => u.p \in Properties \cup {Owner!None}
  BY LineKinds
<1>. QED
  BY <1>1, <1>2, <1>3, ConfirmedRemovalMoves, RemovalMoves, TalkMoves DEF Plain

(* What the language model does with the turn that is left to it.          *)
LEMMA ModelMoves ==
  ASSUME Owner!Distinct,
         NEW s \in Works, NEW c \in Chats, NEW u \in Owner!Utterances,
         NEW x \in Owner!Model(s, c, u),
         s.edit = Owner!None => Owner!Reconcile(c, s.create) = s.create
  PROVE  Move(s, c, x)
<1>1. \/ u.k = "say" /\ x \in Owner!Fill(s, c, u, Owner!NoArgs)
      \/ u.k = "change" /\ x \in Owner!Fill(s, c, u, Owner!Carries(u.f, u.v))
      \/ u.k \in {"yes", "no"} /\ s.create.awaiting
           /\ x \in Owner!Fill(s, c, u, [Owner!NoArgs EXCEPT !.confirm = u.k])
      \/ x \in Owner!StartCreate(s, c)
      \/ u.k = "remove" /\ (x \in Owner!StartRemoval(s, u.p)
           \/ x \in Owner!StartRemoval(s, Owner!None))
      \/ u.k = "edit" /\ x \in Owner!StartEdit(s, u.p)
      \/ x = Owner!Result(s, Owner!Reply("chat"))
  <2> DEFINE calls == CASE u.k = "say" /\ c.last \in Owner!Fields -> {Owner!NoArgs}
                        [] u.k = "change" /\ s.create.awaiting -> {Owner!Carries(u.f, u.v)}
                        [] u.k \in {"yes", "no"} /\ s.create.awaiting
                             -> {[Owner!NoArgs EXCEPT !.confirm = u.k]}
                        [] OTHER -> {}
             other == CASE u.k = "create" -> Owner!StartCreate(s, c)
                        [] u.k = "remove" -> Owner!StartRemoval(s, u.p)
                          \cup Owner!StartRemoval(s, Owner!None)
                        [] u.k = "edit" -> Owner!StartEdit(s, u.p)
                        [] OTHER -> {}
  <2>1. Owner!Model(s, c, u) = (UNION {Owner!Fill(s, c, u, args) : args \in calls}) \cup other
                           \cup {Owner!Result(s, Owner!Reply("chat"))}
    BY Zenon DEF Owner!Model
  <2>2. ASSUME NEW args \in calls
        PROVE  \/ u.k = "say" /\ args = Owner!NoArgs
               \/ u.k = "change" /\ args = Owner!Carries(u.f, u.v)
               \/ u.k \in {"yes", "no"} /\ s.create.awaiting
                    /\ args = [Owner!NoArgs EXCEPT !.confirm = u.k]
    OBVIOUS
  <2>3. x \in other => \/ x \in Owner!StartCreate(s, c)
                       \/ u.k = "remove" /\ (x \in Owner!StartRemoval(s, u.p)
                            \/ x \in Owner!StartRemoval(s, Owner!None))
                       \/ u.k = "edit" /\ x \in Owner!StartEdit(s, u.p)
    OBVIOUS
  <2> HIDE DEF calls, other
  <2>4. \/ \E args \in calls : x \in Owner!Fill(s, c, u, args)
        \/ x \in other \/ x = Owner!Result(s, Owner!Reply("chat"))
    <3> DEFINE fills == {Owner!Fill(s, c, u, args) : args \in calls}
    <3>1. Owner!Model(s, c, u)
            = (UNION fills) \cup other \cup {Owner!Result(s, Owner!Reply("chat"))}
      BY <2>1
    <3>2. ASSUME NEW F \in fills, x \in F PROVE \E args \in calls : x \in Owner!Fill(s, c, u, args)
      BY <3>2
    <3> HIDE DEF fills
    <3>3. x \in (UNION fills) \/ x \in other \/ x = Owner!Result(s, Owner!Reply("chat"))
      BY <3>1
    <3>. QED
      BY <3>2, <3>3
  <2>. QED
    BY <2>2, <2>3, <2>4, Zenon
<1>2. CASE u.k = "say" /\ x \in Owner!Fill(s, c, u, Owner!NoArgs)
  <2>1. ~SaysYes(u, Owner!NoArgs)
    BY <1>2, NoArgsTyped DEF SaysYes, Owner!None
  <2>. QED
    BY <1>2, <2>1, NoArgsTyped, HarmlessFill
<1>3. CASE u.k = "change" /\ x \in Owner!Fill(s, c, u, Owner!Carries(u.f, u.v))
  <2> DEFINE f == u.f
             v == u.v
             args == Owner!Carries(f, v)
  <2>1. f \in Owner!Fields /\ v \in Values /\ v # Owner!None
    BY <1>3, LineKinds DEF Values, Owner!Answers, Owner!Distinct
  <2> HIDE DEF f, v
  <2>2. args \in Calls /\ args.fields[f] = v /\ args.confirm = Owner!None
    BY <2>1, EmptyTyped, PutTyped
      DEF Owner!Carries, Owner!NoArgs, Calls, Owner!Empty, Owner!Drafts, Values
  <2> HIDE DEF args
  <2>3. args.fields # Owner!Empty
    BY <2>1, <2>2 DEF Owner!Empty
  <2>4. ~SaysYes(u, args)
    BY <2>2, <2>3 DEF SaysYes, Owner!None
  <2>5. x \in Owner!Fill(s, c, u, args)
    BY <1>3 DEF args, f, v
  <2>. QED
    BY <2>2, <2>4, <2>5, HarmlessFill
<1>4. CASE /\ u.k \in {"yes", "no"} /\ s.create.awaiting
           /\ x \in Owner!Fill(s, c, u, [Owner!NoArgs EXCEPT !.confirm = u.k])
  <2> DEFINE args == [Owner!NoArgs EXCEPT !.confirm = u.k]
  <2>1. args \in Calls /\ args.fields = Owner!Empty
    BY <1>4, NoArgsTyped
  <2> HIDE DEF args
  <2>2. x \in Owner!Fill(s, c, u, args)
    BY <1>4 DEF args
  <2>3. CASE s.edit = Owner!None
    BY <1>4, <2>1, <2>2, <2>3, ConfirmingFill
  <2>4. CASE s.edit # Owner!None
    <3>1. x \in Stays(s, c)
      BY <1>4, <2>1, <2>2, <2>4, FillMoves
    <3>. QED
      BY <3>1, StaysAside
  <2>. QED
    BY <2>3, <2>4
<1>5. CASE x \in Owner!StartCreate(s, c)
  BY <1>5, CreateMoves
<1>6. CASE u.k = "remove" /\ (x \in Owner!StartRemoval(s, u.p)
        \/ x \in Owner!StartRemoval(s, Owner!None))
  <2>1. u.p \in Properties \cup {Owner!None} /\ Owner!None \in Properties \cup {Owner!None}
    BY <1>6, LineKinds
  <2>. QED
    BY <1>6, <2>1, RemovalMoves
<1>7. CASE u.k = "edit" /\ x \in Owner!StartEdit(s, u.p)
  <2>1. u.p \in Properties
    BY <1>7, LineKinds
  <2>. QED
    BY <1>7, <2>1, EditMoves
<1>8. CASE x = Owner!Result(s, Owner!Reply("chat"))
  BY <1>8, TalkMoves DEF Plain
<1>. QED
  BY <1>1, <1>2, <1>3, <1>4, <1>5, <1>6, <1>7, <1>8

(* A result of a turn on the session as the history corrects it is one of  *)
(* the turn on the session as it was.                                      *)
LEMMA SeenMoves ==
  ASSUME NEW s \in Works, NEW c \in Chats, NEW x,
         NEW r, r = Owner!Reconcile(c, s.create), NEW t, t = [s EXCEPT !.create = r], Move(t, c, x)
  PROVE  Move(s, c, x)
<1>1. r \in Creates /\ s.create \in Creates
  BY ReconcileCases DEF Works
<1>2. Owner!Reconcile(c, r) = r
  BY <1>1, ReconcileTwice
<1>3. Faithful(s.create, c) => Faithful(r, c)
  BY <1>1, Agreement
<1>4. /\ t.create = r /\ t.removal = s.removal /\ t.live = s.live /\ t.made = s.made
      /\ t.stray = s.stray
      /\ \A d : Owner!Submit(t, d) = Owner!Submit(s, d)
      /\ \A d, b : Owner!Summary(t, d, b) = Owner!Summary(s, d, b)
      /\ Owner!Cancel(t) = Owner!Cancel(s) /\ Asks(t) \subseteq Asks(s)
  BY <1>1, SameElsewhere
<1>5. CASE Aside(t, c, x)
  BY <1>2, <1>4, <1>5 DEF Aside, Move
<1>6. CASE ~r.limit /\ Deals(t, c, x)
  <2>1. Deals(s, c, x)
    BY <1>3, <1>4, <1>6 DEF Deals
  <2>. QED
    BY <1>6, <2>1 DEF Move
<1>. QED
  BY <1>2, <1>4, <1>5, <1>6 DEF Move

(* The first preflight that answers is one of the six.                     *)
LEMMA LeastOfSix ==
  ASSUME NEW H, H \subseteq 1 .. 6, H # {}
  PROVE  LET i == CHOOSE i \in H : \A j \in H : i <= j
         IN i \in H /\ \A j \in H : i <= j
<1>1. \E i \in H : \A j \in H : i <= j
  <2>1. CASE 1 \in H
    BY <2>1
  <2>2. CASE 1 \notin H /\ 2 \in H
    BY <2>2
  <2>3. CASE 1 \notin H /\ 2 \notin H /\ 3 \in H
    BY <2>3
  <2>4. CASE 1 \notin H /\ 2 \notin H /\ 3 \notin H /\ 4 \in H
    BY <2>4
  <2>5. CASE H \cap {1, 2, 3, 4} = {} /\ 5 \in H
    BY <2>5
  <2>6. CASE H \cap {1, 2, 3, 4, 5} = {}
    <3>1. \A j \in H : j \in 1 .. 6 /\ j \notin {1, 2, 3, 4, 5}
      BY <2>6
    <3>2. \A j \in H : j = 6
      BY <3>1
    <3>3. PICK i \in H : TRUE
      OBVIOUS
    <3>. QED
      BY <3>2, <3>3
  <2>. QED
    BY <2>1, <2>2, <2>3, <2>4, <2>5, <2>6
<1>. QED
  BY <1>1

(* Whatever a turn comes to is a move.                                     *)
LEMMA TriedMoves ==
  ASSUME Owner!Distinct,
         NEW s \in Works, NEW c \in Chats, NEW u \in Owner!Utterances,
         NEW x \in Owner!Tried(s, c, u)
  PROVE  Move(s, c, x)
<1> DEFINE seen == IF u.k = "browse" \/ s.edit # Owner!None THEN s
                   ELSE [s EXCEPT !.create = Owner!Reconcile(c, s.create)]
           tries == <<Owner!TryBrowse(s, u), Owner!TryEdit(s, u), Owner!TryAnswer(seen, c, u),
                      Owner!TrySummary(seen, c, u), Owner!TryRemoval(seen, u),
                      Owner!TrySubmit(seen, c, u)>>
           hits == {i \in DOMAIN tries : tries[i] # {}}
           first == CHOOSE i \in hits : \A j \in hits : i <= j
<1>1. x \in IF hits = {} THEN Owner!Model(seen, c, u) ELSE tries[first]
  <2>1. Owner!Tried(s, c, u) = IF hits = {} THEN Owner!Model(seen, c, u) ELSE tries[first]
    BY DEF Owner!Tried
  <2> HIDE DEF hits, tries, first, seen
  <2>. QED
    BY <2>1
<1>2. /\ s.create \in Creates
      /\ Owner!Reconcile(c, s.create) \in Creates
      /\ Owner!Reconcile(c, Owner!Reconcile(c, s.create)) = Owner!Reconcile(c, s.create)
  BY ReconcileCases, ReconcileTwice DEF Works
<1>3. /\ seen \in Works /\ seen.edit = s.edit
      /\ u.k # "browse" /\ seen.edit = Owner!None => Owner!Reconcile(c, seen.create) = seen.create
      /\ seen = s \/ seen = [s EXCEPT !.create = Owner!Reconcile(c, s.create)]
  BY <1>2, SameElsewhere
<1>4. Move(seen, c, x) => Move(s, c, x)
  <2> HIDE DEF seen
  <2>. QED
    BY <1>3, SeenMoves
<1>5. \A y \in Owner!TryBrowse(s, u) \cup Owner!TryEdit(s, u) : Move(s, c, y)
  BY TalkMoves DEF Owner!TryBrowse, Owner!TryEdit, Owner!ApplyEdit, Plain
<1>6. u.k = "browse" => Owner!TryBrowse(s, u) # {}
  BY DEF Owner!TryBrowse
<1> HIDE DEF seen
<1>7. /\ DOMAIN tries = 1 .. 6
      /\ tries[1] = Owner!TryBrowse(s, u) /\ tries[2] = Owner!TryEdit(s, u)
      /\ tries[3] = Owner!TryAnswer(seen, c, u)
      /\ tries[4] = Owner!TrySummary(seen, c, u) /\ tries[5] = Owner!TryRemoval(seen, u)
      /\ tries[6] = Owner!TrySubmit(seen, c, u)
  OBVIOUS
<1> HIDE DEF tries
<1>8. CASE hits = {}
  <2>1. 1 \notin hits
    BY <1>8
  <2>2. u.k # "browse"
    BY <1>6, <1>7, <2>1
  <2>3. x \in Owner!Model(seen, c, u)
    BY <1>1, <1>8
  <2> HIDE DEF hits, first
  <2>. QED
    BY <1>3, <1>4, <2>2, <2>3, ModelMoves
<1>9. CASE hits # {}
  <2>1. hits \subseteq 1 .. 6
    BY <1>7
  <2>2. 3 \notin hits => Owner!TryAnswer(seen, c, u) = {}
    BY <1>7
  <2> HIDE DEF hits
  <2>3. first \in hits /\ \A j \in hits : first <= j
    BY <1>9, <2>1, LeastOfSix
  <2>4. x \in tries[first]
    BY <1>1, <1>9
  <2> HIDE DEF first
  <2>5. CASE first \in {1, 2}
    BY <1>5, <1>7, <2>4, <2>5
  <2>6. CASE first = 3
    BY <1>3, <1>4, <1>7, <2>4, <2>6, AnswerMoves
  <2>7. CASE first = 4
    <3>1. Owner!TryAnswer(seen, c, u) = {}
      BY <2>2, <2>3, <2>7
    <3>. QED
      BY <1>3, <1>4, <1>7, <2>4, <2>7, <3>1, SummaryMoves
  <2>8. CASE first = 5
    BY <1>3, <1>4, <1>7, <2>4, <2>8, TryRemovalMoves
  <2>9. CASE first = 6
    BY <1>3, <1>4, <1>7, <2>4, <2>9, SubmitMoves
  <2>10. first \in 1 .. 6
    BY <2>1, <2>3
  <2>. QED
    BY <2>5, <2>6, <2>7, <2>8, <2>9, <2>10
<1>. QED
  BY <1>8, <1>9
-----------------------------------------------------------------------------
(* What a move does to each part of the state.                             *)
LEMMA SayParts ==
  ASSUME NEW c \in Chats, NEW r \in Replies
  PROVE  /\ ~Owner!Say(c, r).fresh
         /\ Owner!Say(c, r).outcome = IF r.k \in {"created", "failed"} THEN r.k ELSE c.outcome
         /\ Owner!Say(c, r).prompted = IF r.k = "confirm" THEN r.p ELSE c.prompted
BY DEF Owner!Say, Chats, Replies, Bare

(* How a removal may go on.                                                *)
Removes(s, x) ==
  \/ x.s.removal = s.removal /\ x.s.live = s.live /\ x.reply.k # "confirm"
  \/ x.s.removal.target = Owner!None /\ x.s.live = s.live /\ x.reply.k # "confirm"
  \/ x.reply.k = "confirm" /\ x.s.live = s.live /\ x.s.removal.target = x.reply.p
  \/ /\ x.reply.k # "confirm" /\ x.s.removal.target = Owner!None
     /\ x.s.live = s.live \ {s.removal.target}

(* How a listing is made, and how a failing create leaves one; otherwise a *)
(* move keeps the listings of the chat.                                    *)
Makes(s, c, x) ==
  /\ ~Owner!Reconcile(c, s.create).limit /\ x.s.create = Owner!Completed /\ x.reply.k = "created"
  /\ \E d \in Owner!Drafts : /\ x.s.made = s.made \cup {d} /\ x.s.stray = s.stray \ {d}
                             /\ Faithful(s.create, c) /\ c.shown # Owner!Empty => d = c.shown

Leaves(s, c, x) ==
  /\ ~Owner!Reconcile(c, s.create).limit /\ x.s.made = s.made /\ x.reply.k = "failed"
  /\ \E d \in Owner!Drafts : /\ x.s.stray = s.stray \cup {d}
                             /\ Faithful(s.create, c) /\ c.shown # Owner!Empty => d = c.shown

Keeps(s, x) == x.s.made = s.made /\ x.s.stray = s.stray /\ x.reply.k # "created"

(* A move removes at most the listing asked about, makes at most one       *)
(* listing, and makes none once the chat has reached its limit.            *)
LEMMA MoveEffects ==
  ASSUME NEW s \in Works, NEW c \in Chats, NEW x, Move(s, c, x)
  PROVE  /\ x \in Results
         /\ Removes(s, x)
         /\ Keeps(s, x) \/ Makes(s, c, x) \/ Leaves(s, c, x)
         /\ Owner!Reconcile(c, s.create).limit => Aside(s, c, x)
<1> DEFINE r == Owner!Reconcile(c, s.create)
<1> HIDE DEF r
<1>1. CASE Aside(s, c, x)
  BY <1>1 DEF Aside, Removes, Plain, Keeps
<1>2. ASSUME ~r.limit, Deals(s, c, x)
      PROVE  x \in Results /\ Removes(s, x) /\ (Keeps(s, x) \/ Makes(s, c, x) \/ Leaves(s, c, x))
  <2>1. ASSUME NEW w, NEW y, x = Owner!Result([s EXCEPT !.create = w], y), y.k \notin {"confirm", "created"}
        PROVE  Removes(s, x) /\ Keeps(s, x)
    BY <2>1 DEF Removes, Keeps, Owner!Result, Works
  <2>2. CASE x \in Asks(s)
    <3>1. x \in Results
      BY <2>2, MovesTyped, EmptyTyped
    <3>2. PICK d \in Owner!Drafts, f \in Owner!Fields :
            x = Owner!Result([s EXCEPT !.create = Owner!Draft(d, f)], Owner!Ask(f))
      BY <2>2, AskedResult
    <3>3. Owner!Ask(f).k \notin {"confirm", "created"}
      BY DEF Owner!Ask
    <3>. QED
      BY <2>1, <3>1, <3>2, <3>3
  <2>3. CASE x \in Owner!Cancel(s)
    <3>1. x \in Results
      BY <2>3, MovesTyped, EmptyTyped
    <3>2. x = Owner!Result([s EXCEPT !.create = Owner!Draft(Owner!Empty, "name")],
            Owner!Reply("cleared"))
      BY <2>3 DEF Owner!Cancel
    <3>3. Owner!Reply("cleared").k \notin {"confirm", "created"}
      BY DEF Owner!Reply
    <3>. QED
      BY <2>1, <3>1, <3>2, <3>3
  <2>4. ASSUME NEW d \in Owner!Drafts, NEW b \in BOOLEAN, x \in Owner!Summary(s, d, b)
        PROVE  x \in Results /\ Removes(s, x) /\ Keeps(s, x)
    <3>1. x \in Results
      BY <2>4, MovesTyped
    <3> DEFINE w == [Owner!Draft(d, Owner!None) EXCEPT !.awaiting = TRUE, !.failed = b]
    <3>2. x = Owner!Result([s EXCEPT !.create = w], [k |-> "summary", d |-> d])
      BY <2>4 DEF Owner!Summary
    <3> HIDE DEF w
    <3>. QED
      BY <2>1, <3>1, <3>2
  <2>5. ASSUME NEW d \in Owner!Drafts, x \in Owner!Submit(s, d),
               Faithful(s.create, c) /\ c.shown # Owner!Empty => d = c.shown
        PROVE  x \in Results /\ Removes(s, x) /\ (Keeps(s, x) \/ Makes(s, c, x) \/ Leaves(s, c, x))
    <3>1. x \in Results
      BY <2>5, MovesTyped
    <3>2. CASE Succeeds(s, d, x)
      <4>1. /\ x.s.create = Owner!Completed /\ x.s.made = s.made \cup {d}
            /\ x.s.stray = s.stray \ {d} /\ x.s.removal = s.removal
            /\ x.s.live = s.live /\ x.reply.k = "created"
        BY <3>2 DEF Succeeds, Owner!Result, Owner!Reply, Works
      <4>. QED
        BY <1>2, <2>5, <3>1, <4>1 DEF Removes, Makes, r
    <3>3. ASSUME NEW w, NEW e, Fails(s, d, x, w, e)
          PROVE  Removes(s, x) /\ (Keeps(s, x) \/ Leaves(s, c, x))
      <4>1. /\ x.s.made = s.made /\ x.s.stray = e /\ x.s.removal = s.removal
            /\ x.s.live = s.live /\ x.reply.k = "failed"
            /\ e = s.stray \/ e = s.stray \cup {d}
        BY <3>3 DEF Fails, Owner!Result, Owner!Reply, Works
      <4>. QED
        BY <1>2, <2>5, <4>1 DEF Removes, Keeps, Leaves, r
    <3>4. Succeeds(s, d, x) \/ \E w, e : Fails(s, d, x, w, e)
      BY <2>5, SubmitKinds
    <3>. QED
      BY <3>1, <3>2, <3>3, <3>4
  <2>. QED
    BY <1>2, <2>2, <2>3, <2>4, <2>5 DEF Deals
<1>. QED
  BY <1>1, <1>2 DEF Move, r

(* Listening keeps session and history agreed.                             *)
LEMMA HearFaithful ==
  ASSUME NEW c \in Chats, NEW u \in Owner!Utterances, NEW w \in Creates, Faithful(w, c)
  PROVE  Faithful(w, Owner!Hear(c, u))
<1> DEFINE h == Owner!Hear(c, u)
<1>1. /\ h \in Chats
      /\ \A f \in Owner!Fields : c.recovered[f] # Owner!None \/ f # c.pending
                             => h.recovered[f] = c.recovered[f]
      /\ h.pending = Owner!None \/ h = c
      /\ h.last = c.last /\ h.shown = c.shown /\ h.outcome = c.outcome
  BY HearTyped
<1>2. c.recovered \in Owner!Drafts /\ h.recovered \in Owner!Drafts
  BY <1>1 DEF Chats
<1> HIDE DEF h
<1>3. Full(c.recovered) => h.recovered = c.recovered
  BY <1>1, <1>2 DEF Full, Owner!Drafts
<1>4. Untouched(w, c) => Untouched(w, h)
  BY <1>1, <1>2 DEF Untouched, Owner!Fields, Owner!None
<1>5. Faithful(w, h)
  BY <1>1, <1>3, <1>4 DEF Faithful
<1>. QED
  BY <1>5 DEF h

(* A move, with its reply heard, keeps session and history agreed. One     *)
(* case per kind of result: the reply says what the session now holds.     *)
LEMMA MoveFaithful ==
  ASSUME NEW s \in Works, NEW c \in Chats, NEW x, Move(s, c, x), Faithful(s.create, c)
  PROVE  Faithful(x.s.create, Owner!Say(c, x.reply))
<1> DEFINE r == Owner!Reconcile(c, s.create)
<1>1. c.recovered \in Owner!Drafts /\ c.shown \in Owner!Drafts
        /\ c.outcome \in {Owner!None, "created", "failed"}
  BY DEF Chats
<1>2. s.create \in Creates
  BY DEF Works
<1>3. CASE Aside(s, c, x)
  <2> DEFINE h == Owner!Say(c, x.reply)
             w == x.s.create
  <2>1. w \in {s.create, r} /\ x.reply \in Replies
    BY <1>3 DEF Aside, Results
  <2>2. Faithful(w, c)
    BY <1>2, <2>1, Agreement
  <2>3. x.reply.k \in Plain \cup {"editing", "which", "kept", "confirm", "removed"}
    BY <1>3 DEF Aside
  <2>4. /\ h.recovered = c.recovered /\ h.shown = c.shown /\ h.outcome = c.outcome
        /\ h.last # "summary" /\ h.pending \in {c.pending, Owner!None, "name"}
    BY <2>3 DEF Owner!Say, Chats, Plain
  <2> HIDE DEF h, w
  <2>5. Faithful(w, h)
    BY <2>2, <2>4 DEF Faithful, Untouched
  <2>. QED
    BY <2>5 DEF h, w
<1> HIDE DEF r
<1>4. ASSUME NEW w, NEW y, x = Owner!Result([s EXCEPT !.create = w], y)
      PROVE  x.s.create = w /\ x.reply = y
  BY <1>4 DEF Owner!Result, Works
<1>5. CASE x \in Asks(s) /\ c.outcome # "failed"
  <2>1. PICK d \in Owner!Drafts, f \in Owner!Fields :
            x = Owner!Result([s EXCEPT !.create = Owner!Draft(d, f)], Owner!Ask(f))
    BY <1>5, AskedResult
  <2> DEFINE w == Owner!Draft(d, f)
             h == Owner!Say(c, Owner!Ask(f))
  <2>2. ~w.awaiting /\ ~w.failed /\ w.next = f /\ f # Owner!None /\ f # "summary"
    BY DraftTyped DEF Owner!Fields, Owner!None
  <2>3. h.recovered = c.recovered /\ h.shown = c.shown /\ h.outcome = c.outcome /\ h.last = f
    BY DEF Owner!Say, Owner!Ask, Chats
  <2>4. x.s.create = w /\ x.reply = Owner!Ask(f)
    BY <1>4, <2>1
  <2> HIDE DEF h, w
  <2>5. Faithful(w, h)
    BY <1>5, <2>2, <2>3 DEF Faithful
  <2>. QED
    BY <2>4, <2>5 DEF h
<1>6. CASE x \in Owner!Cancel(s)
  <2> DEFINE w == Owner!Draft(Owner!Empty, "name")
             h == Owner!Say(c, Owner!Reply("cleared"))
  <2>1. x.s.create = w /\ x.reply = Owner!Reply("cleared")
    BY <1>4, <1>6 DEF Owner!Cancel
  <2>2. ~w.awaiting /\ ~w.failed /\ w.next = "name"
    BY DraftTyped, EmptyTyped DEF Owner!Fields
  <2>3. h.recovered = c.recovered /\ h.shown = Owner!Empty /\ h.outcome = c.outcome
          /\ h.last = "cleared"
    BY DEF Owner!Say, Owner!Reply, Chats
  <2> HIDE DEF h, w
  <2>4. Faithful(w, h)
    BY <2>2, <2>3 DEF Faithful, Owner!None
  <2>. QED
    BY <2>1, <2>4 DEF h
<1>7. ASSUME NEW d \in Owner!Drafts, NEW b \in BOOLEAN, x \in Owner!Summary(s, d, b),
             Full(d), b => c.outcome = "failed"
      PROVE  Faithful(x.s.create, Owner!Say(c, x.reply))
  <2> DEFINE w == [Owner!Draft(d, Owner!None) EXCEPT !.awaiting = TRUE, !.failed = b]
             y == [k |-> "summary", d |-> d]
             h == Owner!Say(c, y)
  <2>1. x.s.create = w /\ x.reply = y
    BY <1>4, <1>7 DEF Owner!Summary
  <2>2. w.awaiting /\ w.failed = b /\ w.next = Owner!None /\ w.filled = d
    BY WaitingTyped
  <2>3. /\ h.recovered = Owner!Merge(c.recovered, d) /\ h.shown = d /\ h.outcome = c.outcome
        /\ h.last = "summary"
    BY DEF Owner!Say, Chats
  <2>4. h.recovered \in Owner!Drafts /\ Full(h.recovered)
    BY <1>1, <1>7, <2>3, FullMerge, MergeTyped
  <2>5. Owner!Merge(d, h.recovered) = d
    BY <1>7, <2>4, FullMerge
  <2>6. d # Owner!Empty
    BY <1>7 DEF Full, Owner!Empty, Owner!Fields
  <2> HIDE DEF h, w, y
  <2>7. Faithful(w, h)
    BY <1>7, <2>2, <2>3, <2>4, <2>5, <2>6 DEF Faithful
  <2>. QED
    BY <2>1, <2>7 DEF h
<1>8. ASSUME NEW d \in Owner!Drafts, x \in Owner!Submit(s, d),
             Full(d), Full(c.recovered), c.shown # Owner!Empty => d = c.shown
      PROVE  Faithful(x.s.create, Owner!Say(c, x.reply))
  <2> DEFINE done == Owner!Say(c, Owner!Reply("created"))
             h == Owner!Say(c, Owner!Reply("failed"))
  <2>1. /\ h.recovered = c.recovered /\ h.shown = c.shown /\ h.outcome = "failed"
        /\ h.last = "failed"
    BY DEF Owner!Say, Owner!Reply, Chats
  <2>2. done.recovered = c.recovered /\ done.shown = c.shown /\ done.outcome = "created"
    BY DEF Owner!Say, Owner!Reply, Chats
  <2>3. Owner!Merge(d, c.recovered) = d
    BY <1>1, <1>8, FullMerge
  <2> HIDE DEF h, done
  <2>4. CASE Succeeds(s, d, x)
    <3>1. \A v : Faithful(v, done)
      BY <2>2 DEF Faithful
    <3>2. x.reply = Owner!Reply("created")
      BY <2>4 DEF Succeeds, Owner!Result
    <3>. QED
      BY <3>1, <3>2 DEF done
  <2>5. ASSUME NEW w, NEW e, Fails(s, d, x, w, e)
        PROVE  Faithful(x.s.create, Owner!Say(c, x.reply))
    <3>1. /\ x.s.create = w /\ x.reply = Owner!Reply("failed")
          /\ w \in Creates /\ w.awaiting /\ w.next = Owner!None /\ w.filled = d
      BY <2>5 DEF Fails, Owner!Result, Works
    <3>2. Faithful(w, h)
      BY <1>8, <2>1, <2>3, <3>1 DEF Faithful, Owner!None, Creates
    <3>. QED
      BY <3>1, <3>2 DEF h
  <2>6. Succeeds(s, d, x) \/ \E w, e : Fails(s, d, x, w, e)
    BY <1>8, SubmitKinds
  <2>. QED
    BY <2>4, <2>5, <2>6
<1>. QED
  BY <1>3, <1>5, <1>6, <1>7, <1>8 DEF Move, Deals
-----------------------------------------------------------------------------
(* The inductive invariant.  It holds what a fresh chat will find in its   *)
(* sessions (Prepared), not what an earlier chat left there.               *)
Typed ==
  /\ create \in Creates /\ removal \in Removals /\ edit \in Properties \cup {Owner!None}
  /\ chat \in Chats /\ live \subseteq Properties
  /\ made \subseteq Owner!Drafts /\ stray \subseteq Owner!Drafts
  /\ ownerFaults \in 0 .. MaxOwnerFaults /\ ownerPatient \in BOOLEAN

(* While nothing is lost, session and history agree on the draft.          *)
Agreed == ownerFaults = 0 => Faithful(Owner!Prepared.create, chat)

(* What still knows of the listings that this chat has made, and of those  *)
(* that its failed creates have left.                                      *)
Limited ==
  /\ made # {} =>
       /\ ~chat.fresh
       /\ ownerFaults = 0 => chat.outcome = "created"
       /\ ownerFaults <= 1 /\ chat.outcome = Owner!None => create.limit
  /\ stray # {} /\ made = {} => ownerFaults > 0 \/ chat.outcome = "failed"

(* A delete that waits for its Yes was prompted in this chat.              *)
Prompted ==
  ownerFaults = 0 /\ ~chat.fresh /\ removal.target # Owner!None => chat.prompted = removal.target

OwnerInv == Typed /\ Agreed /\ Limited /\ Prompted

LEMMA PreparedParts ==
  ASSUME Typed
  PROVE  /\ Owner!Prepared \in Works
         /\ Owner!Prepared.made = made /\ Owner!Prepared.stray = stray /\ Owner!Prepared.live = live
         /\ ~chat.fresh => Owner!Prepared.create = create /\ Owner!Prepared.removal = removal
         /\ chat.fresh => Owner!Prepared.create = Owner!NoDraft
              /\ Owner!Prepared.removal.target = Owner!None
<1>1. Owner!NoRemoval \in Removals /\ Owner!NoRemoval.target = Owner!None
        /\ Owner!NoDraft \in Creates
  BY CompletedTyped DEF Owner!NoRemoval, Removals
<1>2. CASE chat.fresh
  BY <1>1, <1>2 DEF Typed, Owner!Prepared, Owner!Here, Works
<1>3. CASE ~chat.fresh
  BY <1>3 DEF Typed, Owner!Prepared, Owner!Here, Works
<1>. QED
  BY <1>2, <1>3

LEMMA WantedIsSaid ==
  ASSUME Owner!Distinct, NEW u \in Owner!Says
  PROVE  u \in Owner!Utterances
<1>1. Owner!Wanted \in Owner!Utterances
  BY DEF Owner!Wanted, Owner!Utterances, Owner!Answers, Owner!Distinct
<1>. QED
  BY <1>1 DEF Owner!Says

(* The properties of a step that is a turn, with the reply heard or lost.  *)
TurnStep(s, c, x) ==
  /\ s \in Works /\ c \in Chats /\ Move(s, c, x)
  /\ s = Owner!Prepared
  /\ c.shown = chat.shown /\ c.outcome = chat.outcome /\ c.prompted = chat.prompted
  /\ ownerFaults = 0 => Faithful(s.create, c)
  /\ create' = x.s.create /\ removal' = x.s.removal /\ edit' = x.s.edit
  /\ live' = x.s.live /\ made' = x.s.made /\ stray' = x.s.stray /\ ownerPatient' = ownerPatient
  /\ \/ chat' = Owner!Say(c, x.reply) /\ ownerFaults' = ownerFaults
     \/ chat' = [c EXCEPT !.fresh = FALSE] /\ ownerFaults' = ownerFaults + 1
          /\ ownerFaults < MaxOwnerFaults

(* Every turn is such a step: hearing the line disturbs no agreement, and  *)
(* what the preflights and the model do is a move.                         *)
LEMMA TurnIsStep ==
  ASSUME Owner!Distinct, Typed, Agreed, NEW u \in Owner!Says, Owner!Turn(u)
  PROVE  \E s, c, x : TurnStep(s, c, x)
<1>1. u \in Owner!Utterances
  BY WantedIsSaid
<1> DEFINE s == Owner!Prepared
           c == Owner!Hear(chat, u)
<1>2. PICK x \in Owner!Outcomes(u) :
        /\ Owner!Commit(u, x)
        /\ \/ chat' = Owner!Say(Owner!Hear(chat, u), x.reply) /\ UNCHANGED ownerFaults
           \/ Owner!LostReply(u)
        /\ UNCHANGED ownerPatient
  BY DEF Owner!Turn
<1>3. s \in Works
  BY PreparedParts
<1>4. /\ c \in Chats
      /\ c.shown = chat.shown /\ c.outcome = chat.outcome /\ c.prompted = chat.prompted
  BY <1>1, HearTyped DEF Typed
<1>5. Move(s, c, x)
  <2>1. x \in Owner!Tried(s, c, u)
    BY DEF Owner!Outcomes
  <2> HIDE DEF s, c
  <2>. QED
    BY <1>1, <1>3, <1>4, <2>1, TriedMoves
<1>6. ownerFaults = 0 => Faithful(s.create, c)
  BY <1>1, <1>3, HearFaithful DEF Agreed, Typed, Works
<1>7. TurnStep(s, c, x)
  BY <1>2, <1>3, <1>4, <1>5, <1>6 DEF TurnStep, Owner!Commit, Owner!LostReply
<1>. QED
  BY <1>7

LEMMA TurnTyped ==
  ASSUME Typed, MaxOwnerFaults \in Nat, NEW s, NEW c, NEW x, TurnStep(s, c, x)
  PROVE  Typed'
<1>1. x \in Results
  BY MoveEffects DEF TurnStep
<1>2. chat' \in Chats
  <2>1. Owner!Say(c, x.reply) \in Chats
    BY <1>1, SayTyped DEF TurnStep, Results
  <2>2. [c EXCEPT !.fresh = FALSE] \in Chats
    BY DEF TurnStep, Chats
  <2>. QED
    BY <2>1, <2>2 DEF TurnStep
<1>3. ownerFaults' \in 0 .. MaxOwnerFaults
  BY DEF TurnStep, Typed
<1>. QED
  BY <1>1, <1>2, <1>3 DEF TurnStep, Typed, Results, Works

(* A turn preserves each part of the invariant.                            *)
LEMMA TurnAgreed ==
  ASSUME Typed, MaxOwnerFaults \in Nat, NEW s, NEW c, NEW x, TurnStep(s, c, x)
  PROVE  Agreed'
<1>1. x \in Results /\ x.reply \in Replies
  BY MoveEffects DEF TurnStep, Results
<1>2. ASSUME ownerFaults' = 0
      PROVE  chat' = Owner!Say(c, x.reply) /\ Faithful(create', chat') /\ ~chat'.fresh
  <2>1. ownerFaults = 0 /\ chat' = Owner!Say(c, x.reply) /\ create' = x.s.create
    BY <1>2 DEF TurnStep, Typed
  <2>2. Faithful(x.s.create, Owner!Say(c, x.reply))
    BY <2>1, MoveFaithful DEF TurnStep
  <2>3. ~Owner!Say(c, x.reply).fresh
    BY <1>1, SayParts DEF TurnStep
  <2>. QED
    BY <2>1, <2>2, <2>3
<1>3. ~chat'.fresh => Owner!Prepared'.create = create'
  BY DEF Owner!Prepared, Owner!Here
<1>. QED
  BY <1>2, <1>3 DEF Agreed

LEMMA TurnLimited ==
  ASSUME Typed, MaxOwnerFaults \in Nat, Limited, NEW s, NEW c, NEW x, TurnStep(s, c, x)
  PROVE  Limited'
<1> DEFINE r == Owner!Reconcile(c, s.create)
<1>1. /\ s \in Works /\ c \in Chats /\ Move(s, c, x) /\ s = Owner!Prepared
      /\ c.outcome = chat.outcome /\ create' = x.s.create /\ made' = x.s.made
      /\ stray' = x.s.stray
      /\ \/ chat' = Owner!Say(c, x.reply) /\ ownerFaults' = ownerFaults
         \/ chat' = [c EXCEPT !.fresh = FALSE] /\ ownerFaults' = ownerFaults + 1
  BY DEF TurnStep
<1>2. /\ x \in Results /\ (Keeps(s, x) \/ Makes(s, c, x) \/ Leaves(s, c, x))
      /\ r.limit => Aside(s, c, x)
  BY <1>1, MoveEffects
<1>3. s.create \in Creates
  BY <1>1 DEF Works
<1>4. (c.outcome = "created" => r.limit) /\ (c.outcome = Owner!None => r = s.create)
  BY <1>1, <1>3, ReconcileCases
<1>5. /\ s.made = made /\ s.stray = stray /\ (~chat.fresh => s.create = create)
      /\ chat.outcome \in {Owner!None, "created", "failed"} /\ ownerFaults \in Nat
  BY <1>1, PreparedParts DEF Typed, Chats
<1> HIDE DEF r
<1>6. CASE chat' = Owner!Say(c, x.reply) /\ ownerFaults' = ownerFaults
  <2>1. /\ ~chat'.fresh
        /\ chat'.outcome = IF x.reply.k \in {"created", "failed"} THEN x.reply.k ELSE c.outcome
    BY <1>1, <1>2, <1>6, SayParts DEF Results
  <2>2. CASE Makes(s, c, x)
    BY <1>1, <2>1, <2>2 DEF Makes, Limited, Owner!None
  <2>3. CASE Leaves(s, c, x)
    <3>1. ~r.limit /\ chat'.outcome = "failed" /\ made' = made
      BY <1>1, <1>5, <2>1, <2>3 DEF Leaves, r
    <3>. QED
      BY <1>1, <1>4, <1>5, <1>6, <2>1, <3>1 DEF Limited, Owner!None
  <2>4. CASE Keeps(s, x)
    <3>1. r.limit => x.reply.k \notin {"created", "failed"} /\ x.s.create \in {s.create, r}
      BY <1>2 DEF Aside, Plain, r
    <3>2. made' = made /\ stray' = stray /\ x.reply.k # "created"
      BY <1>1, <1>5, <2>4 DEF Keeps
    <3>. QED
      BY <1>1, <1>4, <1>5, <1>6, <2>1, <3>1, <3>2 DEF Limited, Owner!None
  <2>. QED
    BY <1>2, <2>2, <2>3, <2>4
<1>7. CASE chat' = [c EXCEPT !.fresh = FALSE] /\ ownerFaults' = ownerFaults + 1
  <2>1. ~chat'.fresh /\ chat'.outcome = c.outcome
    BY <1>1, <1>7 DEF Chats
  <2>2. CASE Makes(s, c, x)
    BY <1>1, <1>5, <1>7, <2>1, <2>2, CompletedTyped DEF Makes, Limited
  <2>3. CASE Leaves(s, c, x)
    <3>1. ~r.limit /\ made' = made
      BY <1>1, <1>5, <2>3 DEF Leaves, r
    <3>. QED
      BY <1>1, <1>4, <1>5, <1>7, <2>1, <3>1 DEF Limited, Owner!None
  <2>4. CASE Keeps(s, x)
    <3>1. made' = made /\ stray' = stray
      BY <1>1, <1>5, <2>4 DEF Keeps
    <3>. QED
      BY <1>1, <1>5, <1>7, <2>1, <3>1 DEF Limited, Owner!None
  <2>. QED
    BY <1>2, <2>2, <2>3, <2>4
<1>. QED
  BY <1>1, <1>6, <1>7

LEMMA TurnPrompted ==
  ASSUME Typed, MaxOwnerFaults \in Nat, Prompted, NEW s, NEW c, NEW x, TurnStep(s, c, x)
  PROVE  Prompted'
<1>1. /\ s \in Works /\ c \in Chats /\ Move(s, c, x) /\ s = Owner!Prepared
      /\ c.prompted = chat.prompted /\ removal' = x.s.removal
      /\ \/ chat' = Owner!Say(c, x.reply) /\ ownerFaults' = ownerFaults
         \/ chat' = [c EXCEPT !.fresh = FALSE] /\ ownerFaults' = ownerFaults + 1
  BY DEF TurnStep
<1>2. x \in Results /\ Removes(s, x)
  BY <1>1, MoveEffects
<1>3. /\ ~chat.fresh => s.removal = removal
      /\ chat.fresh => s.removal.target = Owner!None
      /\ ownerFaults \in Nat
  BY <1>1, PreparedParts DEF Typed
<1>4. Owner!Say(c, x.reply).prompted = IF x.reply.k = "confirm" THEN x.reply.p ELSE c.prompted
  BY <1>1, <1>2, SayParts DEF Results
<1>. QED
  BY <1>1, <1>2, <1>3, <1>4 DEF Removes, Prompted

(* What a turn does to the listings, one lemma per property.               *)
LEMMA TurnMakesOne ==
  ASSUME Typed, MaxOwnerFaults \in Nat, Limited, NEW s, NEW c, NEW x, TurnStep(s, c, x)
  PROVE  \/ made' \subseteq made /\ made' \cup stray' \subseteq made \cup stray
         \/ made \cup stray = {}
         \/ made = {} /\ (chat.outcome = "failed" \/ ownerFaults > 0)
         \/ ownerFaults > 0 /\ chat.outcome = "failed"
         \/ ownerFaults > 1 /\ chat.outcome # "created"
<1> DEFINE r == Owner!Reconcile(c, s.create)
<1>1. /\ s \in Works /\ c \in Chats /\ Move(s, c, x) /\ s = Owner!Prepared
      /\ c.outcome = chat.outcome /\ made' = x.s.made /\ stray' = x.s.stray
  BY DEF TurnStep
<1>2. Keeps(s, x) \/ Makes(s, c, x) \/ Leaves(s, c, x)
  BY <1>1, MoveEffects
<1>3. s.create \in Creates
  BY <1>1 DEF Works
<1>4. (c.outcome = "created" => r.limit) /\ (c.outcome = Owner!None => r = s.create)
  BY <1>1, <1>3, ReconcileCases
<1>5. /\ s.made = made /\ s.stray = stray /\ (~chat.fresh => s.create = create)
      /\ chat.outcome \in {Owner!None, "created", "failed"} /\ ownerFaults \in Nat
  BY <1>1, PreparedParts DEF Typed, Chats
<1>6. CASE Keeps(s, x)
  BY <1>1, <1>5, <1>6 DEF Keeps
<1>7. CASE made = {}
  BY <1>5, <1>7 DEF Limited
<1>8. CASE (Makes(s, c, x) \/ Leaves(s, c, x)) /\ made # {}
  <2>1. ~r.limit
    BY <1>8 DEF Makes, Leaves
  <2>2. /\ ~chat.fresh /\ (ownerFaults = 0 => chat.outcome = "created")
        /\ ownerFaults <= 1 /\ chat.outcome = Owner!None => create.limit
    BY <1>8 DEF Limited
  <2> HIDE DEF r
  <2>3. chat.outcome # "created"
    BY <1>1, <1>4, <2>1
  <2>4. chat.outcome = Owner!None => ownerFaults > 1
    BY <1>1, <1>4, <1>5, <2>1, <2>2
  <2>. QED
    BY <1>5, <2>2, <2>3, <2>4
<1>. QED
  BY <1>2, <1>6, <1>7, <1>8

LEMMA TurnMakesShown ==
  ASSUME Typed, NEW s, NEW c, NEW x, TurnStep(s, c, x)
  PROVE  ownerFaults = 0 /\ chat.shown # Owner!Empty =>
           \A d \in (made' \ made) \cup (stray' \ stray) : d = chat.shown
<1>1. /\ s \in Works /\ c \in Chats /\ Move(s, c, x) /\ s = Owner!Prepared
      /\ c.shown = chat.shown /\ made' = x.s.made /\ stray' = x.s.stray
      /\ ownerFaults = 0 => Faithful(s.create, c)
  BY DEF TurnStep
<1>2. Keeps(s, x) \/ Makes(s, c, x) \/ Leaves(s, c, x)
  BY <1>1, MoveEffects
<1>3. s.made = made /\ s.stray = stray
  BY <1>1, PreparedParts
<1>4. CASE Keeps(s, x)
  BY <1>1, <1>3, <1>4 DEF Keeps
<1>5. CASE Makes(s, c, x)
  BY <1>1, <1>3, <1>5 DEF Makes
<1>6. CASE Leaves(s, c, x)
  BY <1>1, <1>3, <1>6 DEF Leaves
<1>. QED
  BY <1>2, <1>4, <1>5, <1>6

LEMMA TurnRemovesPrompted ==
  ASSUME Owner!Distinct, Typed, Prompted, NEW s, NEW c, NEW x, TurnStep(s, c, x)
  PROVE  \A p \in live \ live' : ownerFaults > 0 \/ chat.prompted = p
<1>1. /\ s \in Works /\ c \in Chats /\ Move(s, c, x) /\ s = Owner!Prepared /\ live' = x.s.live
  BY DEF TurnStep
<1>2. Removes(s, x)
  BY <1>1, MoveEffects
<1>3. /\ s.live = live /\ live \subseteq Properties /\ ownerFaults \in Nat
      /\ ~chat.fresh => s.removal = removal
      /\ chat.fresh => s.removal.target = Owner!None
  BY <1>1, PreparedParts DEF Typed, Owner!Distinct
<1>4. Owner!None \notin Properties
  BY DEF Owner!Distinct
<1>5. ASSUME NEW p \in live \ live' PROVE ownerFaults > 0 \/ chat.prompted = p
  <2>1. s.removal.target = p
    BY <1>1, <1>2, <1>3 DEF Removes
  <2>2. p # Owner!None
    BY <1>3, <1>4
  <2>. QED
    BY <1>3, <2>1, <2>2 DEF Prompted
<1>. QED
  BY <1>5

LEMMA NewChatTyped ==
  /\ Owner!NewChat \in Chats /\ Owner!NewChat.fresh /\ Faithful(Owner!NoDraft, Owner!NewChat)
  /\ Owner!NoRemoval \in Removals
<1>1. Owner!NewChat \in Chats
  BY EmptyTyped DEF Owner!NewChat, Chats, Lasts
<1>2. /\ Owner!NewChat.fresh /\ Owner!NewChat.shown = Owner!Empty
      /\ Owner!NewChat.outcome = Owner!None /\ Owner!NewChat.last = Owner!None
      /\ Owner!NewChat.recovered = Owner!Empty /\ Owner!NewChat.pending = Owner!None
  BY DEF Owner!NewChat
<1>3. Owner!Empty["supply"] = Owner!None
  BY DEF Owner!Empty, Owner!Fields
<1>4. Faithful(Owner!NoDraft, Owner!NewChat)
  BY <1>2, <1>3, CompletedTyped DEF Faithful, Untouched, Owner!None
<1>. QED
  BY <1>1, <1>2, <1>4 DEF Owner!NoRemoval, Removals

(* The first state, the next chat, a reload and a user who settles down.   *)
LEMMA InitChat ==
  ASSUME Owner!Distinct, Owner!Init
  PROVE  OwnerInv
<1>1. Typed
  <2>1. 0 \in 0 .. MaxOwnerFaults
          /\ Owner!None \in Properties \cup {Owner!None}
    BY DEF Owner!Distinct
  <2>2. create \in Creates /\ removal \in Removals /\ chat \in Chats
    BY NewChatTyped, CompletedTyped DEF Owner!Init
  <2>. QED
    BY <2>1, <2>2 DEF Owner!Init, Typed
<1>2. Agreed
  BY NewChatTyped DEF Owner!Init, Agreed, Owner!Prepared
<1>. QED
  BY <1>1, <1>2, NewChatTyped DEF Owner!Init, OwnerInv, Limited, Prompted

(* A restart forgets the sessions and counts as a fault; a reload starts a *)
(* chat in which nothing has been shown, made or prompted.                 *)
LEMMA RestartChat ==
  ASSUME OwnerInv, MaxOwnerFaults \in Nat, Owner!Restart
  PROVE  OwnerInv'
<1>1. ownerFaults' = ownerFaults + 1 /\ ownerFaults \in Nat /\ ownerFaults' \in 0 .. MaxOwnerFaults
  BY DEF Owner!Restart, OwnerInv, Typed
<1>2. Typed'
  BY <1>1, NewChatTyped, CompletedTyped DEF Owner!Restart, OwnerInv, Typed
<1>3. Agreed' /\ Prompted'
  BY <1>1 DEF Agreed, Prompted
<1>4. Limited'
  BY <1>1 DEF Owner!Restart, OwnerInv, Limited, Owner!None
<1>. QED
  BY <1>2, <1>3, <1>4 DEF OwnerInv

LEMMA RefreshChat ==
  ASSUME OwnerInv, MaxOwnerFaults \in Nat, Owner!Refresh
  PROVE  OwnerInv'
<1>1. Typed'
  <2>1. 0 \in 0 .. MaxOwnerFaults
    OBVIOUS
  <2>2. chat' \in Chats
    BY NewChatTyped DEF Owner!Refresh
  <2>. QED
    BY <2>1, <2>2 DEF Owner!Refresh, OwnerInv, Typed
<1>2. Agreed'
  <2>1. chat' = Owner!NewChat /\ Owner!Prepared'.create = Owner!NoDraft
    BY NewChatTyped DEF Owner!Refresh, Owner!Prepared
  <2>. QED
    BY <2>1, NewChatTyped DEF Agreed
<1>. QED
  BY <1>1, <1>2, NewChatTyped DEF Owner!Refresh, OwnerInv, Limited, Prompted

LEMMA StillChat ==
  ASSUME OwnerInv, ownerPatient' \in BOOLEAN,
         UNCHANGED <<create, removal, edit, chat, live, made, stray, ownerFaults>>
  PROVE  OwnerInv'
<1>1. Owner!Prepared' = Owner!Prepared
  BY DEF Owner!Prepared, Owner!Here
<1>. QED
  BY <1>1 DEF OwnerInv, Typed, Agreed, Limited, Prompted

LEMMA ChatInductive ==
  ASSUME OwnerInv, [Owner!Next]_(Owner!vars)
  PROVE  OwnerInv'
<1>1. MaxOwnerFaults \in Nat
  BY OwnerAssumption DEF Owner!Distinct
<1>2. ASSUME NEW u \in Owner!Says, Owner!Turn(u) PROVE OwnerInv'
  <2>1. PICK s, c, x : TurnStep(s, c, x)
    BY <1>2, OwnerAssumption, TurnIsStep DEF OwnerInv
  <2>. QED
    BY <1>1, <2>1, TurnTyped, TurnAgreed, TurnLimited, TurnPrompted,
       OwnerAssumption DEF OwnerInv
<1>3. CASE Owner!Restart
  BY <1>1, <1>3, RestartChat
<1>4. CASE Owner!Refresh
  BY <1>1, <1>4, RefreshChat
<1>5. CASE Owner!SettleDown
  BY <1>5, StillChat DEF Owner!SettleDown
<1>6. CASE UNCHANGED Owner!vars
  BY <1>6, StillChat DEF Owner!vars, OwnerInv, Typed
<1>. QED
  BY <1>2, <1>3, <1>4, <1>5, <1>6 DEF Owner!Next

(* The invariant holds in every state of a chat, whatever the answers.     *)
LEMMA OwnerInvariant == OwnerSpec => []OwnerInv
<1>1. Owner!Init => OwnerInv
  BY OwnerAssumption, InitChat
<1>2. OwnerInv /\ [Owner!Next]_(Owner!vars) => OwnerInv'
  BY ChatInductive
<1>. QED
  BY <1>1, <1>2, PTL DEF OwnerSpec, Owner!Spec

(* A step of a chat that changes what it has made or removes a listing is  *)
(* a turn, or the reload that starts the next chat.                        *)
LEMMA StepKinds ==
  ASSUME OwnerInv, [Owner!Next]_(Owner!vars)
  PROVE  \/ \E s, c, x : TurnStep(s, c, x)
         \/ /\ live' = live
            /\ \/ made' = made /\ stray' = stray
               \/ made' = {} /\ stray' = {}
<1>1. ASSUME NEW u \in Owner!Says, Owner!Turn(u) PROVE \E s, c, x : TurnStep(s, c, x)
  BY <1>1, OwnerAssumption, TurnIsStep DEF OwnerInv
<1>. QED
  BY <1>1 DEF Owner!Next, Owner!Restart, Owner!Refresh, Owner!SettleDown, Owner!vars

(* Sessions, history and database hold values of their types.              *)
THEOREM ChatTyped == OwnerSpec => []OwnerTypeOK
<1>1. OwnerInv => OwnerTypeOK
  BY DEF OwnerInv, Typed, OwnerTypeOK, Creates, Removals, Chats
<1>. QED
  BY <1>1, OwnerInvariant, PTL

(* A chat makes one listing, but for the cases OneListingPerChat names.    *)
THEOREM DeploysOnce == OwnerSpec => OneListingPerChat
<1> DEFINE Step == \/ made' \subseteq made /\ made' \cup stray' \subseteq made \cup stray
                   \/ made \cup stray = {}
                   \/ made = {} /\ (chat.outcome = "failed" \/ ownerFaults > 0)
                   \/ ownerFaults > 0 /\ chat.outcome = "failed"
                   \/ ownerFaults > 1 /\ chat.outcome # "created"
<1>1. OwnerInv /\ [Owner!Next]_(Owner!vars) => [Step]_(Owner!vars)
  <2> SUFFICES ASSUME OwnerInv, [Owner!Next]_(Owner!vars) PROVE Step
    OBVIOUS
  <2>1. ASSUME NEW s, NEW c, NEW x, TurnStep(s, c, x) PROVE Step
    BY <2>1, OwnerAssumption, TurnMakesOne DEF OwnerInv, Owner!Distinct
  <2>2. CASE \/ made' = made /\ stray' = stray
             \/ made' = {} /\ stray' = {}
    BY <2>2
  <2>. QED
    BY <2>1, <2>2, StepKinds
<1>. QED
  BY <1>1, OwnerInvariant, PTL DEF OwnerSpec, Owner!Spec, OneListingPerChat

(* What is deployed is what the last summary showed.                       *)
THEOREM DeploysAsShown == OwnerSpec => CreatedAsShown
<1> DEFINE Step == ownerFaults = 0 /\ chat.shown # Owner!Empty =>
                     \A d \in (made' \ made) \cup (stray' \ stray) : d = chat.shown
<1>1. OwnerInv /\ [Owner!Next]_(Owner!vars) => [Step]_(Owner!vars)
  <2> SUFFICES ASSUME OwnerInv, [Owner!Next]_(Owner!vars) PROVE Step
    OBVIOUS
  <2>1. ASSUME NEW s, NEW c, NEW x, TurnStep(s, c, x) PROVE Step
    BY <2>1, TurnMakesShown DEF OwnerInv
  <2>2. CASE \/ made' = made /\ stray' = stray
             \/ made' = {} /\ stray' = {}
    BY <2>2
  <2>. QED
    BY <2>1, <2>2, StepKinds
<1>. QED
  BY <1>1, OwnerInvariant, PTL DEF OwnerSpec, Owner!Spec, CreatedAsShown

(* A listing goes only after the delete prompt that named it.              *)
THEOREM RemovesPrompted == OwnerSpec => RemovedWasPrompted
<1> DEFINE Step == \A p \in live \ live' : ownerFaults > 0 \/ chat.prompted = p
<1>1. OwnerInv /\ [Owner!Next]_(Owner!vars) => [Step]_(Owner!vars)
  <2> SUFFICES ASSUME OwnerInv, [Owner!Next]_(Owner!vars) PROVE Step
    OBVIOUS
  <2>1. ASSUME NEW s, NEW c, NEW x, TurnStep(s, c, x) PROVE Step
    BY <2>1, OwnerAssumption, TurnRemovesPrompted DEF OwnerInv
  <2>. QED
    BY <2>1, StepKinds
<1>. QED
  BY <1>1, OwnerInvariant, PTL DEF OwnerSpec, Owner!Spec, RemovedWasPrompted
=============================================================================
