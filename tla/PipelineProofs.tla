--------------------------- MODULE PipelineProofs ---------------------------
(***************************************************************************)
(* Theorems about one run of the main agent over either pipeline           *)
(* (ReactPipeline, AgentGraph) and its budget (RunBudget), for any limits, *)
(* any evidence and any answers of the model and the services; about what  *)
(* its callbacks tell (AgentTracing), for any calls, in whatever way they  *)
(* nest, end or are lost; and about the evidence that a search hands to it *)
(* (Retrieval), for any library, rankings and limits.                      *)
(***************************************************************************)
EXTENDS ReactPipeline, AgentGraph, AgentTracing, Retrieval, SequenceFacts

(***************************************************************************)
(* RunBudget: what the operations on a budget keep.  Its counters balance, *)
(* and the records of its calls add up to them.                            *)
(***************************************************************************)
Statuses == {"reserved", "completed", "failed", "timeout"}
Records == [tool : Tools, status : Statuses]
Budgets == [calls : [Tools -> Nat], active : [Tools -> Nat], tokens : Nat,
            completed : Nat, failed : Nat, timedOut : Nat, trace : Seq(Records)]

\* The quotas are kept, and every call of the run is in flight or has ended.
Balanced(b) ==
    /\ b.calls[DocumentSearch] <= MaxDocs /\ b.calls[WebSearch] <= MaxWeb
    /\ b.tokens <= MaxContext
    /\ Total(b.active) + b.completed + b.failed = Total(b.calls)
    /\ b.timedOut <= b.failed

Books(b) == b \in Budgets /\ Balanced(b) /\ Accounted(b)

\* The four tools are different, and a sum over them is one of their numbers.
LEMMA TotalType ==
    ASSUME NEW f \in [Tools -> Nat]
    PROVE  /\ Total(f) \in Nat
           /\ f[DocumentSearch] \in Nat /\ f[WebSearch] \in Nat
           /\ f["search_docs_selection"] \in Nat /\ f["select_context"] \in Nat
  <1>1. /\ f[DocumentSearch] \in Nat /\ f[WebSearch] \in Nat
        /\ f["search_docs_selection"] \in Nat /\ f["select_context"] \in Nat
    BY DEF Tools
  <1> QED
    BY <1>1 DEF Total

\* A sum changes by what one of its terms changes by.
LEMMA TotalChange ==
    ASSUME NEW f \in [Tools -> Nat], NEW t \in Tools, NEW n \in Nat
    PROVE  Total([f EXCEPT ![t] = n]) = Total(f) - f[t] + n
  <1>1. /\ f[DocumentSearch] \in Nat /\ f[WebSearch] \in Nat
        /\ f["search_docs_selection"] \in Nat /\ f["select_context"] \in Nat
    BY TotalType
  <1> DEFINE g == [f EXCEPT ![t] = n]
  <1>2. /\ DocumentSearch \in Tools /\ WebSearch \in Tools
        /\ "search_docs_selection" \in Tools /\ "select_context" \in Tools
    BY DEF Tools
  <1>3. \A u \in Tools : g[u] = IF u = t THEN n ELSE f[u]
    OBVIOUS
  <1> HIDE DEF g
  <1>4. CASE t = DocumentSearch
    BY <1>1, <1>2, <1>3, <1>4 DEF Total, DocumentSearch, WebSearch
  <1>5. CASE t = WebSearch
    BY <1>1, <1>2, <1>3, <1>5 DEF Total, DocumentSearch, WebSearch
  <1>6. CASE t = "search_docs_selection"
    BY <1>1, <1>2, <1>3, <1>6 DEF Total, DocumentSearch, WebSearch
  <1>7. CASE t = "select_context"
    BY <1>1, <1>2, <1>3, <1>7 DEF Total, DocumentSearch, WebSearch
  <1> QED
    BY <1>4, <1>5, <1>6, <1>7 DEF Tools

-----------------------------------------------------------------------------
(* Counting records.                                                       *)

\* Where the records of r are in P, and how many.
Places(r, P) == {i \in DOMAIN r : r[i] \in P}
Count(r, P) == Cardinality(Places(r, P))

ByTool(t) == {x \in Records : x.tool = t}
Having(s) == {x \in Records : x.status = s}
Open(t) == {[tool |-> t, status |-> "reserved"]}

LEMMA PlacesFinite ==
    ASSUME NEW r \in Seq(Records), NEW P
    PROVE  /\ IsFiniteSet(Places(r, P)) /\ Count(r, P) \in Nat
           /\ Len(r) \in Nat /\ DOMAIN r = 1 .. Len(r)
  <1>1. Len(r) \in Nat /\ DOMAIN r = 1 .. Len(r)
    BY LenProperties
  <1>2. IsFiniteSet(1 .. Len(r))
    BY <1>1, FS_Interval
  <1>3. Places(r, P) \in SUBSET (1 .. Len(r))
    BY <1>1 DEF Places
  <1>4. IsFiniteSet(Places(r, P))
    BY <1>2, <1>3, FS_Subset
  <1> QED
    BY <1>1, <1>4, FS_CardinalityType DEF Count

\* The records are accounted for by the counts.
LEMMA AccountedCounts ==
    ASSUME NEW b \in Budgets
    PROVE  Accounted(b) <=>
            /\ \A t \in Tools : /\ Count(b.trace, Open(t)) = b.active[t]
                                /\ Count(b.trace, ByTool(t)) = b.calls[t]
            /\ Count(b.trace, Having("completed")) = b.completed
            /\ Count(b.trace, Having("timeout")) = b.timedOut
            /\ Count(b.trace, Having("failed")) + b.timedOut = b.failed
  <1>1. \A i \in DOMAIN b.trace : b.trace[i] \in Records
    BY ElementOfSeq, LenProperties DEF Budgets
  <1>2. ASSUME NEW t \in Tools
        PROVE  /\ Traced(b, t, "reserved") = Count(b.trace, Open(t))
               /\ Cardinality({i \in DOMAIN b.trace : b.trace[i].tool = t})
                    = Count(b.trace, ByTool(t))
    <2>1. {i \in DOMAIN b.trace : b.trace[i] = [tool |-> t, status |-> "reserved"]}
            = Places(b.trace, Open(t))
      BY DEF Places, Open
    <2>2. {i \in DOMAIN b.trace : b.trace[i].tool = t} = Places(b.trace, ByTool(t))
      BY <1>1 DEF Places, ByTool
    <2> QED
      BY <2>1, <2>2 DEF Traced, Count
  <1>3. ASSUME NEW s
        PROVE  TracedStatus(b, s) = Count(b.trace, Having(s))
    <2>1. {i \in DOMAIN b.trace : b.trace[i].status = s} = Places(b.trace, Having(s))
      BY <1>1 DEF Places, Having
    <2> QED
      BY <2>1 DEF TracedStatus, Count
  <1> QED
    BY <1>2, <1>3 DEF Accounted

\* A further record counts where it belongs.
LEMMA CountAppend ==
    ASSUME NEW r \in Seq(Records), NEW x \in Records, NEW P
    PROVE  Count(Append(r, x), P) = Count(r, P) + (IF x \in P THEN 1 ELSE 0)
  <1> DEFINE n == Len(r)
             q == Append(r, x)
  <1>1. n \in Nat /\ DOMAIN r = 1 .. n
    BY LenProperties
  <1>2. /\ q \in Seq(Records) /\ Len(q) = n + 1 /\ q[n + 1] = x
        /\ \A i \in 1 .. n : q[i] = r[i]
    BY AppendProperties
  <1>3. DOMAIN q = 1 .. (n + 1)
    BY <1>2, LenProperties
  <1> HIDE DEF q, n
  <1>4. (1 .. (n + 1)) = (1 .. n) \union {n + 1} /\ n + 1 \notin 1 .. n
    BY <1>1
  <1>5. IsFiniteSet(Places(r, P)) /\ n + 1 \notin Places(r, P)
    BY <1>1, <1>4, PlacesFinite DEF Places
  <1>6. CASE x \in P
    <2>1. Places(q, P) = Places(r, P) \union {n + 1}
      BY <1>1, <1>2, <1>3, <1>4, <1>6 DEF Places
    <2> QED
      BY <1>5, <1>6, <2>1, FS_AddElement DEF Count, q
  <1>7. CASE x \notin P
    <2>1. Places(q, P) = Places(r, P)
      BY <1>1, <1>2, <1>3, <1>4, <1>7 DEF Places
    <2>2. Count(r, P) \in Nat
      BY PlacesFinite
    <2> QED
      BY <1>7, <2>1, <2>2 DEF Count, q
  <1> QED
    BY <1>6, <1>7

\* A record that is replaced counts where it then belongs.
LEMMA CountReplace ==
    ASSUME NEW r \in Seq(Records), NEW k \in DOMAIN r, NEW x \in Records, NEW P
    PROVE  Count([r EXCEPT ![k] = x], P) =
                Count(r, P) - (IF r[k] \in P THEN 1 ELSE 0) + (IF x \in P THEN 1 ELSE 0)
  <1> DEFINE q == [r EXCEPT ![k] = x]
             rest == Places(r, P) \ {k}
  <1>1. DOMAIN q = DOMAIN r /\ q[k] = x /\ \A i \in DOMAIN r : i # k => q[i] = r[i]
    OBVIOUS
  <1> HIDE DEF q
  <1>2. /\ IsFiniteSet(Places(r, P)) /\ Count(r, P) \in Nat
    BY PlacesFinite
  <1>3. /\ IsFiniteSet(rest)
        /\ Cardinality(rest) = Count(r, P) - (IF r[k] \in P THEN 1 ELSE 0)
    <2>1. k \in Places(r, P) <=> r[k] \in P
      BY DEF Places
    <2>2. /\ IsFiniteSet(rest)
          /\ Cardinality(rest) = IF k \in Places(r, P) THEN Count(r, P) - 1 ELSE Count(r, P)
      BY <1>2, FS_RemoveElement DEF Count
    <2> HIDE DEF rest
    <2>3. CASE r[k] \in P
      BY <1>2, <2>1, <2>2, <2>3
    <2>4. CASE r[k] \notin P
      BY <1>2, <2>1, <2>2, <2>4
    <2> QED
      BY <2>3, <2>4
  <1>4. k \notin rest /\ Cardinality(rest) \in Nat
    BY <1>3, FS_CardinalityType
  <1>5. CASE x \in P
    <2>1. Places(q, P) = rest \union {k}
      BY <1>1, <1>5 DEF Places
    <2>2. Cardinality(rest \union {k}) = Cardinality(rest) + 1
      BY <1>3, <1>4, FS_AddElement
    <2> QED
      BY <1>3, <1>4, <1>5, <2>1, <2>2 DEF Count, q
  <1>6. CASE x \notin P
    <2>1. Places(q, P) = rest
      BY <1>1, <1>6 DEF Places
    <2>2. Count(q, P) = Count(r, P) - (IF r[k] \in P THEN 1 ELSE 0) + 0
      BY <1>2, <1>3, <2>1 DEF Count
    <2> QED
      BY <1>6, <2>2 DEF q
  <1> QED
    BY <1>5, <1>6

-----------------------------------------------------------------------------
(* The operations.                                                         *)

\* A budget with a field changed is a budget.
LEMMA FieldTyped ==
    ASSUME NEW b \in Budgets
    PROVE  /\ \A f \in [Tools -> Nat] : [b EXCEPT !.calls = f] \in Budgets
           /\ \A f \in [Tools -> Nat] : [b EXCEPT !.active = f] \in Budgets
           /\ \A n \in Nat : /\ [b EXCEPT !.tokens = n] \in Budgets
                             /\ [b EXCEPT !.completed = n] \in Budgets
                             /\ [b EXCEPT !.failed = n] \in Budgets
                             /\ [b EXCEPT !.timedOut = n] \in Budgets
           /\ \A r \in Seq(Records) : [b EXCEPT !.trace = r] \in Budgets
  BY DEF Budgets

\* What the refusal of a call says of the budget.
LEMMA RefusalReasons ==
    ASSUME NEW b, NEW t
    PROVE  CanReserve(b, t) <=>
            /\ ~(RemainingTokens(b) <= 0)
            /\ ~(t = DocumentSearch /\ b.calls[t] >= MaxDocs)
            /\ ~(t = WebSearch /\ b.calls[t] >= MaxWeb)
  BY DEF CanReserve, Refusal, None

\* A new budget balances.
LEMMA NewBooks == Books(NewBudget)
  <1> DEFINE z == [t \in Tools |-> 0]
  <1>1. z \in [Tools -> Nat] /\ \A t \in Tools : z[t] = 0
    OBVIOUS
  <1>2. Total(z) = 0
    <2>1. /\ DocumentSearch \in Tools /\ WebSearch \in Tools
          /\ "search_docs_selection" \in Tools /\ "select_context" \in Tools
      BY DEF Tools
    <2> QED
      BY <1>1, <2>1 DEF Total
  <1>3. /\ NewBudget.calls = z /\ NewBudget.active = z /\ NewBudget.trace = <<>>
        /\ NewBudget.tokens = 0 /\ NewBudget.completed = 0 /\ NewBudget.failed = 0
        /\ NewBudget.timedOut = 0
    BY DEF NewBudget
  <1> HIDE DEF z
  <1>4. NewBudget \in Budgets
    <2>1. <<>> \in Seq(Records)
      BY EmptySeq
    <2> QED
      BY <1>1, <2>1 DEF NewBudget, Budgets, z
  <1>5. \A P : Count(<<>>, P) = 0
    <2>1. \A P : Places(<<>>, P) = {}
      BY EmptySeq DEF Places
    <2> QED
      BY <2>1, FS_EmptySet DEF Count
  <1>6. Balanced(NewBudget)
    <2>1. DocumentSearch \in Tools /\ WebSearch \in Tools
      BY DEF Tools
    <2> QED
      BY <1>1, <1>2, <1>3, <2>1, LimitsAssumption DEF Balanced
  <1>7. Accounted(NewBudget)
    <2> DEFINE b == NewBudget
    <2>1. /\ \A t \in Tools : /\ Count(b.trace, Open(t)) = b.active[t]
                              /\ Count(b.trace, ByTool(t)) = b.calls[t]
          /\ Count(b.trace, Having("completed")) = b.completed
          /\ Count(b.trace, Having("timeout")) = b.timedOut
          /\ Count(b.trace, Having("failed")) + b.timedOut = b.failed
      BY <1>1, <1>3, <1>5
    <2> HIDE DEF b
    <2>2. Accounted(b)
      BY <1>4, <2>1, AccountedCounts DEF b
    <2> QED
      BY <2>2 DEF b
  <1> QED
    BY <1>4, <1>6, <1>7 DEF Books

\* An admitted call is within its quota, and one more in flight.
LEMMA ReserveBooks ==
    ASSUME NEW b, Books(b), NEW t \in Tools, CanReserve(b, t)
    PROVE  /\ Books(Reserve(b, t))
           /\ Reserve(b, t).calls = [b.calls EXCEPT ![t] = @ + 1]
           /\ Reserve(b, t).active = [b.active EXCEPT ![t] = @ + 1]
           /\ Reserve(b, t).tokens = b.tokens
  <1> DEFINE c == Reserve(b, t)
             x == [tool |-> t, status |-> "reserved"]
  <1>1. b \in Budgets /\ Balanced(b) /\ Accounted(b)
    BY DEF Books
  <1>2. /\ c.calls = [b.calls EXCEPT ![t] = @ + 1]
        /\ c.active = [b.active EXCEPT ![t] = @ + 1]
        /\ c.tokens = b.tokens /\ c.completed = b.completed /\ c.failed = b.failed
        /\ c.timedOut = b.timedOut /\ c.trace = Append(b.trace, x)
    BY <1>1 DEF Reserve, Budgets
  <1>3. x \in Records
    BY DEF Records, Statuses
  <1>4. /\ b.calls \in [Tools -> Nat] /\ b.active \in [Tools -> Nat]
        /\ b.trace \in Seq(Records) /\ b.tokens \in Nat /\ b.completed \in Nat
        /\ b.failed \in Nat /\ b.timedOut \in Nat
    BY <1>1 DEF Budgets
  <1>5. Append(b.trace, x) \in Seq(Records)
    BY <1>3, <1>4, AppendProperties
  <1>6. c \in Budgets
    <2> DEFINE c1 == [b EXCEPT !.calls = [b.calls EXCEPT ![t] = @ + 1]]
               c2 == [c1 EXCEPT !.active = [b.active EXCEPT ![t] = @ + 1]]
    <2>1. c = [c2 EXCEPT !.trace = Append(b.trace, x)]
      BY <1>1 DEF Reserve, Budgets
    <2>2. /\ [b.calls EXCEPT ![t] = @ + 1] \in [Tools -> Nat]
          /\ [b.active EXCEPT ![t] = @ + 1] \in [Tools -> Nat]
      BY <1>4
    <2>3. c1 \in Budgets
      BY <1>1, <2>2, FieldTyped
    <2> HIDE DEF c1
    <2>4. c2 \in Budgets
      BY <2>2, <2>3, FieldTyped
    <2> HIDE DEF c2
    <2> QED
      BY <1>5, <2>1, <2>4, FieldTyped
  <1> HIDE DEF c
  <1>7. Total(c.calls) = Total(b.calls) + 1 /\ Total(c.active) = Total(b.active) + 1
    <2>1. b.calls[t] + 1 \in Nat /\ b.active[t] + 1 \in Nat /\ b.calls[t] \in Nat
          /\ b.active[t] \in Nat
      BY <1>4
    <2>2. Total(b.calls) \in Nat /\ Total(b.active) \in Nat
      BY <1>4, TotalType
    <2>3. /\ Total(c.calls) = Total(b.calls) - b.calls[t] + (b.calls[t] + 1)
          /\ Total(c.active) = Total(b.active) - b.active[t] + (b.active[t] + 1)
      <3>1. /\ c.calls = [b.calls EXCEPT ![t] = b.calls[t] + 1]
            /\ c.active = [b.active EXCEPT ![t] = b.active[t] + 1]
        BY <1>2
      <3>2. /\ Total([b.calls EXCEPT ![t] = b.calls[t] + 1])
                    = Total(b.calls) - b.calls[t] + (b.calls[t] + 1)
            /\ Total([b.active EXCEPT ![t] = b.active[t] + 1])
                    = Total(b.active) - b.active[t] + (b.active[t] + 1)
        BY <1>4, <2>1, TotalChange
      <3> QED
        BY <3>1, <3>2
    <2> QED
      BY <2>1, <2>2, <2>3
  <1>8. Balanced(c)
    <2>1. /\ ~(t = DocumentSearch /\ b.calls[t] >= MaxDocs)
          /\ ~(t = WebSearch /\ b.calls[t] >= MaxWeb)
      BY RefusalReasons
    <2>2. DocumentSearch \in Tools /\ WebSearch \in Tools
      BY DEF Tools
    <2>3. c.calls[DocumentSearch] <= MaxDocs
      BY <1>1, <1>2, <1>4, <2>1, <2>2, LimitsAssumption DEF Balanced
    <2>4. c.calls[WebSearch] <= MaxWeb
      BY <1>1, <1>2, <1>4, <2>1, <2>2, LimitsAssumption DEF Balanced
    <2>5. Total(b.calls) \in Nat /\ Total(b.active) \in Nat
      BY <1>4, TotalType
    <2>6. Total(c.active) + c.completed + c.failed = Total(c.calls)
      <3>1. Total(b.active) + b.completed + b.failed = Total(b.calls)
        BY <1>1 DEF Balanced
      <3>2. c.completed = b.completed /\ c.failed = b.failed
        BY <1>2
      <3> QED
        BY <1>4, <1>7, <2>5, <3>1, <3>2
    <2>7. c.tokens <= MaxContext /\ c.timedOut <= c.failed
      BY <1>1, <1>2 DEF Balanced
    <2> QED
      BY <2>3, <2>4, <2>6, <2>7 DEF Balanced
  <1>9. Accounted(c)
    <2>1. \A P : Count(c.trace, P) = Count(b.trace, P) + (IF x \in P THEN 1 ELSE 0)
      BY <1>2, <1>3, <1>4, CountAppend
    <2>2. /\ \A u \in Tools : /\ Count(b.trace, Open(u)) = b.active[u]
                              /\ Count(b.trace, ByTool(u)) = b.calls[u]
          /\ Count(b.trace, Having("completed")) = b.completed
          /\ Count(b.trace, Having("timeout")) = b.timedOut
          /\ Count(b.trace, Having("failed")) + b.timedOut = b.failed
      BY <1>1, AccountedCounts
    <2>3. \A u \in Tools : (x \in Open(u) <=> u = t) /\ (x \in ByTool(u) <=> u = t)
      BY <1>3 DEF Open, ByTool
    <2>4. \A s \in {"completed", "timeout", "failed"} : x \notin Having(s)
      BY DEF Having
    <2>5. \A u \in Tools : Count(c.trace, Open(u)) = c.active[u]
                           /\ Count(c.trace, ByTool(u)) = c.calls[u]
      BY <1>2, <1>4, <2>1, <2>2, <2>3
    <2>6. \A P : Count(b.trace, P) \in Nat
      BY <1>4, PlacesFinite
    <2>7. /\ Count(c.trace, Having("completed")) = c.completed
          /\ Count(c.trace, Having("timeout")) = c.timedOut
          /\ Count(c.trace, Having("failed")) + c.timedOut = c.failed
      BY <1>2, <2>1, <2>2, <2>4, <2>6
    <2> QED
      BY <1>6, <2>5, <2>7, AccountedCounts
  <1> QED
    BY <1>2, <1>6, <1>8, <1>9 DEF Books, c

\* A set of places has a last one.
LEMMA LastPlace ==
    ASSUME NEW n \in Nat, NEW S, S \subseteq 1 .. n, S # {}
    PROVE  \E i \in S : \A j \in S : j <= i
  <1> DEFINE R == {s \in Nat \X Nat : s[1] < s[2]}
             T == {k \in Nat : n - k \in S}
  <1>1. IsWellFoundedOn(R, Nat)
    <2>1. R = OpToRel(<, Nat)
      BY DEF OpToRel
    <2> QED
      BY <2>1, NatLessThanWellFounded
  <1>2. T \subseteq Nat /\ T # {}
    <2>1. PICK i \in S : TRUE
      OBVIOUS
    <2>2. n - i \in Nat /\ n - (n - i) = i
      BY <2>1
    <2> QED
      BY <2>1, <2>2
  <1>3. \E k \in T : \A m \in T : ~(<<m, k>> \in R)
    <2> HIDE DEF R, T
    <2> QED
      BY <1>1, <1>2, WFMin
  <1>4. PICK k \in T : \A m \in T : k <= m
    <2>1. PICK k \in T : \A m \in T : ~(<<m, k>> \in R)
      BY <1>3
    <2>2. ASSUME NEW m \in T
          PROVE  k <= m
      <3>1. m \in Nat /\ k \in Nat
        BY <1>2
      <3>2. ~(<<m, k>> \in R)
        BY <2>1
      <3>3. ~(m < k)
        BY <3>1, <3>2
      <3> QED
        BY <3>1, <3>3
    <2> QED
      BY <2>2
  <1>5. n - k \in S
    OBVIOUS
  <1>6. \A j \in S : n - j \in T /\ k <= n - j /\ j <= n - k
    <2> TAKE j \in S
    <2>1. j \in Nat /\ n - j \in Nat /\ n - (n - j) = j
      OBVIOUS
    <2>2. n - j \in T
      BY <2>1
    <2> QED
      BY <1>4, <2>1, <2>2
  <1> QED
    BY <1>5, <1>6

\* A call that ends closes a record of its tool that is open.
LEMMA MarkLatest ==
    ASSUME NEW r \in Seq(Records), NEW t \in Tools, NEW s, Count(r, Open(t)) # 0
    PROVE  \E k \in DOMAIN r :
                /\ r[k] = [tool |-> t, status |-> "reserved"]
                /\ Mark(r, t, s) = [r EXCEPT ![k] = [tool |-> t, status |-> s]]
  <1> DEFINE S == {i \in DOMAIN r : r[i] = [tool |-> t, status |-> "reserved"]}
             k == CHOOSE i \in S : \A j \in S : j <= i
  <1>1. S = Places(r, Open(t)) /\ Len(r) \in Nat /\ S \subseteq 1 .. Len(r)
    BY PlacesFinite DEF Places, Open
  <1>2. S # {}
    BY <1>1, FS_EmptySet DEF Count
  <1>3. \E i \in S : \A j \in S : j <= i
    BY <1>1, <1>2, LastPlace
  <1>4. k \in S
    BY <1>3
  <1>5. Mark(r, t, s) = [r EXCEPT ![k].status = s]
    BY DEF Mark
  <1> HIDE DEF k
  <1>6. [r[k] EXCEPT !.status = s] = [tool |-> t, status |-> s]
    BY <1>4
  <1> QED
    BY <1>4, <1>5, <1>6

\* A call that ends is no longer in flight, and counted by how it ended.
LEMMA CloseBooks ==
    ASSUME NEW b, Books(b), NEW t \in Tools, b.active[t] # 0,
           NEW s \in {"completed", "failed", "timeout"}
    PROVE  /\ Books(Close(b, t, s))
           /\ Close(b, t, s).calls = b.calls
           /\ Close(b, t, s).active = [b.active EXCEPT ![t] = @ - 1]
           /\ Close(b, t, s).tokens = b.tokens
  <1> DEFINE c == Close(b, t, s)
             x == [tool |-> t, status |-> s]
  <1>1. b \in Budgets /\ Balanced(b) /\ Accounted(b)
    BY DEF Books
  <1>2. /\ c.calls = b.calls /\ c.tokens = b.tokens
        /\ c.active = [b.active EXCEPT ![t] = @ - 1]
        /\ c.completed = IF s = "completed" THEN b.completed + 1 ELSE b.completed
        /\ c.failed = IF s = "completed" THEN b.failed ELSE b.failed + 1
        /\ c.timedOut = IF s = "timeout" THEN b.timedOut + 1 ELSE b.timedOut
        /\ c.trace = Mark(b.trace, t, s)
    BY <1>1 DEF Close, Budgets
  <1>3. x \in Records
    BY DEF Records, Statuses
  <1>4. /\ b.calls \in [Tools -> Nat] /\ b.active \in [Tools -> Nat]
        /\ b.trace \in Seq(Records) /\ b.tokens \in Nat /\ b.completed \in Nat
        /\ b.failed \in Nat /\ b.timedOut \in Nat
    BY <1>1 DEF Budgets
  <1>5. /\ \A u \in Tools : /\ Count(b.trace, Open(u)) = b.active[u]
                            /\ Count(b.trace, ByTool(u)) = b.calls[u]
        /\ Count(b.trace, Having("completed")) = b.completed
        /\ Count(b.trace, Having("timeout")) = b.timedOut
        /\ Count(b.trace, Having("failed")) + b.timedOut = b.failed
    BY <1>1, AccountedCounts
  <1>6. PICK k \in DOMAIN b.trace :
            /\ b.trace[k] = [tool |-> t, status |-> "reserved"]
            /\ Mark(b.trace, t, s) = [b.trace EXCEPT ![k] = x]
    <2> DEFINE r == b.trace
    <2>1. Count(r, Open(t)) # 0
      BY <1>5
    <2>2. r \in Seq(Records)
      BY <1>4
    <2> HIDE DEF r
    <2>3. \E k \in DOMAIN r :
            /\ r[k] = [tool |-> t, status |-> "reserved"]
            /\ Mark(r, t, s) = [r EXCEPT ![k] = [tool |-> t, status |-> s]]
      BY <2>1, <2>2, MarkLatest
    <2> QED
      BY <2>3 DEF r
  <1>7. Mark(b.trace, t, s) \in Seq(Records)
    BY <1>3, <1>4, <1>6, ExceptSeq
  <1>8. b.active[t] - 1 \in Nat /\ b.active[t] \in Nat
    BY <1>4
  <1>9. c \in Budgets
    <2> DEFINE c1 == [b EXCEPT !.active = [b.active EXCEPT ![t] = @ - 1]]
               c2 == [c1 EXCEPT !.completed =
                            IF s = "completed" THEN b.completed + 1 ELSE b.completed]
               c3 == [c2 EXCEPT !.failed =
                            IF s = "completed" THEN b.failed ELSE b.failed + 1]
               c4 == [c3 EXCEPT !.timedOut =
                            IF s = "timeout" THEN b.timedOut + 1 ELSE b.timedOut]
    <2>1. c = [c4 EXCEPT !.trace = Mark(b.trace, t, s)]
      BY <1>1 DEF Close, Budgets
    <2>2. [b.active EXCEPT ![t] = @ - 1] \in [Tools -> Nat]
      BY <1>4, <1>8
    <2>3. /\ (IF s = "completed" THEN b.completed + 1 ELSE b.completed) \in Nat
          /\ (IF s = "completed" THEN b.failed ELSE b.failed + 1) \in Nat
          /\ (IF s = "timeout" THEN b.timedOut + 1 ELSE b.timedOut) \in Nat
      BY <1>4
    <2>4. c1 \in Budgets
      BY <1>1, <2>2, FieldTyped
    <2> HIDE DEF c1
    <2>5. c2 \in Budgets
      BY <2>3, <2>4, FieldTyped
    <2> HIDE DEF c2
    <2>6. c3 \in Budgets
      BY <2>3, <2>5, FieldTyped
    <2> HIDE DEF c3
    <2>7. c4 \in Budgets
      BY <2>3, <2>6, FieldTyped
    <2> HIDE DEF c4
    <2> QED
      BY <1>7, <2>1, <2>7, FieldTyped
  <1> HIDE DEF c
  <1>10. Total(c.active) = Total(b.active) - 1
    <2>1. Total(b.active) \in Nat
      BY <1>4, TotalType
    <2>2. Total(c.active) = Total(b.active) - b.active[t] + (b.active[t] - 1)
      <3>1. c.active = [b.active EXCEPT ![t] = b.active[t] - 1]
        BY <1>2
      <3> QED
        BY <1>4, <1>8, <3>1, TotalChange
    <2> QED
      BY <1>8, <2>1, <2>2
  <1>11. Balanced(c)
    <2>1. Total(b.calls) \in Nat /\ Total(b.active) \in Nat
      BY <1>4, TotalType
    <2>2. /\ c.completed = IF s = "completed" THEN b.completed + 1 ELSE b.completed
          /\ c.failed = IF s = "completed" THEN b.failed ELSE b.failed + 1
          /\ c.timedOut = IF s = "timeout" THEN b.timedOut + 1 ELSE b.timedOut
          /\ c.calls = b.calls /\ c.tokens = b.tokens
      BY <1>2
    <2>3. /\ Total(b.active) + b.completed + b.failed = Total(b.calls)
          /\ b.timedOut <= b.failed
      BY <1>1 DEF Balanced
    <2>4. Total(c.active) + c.completed + c.failed = Total(c.calls)
      BY <1>4, <1>10, <2>1, <2>2, <2>3
    <2>5. c.timedOut <= c.failed
      BY <1>4, <2>2, <2>3
    <2> QED
      BY <1>1, <2>2, <2>4, <2>5 DEF Balanced
  <1>12. Accounted(c)
    <2>1. \A P : Count(c.trace, P) =
            Count(b.trace, P) - (IF b.trace[k] \in P THEN 1 ELSE 0)
                              + (IF x \in P THEN 1 ELSE 0)
      <3>1. c.trace = [b.trace EXCEPT ![k] = x]
        BY <1>2, <1>6
      <3> QED
        BY <1>3, <1>4, <3>1, CountReplace
    <2>2. \A P : Count(b.trace, P) \in Nat
      BY <1>4, PlacesFinite
    <2>3. \A u \in Tools : /\ b.trace[k] \in Open(u) <=> u = t
                           /\ x \notin Open(u)
                           /\ b.trace[k] \in ByTool(u) <=> u = t
                           /\ x \in ByTool(u) <=> u = t
      BY <1>3, <1>6 DEF Open, ByTool, Records, Statuses
    <2>4. \A u \in Tools : Count(c.trace, Open(u)) = c.active[u]
      <3>1. \A u \in Tools : c.active[u] = b.active[u] - (IF u = t THEN 1 ELSE 0)
        BY <1>2, <1>4
      <3> QED
        BY <1>5, <2>1, <2>2, <2>3, <3>1
    <2>5. \A u \in Tools : Count(c.trace, ByTool(u)) = c.calls[u]
      <3>1. c.calls = b.calls
        BY <1>2
      <3>2. \A u \in Tools : Count(b.trace, ByTool(u)) \in Nat
        BY <2>2
      <3>3. \A u \in Tools : Count(c.trace, ByTool(u)) = Count(b.trace, ByTool(u))
        BY <2>1, <2>3, <3>2
      <3> QED
        BY <1>5, <3>1, <3>3
    <2>6. \A e \in {"completed", "timeout", "failed"} :
            b.trace[k] \notin Having(e) /\ (x \in Having(e) <=> e = s)
      BY <1>3, <1>6 DEF Having
    <2>7. \A e \in {"completed", "timeout", "failed"} :
            Count(c.trace, Having(e)) =
                Count(b.trace, Having(e)) + (IF e = s THEN 1 ELSE 0)
      BY <2>1, <2>2, <2>6
    <2>8. /\ Count(c.trace, Having("completed")) = c.completed
          /\ Count(c.trace, Having("timeout")) = c.timedOut
          /\ Count(c.trace, Having("failed")) + c.timedOut = c.failed
      BY <1>2, <1>4, <1>5, <2>2, <2>7
    <2> QED
      BY <1>9, <2>4, <2>5, <2>8, AccountedCounts
  <1> QED
    BY <1>2, <1>9, <1>11, <1>12 DEF Books, c

\* Text that is charged is within the limit.
LEMMA RecordBooks ==
    ASSUME NEW b, Books(b), NEW n \in Nat, Affordable(b, n)
    PROVE  /\ Books(RecordTokens(b, n))
           /\ RecordTokens(b, n).calls = b.calls
           /\ RecordTokens(b, n).active = b.active
           /\ RecordTokens(b, n).tokens = b.tokens + n
  <1> DEFINE c == RecordTokens(b, n)
  <1>1. b \in Budgets /\ Balanced(b) /\ Accounted(b) /\ b.tokens + n <= MaxContext
    BY DEF Books, Affordable
  <1>2. /\ c.calls = b.calls /\ c.active = b.active /\ c.tokens = b.tokens + n
        /\ c.completed = b.completed /\ c.failed = b.failed
        /\ c.timedOut = b.timedOut /\ c.trace = b.trace
    BY <1>1 DEF RecordTokens, Budgets
  <1>3. c \in Budgets
    <2>1. b.tokens + n \in Nat
      BY <1>1 DEF Budgets
    <2> QED
      BY <1>1, <2>1, FieldTyped DEF RecordTokens
  <1> HIDE DEF c
  <1>4. Balanced(c)
    BY <1>1, <1>2 DEF Balanced
  <1>5. Accounted(c)
    BY <1>1, <1>2, <1>3, AccountedCounts
  <1> QED
    BY <1>2, <1>3, <1>4, <1>5 DEF Books, c

\* The sizes of disjoint sets add up.
LEMMA DisjointSizes ==
    ASSUME NEW S, NEW T, IsFiniteSet(S), IsFiniteSet(T), S \intersect T = {}
    PROVE  /\ IsFiniteSet(S \union T)
           /\ Cardinality(S \union T) = Cardinality(S) + Cardinality(T)
  <1>1. /\ IsFiniteSet(S \union T)
        /\ Cardinality(S \union T) =
                Cardinality(S) + Cardinality(T) - Cardinality(S \intersect T)
    BY FS_Union
  <1>2. Cardinality(S) \in Nat /\ Cardinality(T) \in Nat
    BY FS_CardinalityType
  <1>3. Cardinality(S \intersect T) = 0
    BY FS_EmptySet
  <1> QED
    BY <1>1, <1>2, <1>3

\* The open records, all told, are one for each call in flight.
LEMMA OpenTotal ==
    ASSUME NEW b \in Budgets, Accounted(b)
    PROVE  /\ IsFiniteSet(Places(b.trace, Having("reserved")))
           /\ Count(b.trace, Having("reserved")) = Total(b.active)
  <1> DEFINE P(t) == Places(b.trace, Open(t))
             u == "search_docs_selection"
             v == "select_context"
  <1>0. b.trace \in Seq(Records)
    BY DEF Budgets
  <1>1. \A t \in Tools : IsFiniteSet(P(t)) /\ Cardinality(P(t)) = b.active[t]
    BY <1>0, AccountedCounts, PlacesFinite DEF Count
  <1>2. /\ DocumentSearch \in Tools /\ WebSearch \in Tools /\ u \in Tools /\ v \in Tools
        /\ \A t \in Tools : t \in {DocumentSearch, WebSearch, u, v}
    BY DEF Tools
  <1>3. \A s, t \in Tools : s # t => P(s) \intersect P(t) = {}
    BY DEF Places, Open
  <1>4. /\ DocumentSearch # WebSearch /\ DocumentSearch # u /\ DocumentSearch # v
        /\ WebSearch # u /\ WebSearch # v /\ u # v
    BY DEF DocumentSearch, WebSearch
  <1>5. Places(b.trace, Having("reserved"))
            = ((P(DocumentSearch) \union P(WebSearch)) \union P(u)) \union P(v)
    <2>1. \A i \in DOMAIN b.trace : b.trace[i] \in Records
      BY <1>0, ElementOfSeq, LenProperties
    <2>2. \A i \in Places(b.trace, Having("reserved")) :
            b.trace[i].tool \in Tools /\ i \in P(b.trace[i].tool)
      BY <2>1 DEF Places, Having, Open, Records
    <2>3. \A t \in Tools : P(t) \subseteq Places(b.trace, Having("reserved"))
      BY <2>1 DEF Places, Having, Open
    <2> HIDE DEF P, u, v
    <2>4. \A i \in Places(b.trace, Having("reserved")) :
            i \in ((P(DocumentSearch) \union P(WebSearch)) \union P(u)) \union P(v)
      BY <1>2, <2>2
    <2>5. ((P(DocumentSearch) \union P(WebSearch)) \union P(u)) \union P(v)
                \subseteq Places(b.trace, Having("reserved"))
      BY <1>2, <2>3
    <2> QED
      BY <2>4, <2>5
  <1> HIDE DEF P
  <1>6. /\ IsFiniteSet(P(DocumentSearch) \union P(WebSearch))
        /\ Cardinality(P(DocumentSearch) \union P(WebSearch))
                = b.active[DocumentSearch] + b.active[WebSearch]
    BY <1>1, <1>2, <1>3, <1>4, DisjointSizes
  <1>7. /\ IsFiniteSet((P(DocumentSearch) \union P(WebSearch)) \union P(u))
        /\ Cardinality((P(DocumentSearch) \union P(WebSearch)) \union P(u))
                = (b.active[DocumentSearch] + b.active[WebSearch]) + b.active[u]
    <2>1. (P(DocumentSearch) \union P(WebSearch)) \intersect P(u) = {}
      BY <1>2, <1>3, <1>4
    <2> QED
      BY <1>1, <1>2, <1>6, <2>1, DisjointSizes
  <1>8. /\ IsFiniteSet(((P(DocumentSearch) \union P(WebSearch)) \union P(u)) \union P(v))
        /\ Cardinality(((P(DocumentSearch) \union P(WebSearch)) \union P(u)) \union P(v))
                = ((b.active[DocumentSearch] + b.active[WebSearch]) + b.active[u]) + b.active[v]
    <2>1. ((P(DocumentSearch) \union P(WebSearch)) \union P(u)) \intersect P(v) = {}
      BY <1>2, <1>3, <1>4
    <2> QED
      BY <1>1, <1>2, <1>7, <2>1, DisjointSizes
  <1> QED
    BY <1>5, <1>8 DEF Count, Total

\* When all calls in flight are cancelled, every record is closed.
LEMMA FailAllBooks ==
    ASSUME NEW b, Books(b), NEW held, held = b.active
    PROVE  /\ Books(FailAll(b, held))
           /\ FailAll(b, held).calls = b.calls
           /\ FailAll(b, held).active = [t \in Tools |-> 0]
           /\ FailAll(b, held).tokens = b.tokens
  <1> DEFINE c == FailAll(b, held)
             r == b.trace
             R == Places(r, Having("reserved"))
             q == [i \in DOMAIN r |-> IF i \in R THEN [r[i] EXCEPT !.status = "failed"]
                                                 ELSE r[i]]
             O(t) == {i \in DOMAIN r : r[i] = [tool |-> t, status |-> "reserved"]}
             L == UNION {{i \in O(t) : Cardinality({j \in O(t) : j > i}) < held[t]} :
                         t \in Tools}
  <1>1. b \in Budgets /\ Balanced(b) /\ Accounted(b)
    BY DEF Books
  <1>2. /\ b.calls \in [Tools -> Nat] /\ b.active \in [Tools -> Nat]
        /\ r \in Seq(Records) /\ b.tokens \in Nat /\ b.completed \in Nat
        /\ b.failed \in Nat /\ b.timedOut \in Nat
    BY <1>1 DEF Budgets
  <1>3. \A i \in DOMAIN r : r[i] \in Records /\ i \in Nat
    BY <1>2, ElementOfSeq, LenProperties
  <1>4. /\ \A t \in Tools : /\ Count(r, Open(t)) = b.active[t]
                            /\ Count(r, ByTool(t)) = b.calls[t]
        /\ Count(r, Having("completed")) = b.completed
        /\ Count(r, Having("timeout")) = b.timedOut
        /\ Count(r, Having("failed")) + b.timedOut = b.failed
    BY <1>1, AccountedCounts
  <1>5. ASSUME NEW t \in Tools, NEW i \in O(t)
        PROVE  Cardinality({j \in O(t) : j > i}) < held[t]
    <2>1. O(t) = Places(r, Open(t))
      BY DEF Places, Open
    <2>2. IsFiniteSet(O(t)) /\ Cardinality(O(t)) = held[t]
      BY <1>2, <1>4, <2>1, PlacesFinite DEF Count
    <2> DEFINE S == {j \in O(t) : j > i}
    <2>3. S \in SUBSET O(t) /\ i \notin S
      BY <1>3
    <2>4. S # O(t)
      BY <2>3
    <2> HIDE DEF S, O
    <2>5. /\ IsFiniteSet(S) /\ Cardinality(S) <= Cardinality(O(t))
          /\ Cardinality(O(t)) # Cardinality(S)
      BY <2>2, <2>3, <2>4, FS_Subset
    <2>6. Cardinality(S) \in Nat /\ Cardinality(O(t)) \in Nat
      BY <2>2, <2>5, FS_CardinalityType
    <2>7. Cardinality(S) < held[t]
      BY <2>2, <2>5, <2>6
    <2> QED
      BY <2>7 DEF S
  <1>6. L = R
    <2>1. \A t \in Tools : {i \in O(t) : Cardinality({j \in O(t) : j > i}) < held[t]} = O(t)
      BY <1>5
    <2>2. \A i \in R : r[i].tool \in Tools /\ i \in O(r[i].tool)
      BY <1>3 DEF Places, Having, Records
    <2>3. \A t \in Tools : O(t) \subseteq R
      BY <1>3 DEF Places, Having
    <2> HIDE DEF O, R
    <2>4. \A i \in R : i \in L
      BY <2>1, <2>2
    <2>5. \A i \in L : i \in R
      BY <2>1, <2>3
    <2> HIDE DEF L
    <2> QED
      BY <2>4, <2>5
  <1>7. held = [t \in Tools |-> b.active[t]]
    BY <1>2
  <1>8. /\ c = [b EXCEPT !.active = [t \in Tools |-> @[t] - held[t]],
                         !.failed = @ + Total(held),
                         !.trace = [i \in DOMAIN @ |->
                                IF i \in L THEN [@[i] EXCEPT !.status = "failed"]
                                           ELSE @[i]]]
    BY DEF FailAll
  <1> HIDE DEF L
  <1>9. c = [b EXCEPT !.active = [t \in Tools |-> b.active[t] - held[t]],
                      !.failed = b.failed + Total(b.active), !.trace = q]
    BY <1>1, <1>6, <1>8 DEF Budgets
  <1>10. [t \in Tools |-> b.active[t] - held[t]] = [t \in Tools |-> 0]
    BY <1>2
  <1> HIDE DEF c, R, q, r
  <1>11. /\ c.calls = b.calls /\ c.tokens = b.tokens /\ c.completed = b.completed
         /\ c.timedOut = b.timedOut /\ c.failed = b.failed + Total(b.active)
         /\ c.active = [t \in Tools |-> 0] /\ c.trace = q
    BY <1>1, <1>9, <1>10 DEF Budgets, r
  <1>12. /\ DOMAIN q = DOMAIN r
         /\ \A i \in DOMAIN r :
                q[i] = IF i \in R THEN [tool |-> r[i].tool, status |-> "failed"] ELSE r[i]
    BY <1>3 DEF q, Records
  <1>13. \A i \in DOMAIN r : i \in R <=> r[i].status = "reserved"
    BY <1>3 DEF R, Places, Having
  <1>14. /\ q \in Seq(Records)
         /\ \A i \in DOMAIN r : q[i] \in Records
    <2>1. \A i \in DOMAIN r : q[i] \in Records
      BY <1>3, <1>12 DEF Records, Statuses
    <2>2. DOMAIN r = 1 .. Len(r) /\ Len(r) \in Nat
      BY <1>2, LenProperties
    <2> QED
      BY <1>12, <2>1, <2>2, SeqDef DEF q
  <1>15. Total(b.active) \in Nat
    BY <1>2, TotalType
  <1>16. c \in Budgets
    <2> DEFINE c1 == [b EXCEPT !.active = [t \in Tools |-> 0]]
               c2 == [c1 EXCEPT !.failed = b.failed + Total(b.active)]
    <2>1. c = [c2 EXCEPT !.trace = q]
      BY <1>1, <1>9, <1>10 DEF Budgets
    <2>2. [t \in Tools |-> 0] \in [Tools -> Nat] /\ b.failed + Total(b.active) \in Nat
      BY <1>2, <1>15
    <2>3. c1 \in Budgets
      BY <1>1, <2>2, FieldTyped
    <2> HIDE DEF c1
    <2>4. c2 \in Budgets
      BY <2>2, <2>3, FieldTyped
    <2> HIDE DEF c2
    <2> QED
      BY <1>14, <2>1, <2>4, FieldTyped
  <1>17. Balanced(c)
    <2>1. Total(c.active) = 0
      <3>1. /\ DocumentSearch \in Tools /\ WebSearch \in Tools
            /\ "search_docs_selection" \in Tools /\ "select_context" \in Tools
        BY DEF Tools
      <3> QED
        BY <1>11, <3>1 DEF Total
    <2>2. Total(b.calls) \in Nat
      BY <1>2, TotalType
    <2>3. Total(b.active) + b.completed + b.failed = Total(b.calls) /\ b.timedOut <= b.failed
      BY <1>1 DEF Balanced
    <2>4. Total(c.active) + c.completed + c.failed = Total(c.calls)
      BY <1>2, <1>11, <1>15, <2>1, <2>2, <2>3
    <2>5. c.timedOut <= c.failed
      BY <1>2, <1>11, <1>15, <2>3
    <2>6. c.calls[DocumentSearch] <= MaxDocs /\ c.calls[WebSearch] <= MaxWeb
          /\ c.tokens <= MaxContext
      BY <1>1, <1>11 DEF Balanced
    <2> QED
      BY <2>4, <2>5, <2>6 DEF Balanced
  <1>18. ASSUME NEW t \in Tools
         PROVE  Count(q, Open(t)) = c.active[t] /\ Count(q, ByTool(t)) = c.calls[t]
    <2>1. Places(q, Open(t)) = {}
      BY <1>3, <1>12, <1>13 DEF Places, Open
    <2>2. Places(q, ByTool(t)) = Places(r, ByTool(t))
      BY <1>3, <1>12, <1>14 DEF Places, ByTool
    <2>3. Count(q, Open(t)) = 0
      BY <2>1, FS_EmptySet DEF Count
    <2>4. Count(q, ByTool(t)) = b.calls[t]
      BY <1>4, <2>2 DEF Count
    <2> QED
      BY <1>11, <2>3, <2>4
  <1>19. \A s \in {"completed", "timeout"} : Count(q, Having(s)) = Count(r, Having(s))
    <2> TAKE s \in {"completed", "timeout"}
    <2>1. Places(q, Having(s)) = Places(r, Having(s))
      BY <1>3, <1>12, <1>13, <1>14 DEF Places, Having
    <2> QED
      BY <2>1 DEF Count
  <1>20. Count(q, Having("failed")) = Count(r, Having("failed")) + Total(b.active)
    <2>1. Places(q, Having("failed")) = Places(r, Having("failed")) \union R
      <3>1. \A i \in DOMAIN r :
                i \in Places(q, Having("failed")) <=> i \in Places(r, Having("failed")) \union R
        BY <1>3, <1>12, <1>13, <1>14 DEF Places, Having
      <3>2. /\ Places(q, Having("failed")) \subseteq DOMAIN r
            /\ Places(r, Having("failed")) \subseteq DOMAIN r /\ R \subseteq DOMAIN r
        BY <1>12 DEF Places, R
      <3> QED
        BY <3>1, <3>2
    <2>2. Places(r, Having("failed")) \intersect R = {}
      BY <1>3, <1>13 DEF Places, Having
    <2>3. IsFiniteSet(R) /\ Cardinality(R) = Total(b.active)
      BY <1>1, OpenTotal DEF R, Count, r
    <2>4. IsFiniteSet(Places(r, Having("failed")))
      BY <1>2, PlacesFinite
    <2> QED
      BY <2>1, <2>2, <2>3, <2>4, DisjointSizes DEF Count
  <1>21. Accounted(c)
    <2>1. Count(r, Having("failed")) \in Nat
      BY <1>2, PlacesFinite
    <2>2. /\ Count(c.trace, Having("completed")) = c.completed
          /\ Count(c.trace, Having("timeout")) = c.timedOut
          /\ Count(c.trace, Having("failed")) + c.timedOut = c.failed
      BY <1>2, <1>4, <1>11, <1>15, <1>19, <1>20, <2>1
    <2> QED
      BY <1>11, <1>16, <1>18, <2>2, AccountedCounts
  <1> QED
    BY <1>11, <1>16, <1>17, <1>21 DEF Books, c

\* Budgets whose books are kept never make a snapshot raise.
LEMMA BooksSound == ASSUME NEW b, Books(b) PROVE Sound(b) /\ Accounted(b)
  <1>1. b \in Budgets /\ Balanced(b) /\ Accounted(b)
    BY DEF Books
  <1>2. /\ Total(b.active) \in Nat /\ Total(b.calls) \in Nat
        /\ b.completed \in Nat /\ b.failed \in Nat
    BY <1>1, TotalType DEF Budgets
  <1> QED
    BY <1>1, <1>2 DEF Balanced, Sound

(***************************************************************************)
(* ReactPipeline                                                           *)
(***************************************************************************)

\* The texts of a set of evidence.
Texts == {f \in [Evidence -> Nat] : \A e \in Evidence : f[e] = 0 \/ f[e] \in Sizes[e]}

Searches == {"search_docs", "search_web"}
InFlight == [tool : Searches \union {"select_context"}, ids : SUBSET Evidence,
             step : {"ready", "searching", "filtering", "done"}]

\* The fields of _RunContext.
Fields == {"webOnly", "hasWeb", "candidates", "selected", "charged", "searchedWeb",
           "reason", "turns", "denials", "finalTurn", "force", "revised"}

ContextTyped ==
    /\ DOMAIN context = Fields
    /\ context.candidates \in Texts /\ context.selected \in Texts
    /\ context.charged \subseteq Evidence
    /\ context.turns \in 0 .. MaxTurns
    /\ context.force \in Searches \union {None}

RunTyped ==
    /\ required \in Searches \union {None}
    /\ entry \in Texts /\ ledger.items \in Texts
    /\ batch \in Seq(InFlight)
    /\ pc \in {"orchestrate", "before_model", "model", "tools", "collect", "synthesize", "over"}
    /\ (pc = "tools") <=> (batch # <<>>)
    /\ outcome \in {None, "grounded", "internal", "failed", "cancelled"}
    /\ (outcome # None) <=> (pc = "over")

Typed == ContextTyped /\ RunTyped

-----------------------------------------------------------------------------
(* Evidence.                                                               *)

\* What a search returns are texts of the evidence searched for.
LEMMA ResultsTyped ==
    ASSUME NEW ids \in SUBSET Evidence, NEW r \in Results(ids)
    PROVE  r \in Texts /\ Found(r) \subseteq ids
  <1>1. PICK S \in SUBSET ids :
            r \in {[e \in Evidence |-> IF e \in S THEN s[e] ELSE 0] :
                    s \in {t \in [S -> UNION {Sizes[e] : e \in S}] :
                                \A e \in S : t[e] \in Sizes[e]}}
    BY DEF Results
  <1>2. PICK s : /\ \A e \in S : s[e] \in Sizes[e]
                 /\ r = [e \in Evidence |-> IF e \in S THEN s[e] ELSE 0]
    BY <1>1
  <1>3. \A e \in S : s[e] \in Nat
    BY <1>2, SizesAssumption DEF Evidence
  <1> QED
    BY <1>2, <1>3 DEF Texts, Found

LEMMA UpdatedTyped ==
    ASSUME NEW f \in Texts, NEW r \in Texts
    PROVE  /\ Updated(f, r) \in Texts
           /\ Found(Updated(f, r)) = Found(f) \union Found(r)
  <1>1. \A e \in Evidence : f[e] \in Nat /\ r[e] \in Nat
    BY DEF Texts
  <1>2. Updated(f, r) \in Texts
    BY <1>1 DEF Texts, Updated
  <1> QED
    BY <1>1, <1>2 DEF Found, Updated

\* A part of some texts.
LEMMA PartTyped ==
    ASSUME NEW f \in Texts, NEW S
    PROVE  /\ [e \in Evidence |-> IF e \in S THEN f[e] ELSE 0] \in Texts
           /\ Found([e \in Evidence |-> IF e \in S THEN f[e] ELSE 0]) = Found(f) \intersect S
  BY DEF Texts, Found

LEMMA NothingTyped == Nothing \in Texts /\ Found(Nothing) = {}
  BY DEF Nothing, Texts, Found

\* What a recovery chooses from, and what it may choose.
LEMMA PoolTyped ==
    ASSUME Typed
    PROVE  /\ Pool \in Texts
           /\ Found(Pool) \subseteq Found(context.candidates) \union Found(context.selected)
  <1>1. CASE ~Recovered
    BY <1>1 DEF Pool, Typed, ContextTyped
  <1>2. CASE Recovered
    <2>1. PICK ids :
            Pool = [e \in Evidence |->
                        IF context.selected[e] > 0 THEN context.selected[e]
                        ELSE [x \in Evidence |->
                                IF x \in ids THEN context.candidates[x] ELSE 0][e]]
      BY <1>2 DEF Pool
    <2>2. /\ context.candidates \in Texts /\ context.selected \in Texts
      BY DEF Typed, ContextTyped
    <2> QED
      BY <2>1, <2>2 DEF Texts, Found
  <1> QED
    BY <1>1, <1>2

LEMMA RecoverableTyped ==
    ASSUME Typed, NEW s \in Recoverable
    PROVE  /\ s \in Texts /\ Fits(s) /\ Affordable(budget, Uncharged(s))
           /\ Found(s) \subseteq Found(context.candidates) \union Found(context.selected)
  <1> DEFINE Take(S) == [e \in Evidence |-> IF e \in S THEN Pool[e] ELSE 0]
  <1>1. PICK S \in SUBSET Found(Pool) :
            s = Take(S) /\ Fits(Take(S)) /\ Affordable(budget, Uncharged(Take(S)))
    BY DEF Recoverable
  <1>2. Take(S) \in Texts /\ Found(Take(S)) = Found(Pool) \intersect S
    BY PoolTyped, PartTyped
  <1> HIDE DEF Take
  <1> QED
    BY <1>1, <1>2, PoolTyped

-----------------------------------------------------------------------------
(* Calls.                                                                  *)

CallSteps == {"ready", "searching", "filtering", "done"}

\* A call that goes on leaves the others where they are.
LEMMA GotoTyped ==
    ASSUME NEW i \in DOMAIN batch, NEW step \in CallSteps, batch \in Seq(InFlight), Goto(i, step)
    PROVE  /\ batch' \in Seq(InFlight) /\ batch' # <<>> /\ batch # <<>>
           /\ DOMAIN batch' = DOMAIN batch
           /\ batch'[i].step = step /\ batch'[i].tool = batch[i].tool
           /\ \A j \in DOMAIN batch : j # i => batch'[j] = batch[j]
  <1>1. batch[i] \in InFlight /\ i \in 1 .. Len(batch) /\ Len(batch) \in Nat
    BY ElementOfSeq, LenProperties
  <1>2. batch' = [batch EXCEPT ![i] = [batch[i] EXCEPT !.step = step]]
    BY DEF Goto
  <1>3. [batch[i] EXCEPT !.step = step] \in InFlight
    BY <1>1 DEF InFlight, CallSteps
  <1>4. /\ [batch[i] EXCEPT !.step = step].step = step
        /\ [batch[i] EXCEPT !.step = step].tool = batch[i].tool
    BY <1>1 DEF InFlight
  <1>5. batch' \in Seq(InFlight) /\ Len(batch') = Len(batch)
    BY <1>1, <1>2, <1>3, ExceptSeq
  <1>6. batch' # <<>> /\ batch # <<>>
    BY <1>1, <1>5, EmptySeq
  <1> QED
    BY <1>1, <1>2, <1>4, <1>5, <1>6, LenProperties

\* The calls of a new turn.
LEMMA TurnTyped ==
    ASSUME NEW n \in Nat \ {0}, NEW turn \in [1 .. n -> ToolCalls]
    PROVE  /\ [k \in 1 .. n |-> Start(turn[k])] \in Seq(InFlight)
           /\ [k \in 1 .. n |-> Start(turn[k])] # <<>>
           /\ \A k \in 1 .. n : Start(turn[k]).step = "ready"
  <1> DEFINE q == [k \in 1 .. n |-> Start(turn[k])]
  <1>1. \A c \in ToolCalls : Start(c) \in InFlight /\ Start(c).step = "ready"
    BY DEF ToolCalls, Start, InFlight, Searches
  <1>2. q \in Seq(InFlight) /\ Len(q) = n
    BY <1>1, SeqDef, LenProperties
  <1>3. q # <<>>
    BY <1>2, EmptySeq
  <1> QED
    BY <1>1, <1>2, <1>3

-----------------------------------------------------------------------------
(* Types.                                                                  *)

LEMMA TypedInit == ASSUME Init PROVE Typed
  <1>1. ContextTyped
    BY NothingTyped, BoundsAssumption DEF Init, ContextTyped, Fields, None
  <1>2. RunTyped
    <2>1. <<>> \in Seq(InFlight)
      BY EmptySeq
    <2> QED
      BY <2>1, NothingTyped DEF Init, RunTyped
  <1> QED
    BY <1>1, <1>2 DEF Typed

\* The turns of the model, and what they ask for.
LEMMA TurnsTyped ==
    ASSUME Typed,
           Orchestrate \/ ForceSearch \/ StopTurns \/ BeforeModel \/ ModelFinishes
            \/ ModelCalls \/ ToolsReturn
    PROVE  Typed'
  <1>1. CASE Orchestrate
    BY <1>1 DEF Orchestrate, Typed, ContextTyped, RunTyped, Fields, Searches
  <1>2. CASE ForceSearch
    <2> DEFINE c == Start([tool |-> context.force, ids |-> {}])
    <2>1. ContextTyped'
      BY <1>2 DEF ForceSearch, Typed, ContextTyped, Fields
    <2>2. c \in InFlight
      BY <1>2 DEF ForceSearch, Typed, ContextTyped, InFlight, Start
    <2> HIDE DEF c
    <2>3. <<c>> \in Seq(InFlight) /\ <<c>> # <<>>
      BY <2>2
    <2>4. batch' = <<c>>
      BY <1>2 DEF ForceSearch, c
    <2> QED
      BY <1>2, <2>1, <2>3, <2>4 DEF ForceSearch, Typed, RunTyped
  <1>3. CASE StopTurns
    <2>1. ContextTyped'
      BY <1>3 DEF StopTurns, Typed, ContextTyped, Fields
    <2> QED
      BY <1>3, <2>1 DEF StopTurns, Typed, RunTyped
  <1>4. CASE BeforeModel
    <2>1. context.turns < MaxTurns
      BY <1>4, BoundsAssumption DEF BeforeModel, Spent, Typed, ContextTyped
    <2>2. ContextTyped'
      BY <1>4, <2>1, BoundsAssumption DEF BeforeModel, Typed, ContextTyped, Fields
    <2> QED
      BY <1>4, <2>2 DEF BeforeModel, Typed, RunTyped
  <1>5. CASE ModelFinishes
    BY <1>5 DEF ModelFinishes, Typed, ContextTyped, RunTyped
  <1>6. CASE ModelCalls
    <2>0. PICK n \in 1 .. MaxBatch :
            \E turn \in [1 .. n -> ToolCalls] : batch' = [i \in 1 .. n |-> Start(turn[i])]
      BY <1>6 DEF ModelCalls
    <2>1. PICK turn \in [1 .. n -> ToolCalls] : batch' = [i \in 1 .. n |-> Start(turn[i])]
      BY <2>0
    <2>2. n \in Nat \ {0}
      BY BoundsAssumption
    <2>3. batch' \in Seq(InFlight) /\ batch' # <<>>
      BY <2>1, <2>2, TurnTyped
    <2> QED
      BY <1>6, <2>3 DEF ModelCalls, Typed, ContextTyped, RunTyped
  <1>7. CASE ToolsReturn
    <2>1. <<>> \in Seq(InFlight)
      BY EmptySeq
    <2> QED
      BY <1>7, <2>1 DEF ToolsReturn, Typed, ContextTyped, RunTyped
  <1> QED
    BY <1>1, <1>2, <1>3, <1>4, <1>5, <1>6, <1>7

\* A call that raises ends the turn.
LEMMA RaiseTyped ==
    ASSUME Typed, NEW i, NEW b, NEW reason, Raise(i, b, reason), pc = "tools"
    PROVE  Typed'
  <1>1. <<>> \in Seq(InFlight)
    BY EmptySeq
  <1>2. CASE reason = None
    <2>1. ContextTyped'
      BY <1>2 DEF Raise, Typed, ContextTyped
    <2>2. batch' = <<>> /\ pc' = "over" /\ outcome' = "failed"
      BY <1>2 DEF Raise
    <2>3. UNCHANGED <<entry, required, ledger>>
      BY DEF Raise
    <2> QED
      BY <1>1, <2>1, <2>2, <2>3 DEF Typed, RunTyped, None
  <1>3. CASE reason # None
    <2>1. ContextTyped'
      BY <1>3 DEF Raise, Typed, ContextTyped, Fields
    <2> QED
      BY <1>1, <1>3, <2>1 DEF Raise, Typed, RunTyped
  <1> QED
    BY <1>2, <1>3

\* A call that goes on.
LEMMA GoesTyped ==
    ASSUME Typed, NEW i \in DOMAIN batch, NEW step \in CallSteps, Goto(i, step), ContextTyped',
           UNCHANGED <<pc, entry, required, ledger, outcome>>
    PROVE  Typed'
  <1>1. batch' \in Seq(InFlight) /\ batch' # <<>> /\ batch # <<>>
    BY GotoTyped DEF Typed, RunTyped
  <1> QED
    BY <1>1 DEF Typed, RunTyped

\* The calls of a turn.
LEMMA CallsTyped ==
    ASSUME Typed, NEW i \in DOMAIN batch, Call(i)
    PROVE  Typed'
  <1>0. "ready" \in CallSteps /\ "searching" \in CallSteps /\ "filtering" \in CallSteps /\ "done" \in CallSteps
    BY DEF CallSteps
  <1>1. ASSUME NEW reason, Deny(i, reason)
        PROVE  Typed'
    <2>1. ContextTyped'
      BY <1>1 DEF Deny, Typed, ContextTyped, Fields
    <2> QED
      BY <1>0, <1>1, <2>1, GoesTyped DEF Deny
  <1>2. ASSUME NEW tool, Admit(i, tool)
        PROVE  Typed'
    <2>1. CASE CanReserve(budget, tool)
      <3>1. ContextTyped'
        BY <1>2, <2>1 DEF Admit, Typed, ContextTyped
      <3> QED
        BY <1>0, <1>2, <2>1, <3>1, GoesTyped DEF Admit
    <2>2. CASE ~CanReserve(budget, tool)
      BY <1>1, <1>2, <2>2 DEF Admit
    <2> QED
      BY <2>1, <2>2
  <1>3. CASE SearchDocs(i)
    BY <1>1, <1>2, <1>3 DEF SearchDocs
  <1>4. CASE SearchWeb(i)
    BY <1>1, <1>2, <1>4, RaiseTyped DEF SearchWeb, At
  <1>5. CASE DocsFound(i)
    <2>1. PICK r \in Results(DocIds) :
            \/ /\ context' = [[context EXCEPT !.candidates = Updated(@, r)] EXCEPT !.denials = 0]
               /\ Goto(i, "done")
               /\ UNCHANGED <<pc, entry, required, ledger, outcome>>
            \/ /\ context' = [context EXCEPT !.candidates = Updated(@, r)]
               /\ Goto(i, "filtering")
               /\ UNCHANGED <<pc, entry, required, ledger, outcome>>
            \/ /\ batch' = <<>>
               /\ pc' = "collect"
               /\ \E x : context' = [[context EXCEPT !.candidates = Updated(@, r)] EXCEPT !.reason = x]
               /\ UNCHANGED <<entry, required, ledger, outcome>>
      BY <1>5 DEF DocsFound
    <2>2. r \in Texts
      BY ResultsTyped DEF Evidence
    <2>3. Updated(context.candidates, r) \in Texts
      BY <2>2, UpdatedTyped DEF Typed, ContextTyped
    <2> DEFINE u == Updated(context.candidates, r)
    <2> HIDE DEF u
    <2>4. ContextTyped'
      <3>1. \/ context' = [[context EXCEPT !.candidates = u] EXCEPT !.denials = 0]
            \/ context' = [context EXCEPT !.candidates = u]
            \/ \E x : context' = [[context EXCEPT !.candidates = u] EXCEPT !.reason = x]
        BY <2>1 DEF u
      <3>2. u \in Texts
        BY <2>3 DEF u
      <3> QED
        BY <3>1, <3>2 DEF Typed, ContextTyped, Fields
    <2>5. CASE Goto(i, "done") /\ UNCHANGED <<pc, entry, required, ledger, outcome>>
      BY <1>0, <2>4, <2>5, GoesTyped
    <2>6. CASE Goto(i, "filtering") /\ UNCHANGED <<pc, entry, required, ledger, outcome>>
      BY <1>0, <2>4, <2>6, GoesTyped
    <2>7. CASE batch' = <<>> /\ pc' = "collect" /\ UNCHANGED <<entry, required, ledger, outcome>>
      <3>1. <<>> \in Seq(InFlight)
        BY EmptySeq
      <3>2. pc = "tools"
        BY <1>5 DEF DocsFound, At
      <3> QED
        BY <2>4, <2>7, <3>1, <3>2 DEF Typed, RunTyped
    <2> QED
      BY <2>1, <2>5, <2>6, <2>7
  <1>6. CASE DocsFiltered(i)
    <2>1. ContextTyped'
      BY <1>6 DEF DocsFiltered, Typed, ContextTyped, Fields
    <2> QED
      BY <1>0, <1>6, <2>1, GoesTyped DEF DocsFiltered
  <1>7. CASE WebFound(i)
    <2>1. PICK r \in Results(WebIds) :
            context' = [context EXCEPT !.candidates = Updated(@, r), !.searchedWeb = TRUE,
                                       !.denials = 0]
      BY <1>7 DEF WebFound
    <2>2. r \in Texts
      BY ResultsTyped DEF Evidence
    <2> DEFINE u == Updated(context.candidates, r)
    <2>3. u \in Texts
      BY <2>2, UpdatedTyped DEF Typed, ContextTyped
    <2>4. context' = [context EXCEPT !.candidates = u, !.searchedWeb = TRUE, !.denials = 0]
      BY <2>1
    <2> HIDE DEF u
    <2>5. ContextTyped'
      BY <2>3, <2>4 DEF Typed, ContextTyped, Fields
    <2> QED
      BY <1>0, <1>7, <2>5, GoesTyped DEF WebFound
  <1>8. CASE ServiceFails(i)
    BY <1>8, RaiseTyped DEF ServiceFails
  <1>9. CASE SelectContext(i)
    <2> DEFINE ids == batch[i].ids
               selected == [e \in Evidence |-> IF e \in ids THEN context.candidates[e] ELSE 0]
    <2>1. \/ \E b, reason : Raise(i, b, reason)
          \/ /\ context' = [context EXCEPT !.selected = selected, !.charged = @ \union ids,
                                           !.revised = TRUE, !.denials = 0]
             /\ Goto(i, "done")
             /\ UNCHANGED <<pc, entry, required, ledger, outcome>>
      BY <1>9 DEF SelectContext
    <2>2. pc = "tools"
      BY <1>9 DEF SelectContext, At
    <2>3. CASE \E b, reason : Raise(i, b, reason)
      BY <2>2, <2>3, RaiseTyped
    <2>4. CASE /\ context' = [context EXCEPT !.selected = selected, !.charged = @ \union ids,
                                             !.revised = TRUE, !.denials = 0]
               /\ Goto(i, "done")
               /\ UNCHANGED <<pc, entry, required, ledger, outcome>>
      <3>1. selected \in Texts
        BY PartTyped DEF Typed, ContextTyped
      <3>2. ids \subseteq Evidence
        <4>1. batch[i] \in InFlight
          BY ElementOfSeq, LenProperties DEF Typed, RunTyped
        <4> QED
          BY <4>1 DEF InFlight
      <3> HIDE DEF selected, ids
      <3>3. ContextTyped'
        BY <2>4, <3>1, <3>2 DEF Typed, ContextTyped, Fields
      <3> QED
        BY <1>0, <2>4, <3>3, GoesTyped
    <2> QED
      BY <2>1, <2>3, <2>4
  <1> QED
    BY <1>3, <1>4, <1>5, <1>6, <1>7, <1>8, <1>9 DEF Call

\* From the last turn to the answer.
LEMMA EndTyped ==
    ASSUME Typed, Collect \/ Synthesize \/ NodeFails \/ Cancel
    PROVE  Typed'
  <1>1. CASE Collect
    <2>1. PICK s \in IF Recovers THEN Recoverable ELSE {context.selected} :
            /\ context' = IF Recovers
                          THEN [context EXCEPT !.selected = s, !.charged = @ \union Found(s)]
                          ELSE context
            /\ \/ pc' = "over" /\ outcome' = "failed" /\ UNCHANGED ledger
               \/ /\ pc' = "synthesize"
                  /\ ledger' = [items |-> s, exhausted |-> context.reason]
                  /\ UNCHANGED outcome
      BY <1>1 DEF Collect
    <2>2. s \in Texts
      BY <2>1, RecoverableTyped DEF Typed, ContextTyped
    <2>3. Found(s) \subseteq Evidence
      BY DEF Found
    <2>4. ContextTyped'
      BY <2>1, <2>2, <2>3 DEF Typed, ContextTyped, Fields
    <2>5. pc = "collect" /\ required' = None /\ UNCHANGED <<batch, entry>>
      BY <1>1 DEF Collect
    <2>6. ledger'.items \in Texts
      BY <2>1, <2>2 DEF Typed, RunTyped
    <2> QED
      BY <2>1, <2>4, <2>5, <2>6 DEF Typed, RunTyped, None
  <1>2. CASE Synthesize
    BY <1>2 DEF Synthesize, Missing, Typed, ContextTyped, RunTyped, Searches, None
  <1>3. CASE NodeFails
    BY <1>3 DEF NodeFails, Typed, ContextTyped, RunTyped, None
  <1>4. CASE Cancel
    <2>1. <<>> \in Seq(InFlight)
      BY EmptySeq
    <2>2. ContextTyped'
      BY <1>4 DEF Cancel, Typed, ContextTyped
    <2>3. /\ batch' = <<>> /\ pc' = "over" /\ outcome' = "cancelled"
          /\ UNCHANGED <<entry, required, ledger>>
      BY <1>4 DEF Cancel
    <2> QED
      BY <2>1, <2>2, <2>3 DEF Typed, RunTyped, None
  <1> QED
    BY <1>1, <1>2, <1>3, <1>4

LEMMA TypedStep == ASSUME Typed, [Next]_vars PROVE Typed'
  <1>1. CASE UNCHANGED vars
    BY <1>1 DEF vars, Typed, ContextTyped, RunTyped
  <1> QED
    BY <1>1, TurnsTyped, CallsTyped, EndTyped DEF Next, Work

-----------------------------------------------------------------------------
(* The size of some texts.                                                 *)

Lengths == [Evidence -> Nat]

LEMMA SizeType ==
    ASSUME NEW f \in Lengths
    PROVE  IsFiniteSet(Tokens(f)) /\ Size(f) \in Nat
  <1> DEFINE T(e) == {e} \X (1 .. f[e])
             Ts == {T(e) : e \in Evidence}
             map == [e \in Evidence |-> T(e)]
  <1>1. IsFiniteSet(Evidence)
    BY EvidenceAssumption DEF Evidence
  <1>2. map \in Surjection(Evidence, Ts)
    BY DEF Surjection
  <1>3. IsFiniteSet(Ts)
    BY <1>1, <1>2, FS_Surjection
  <1>4. \A e \in Evidence : IsFiniteSet(T(e))
    <2> TAKE e \in Evidence
    <2>1. f[e] \in Nat
      BY DEF Lengths
    <2>2. IsFiniteSet(1 .. f[e])
      BY <2>1, FS_Interval
    <2>3. IsFiniteSet({e})
      BY FS_Singleton
    <2> QED
      BY <2>2, <2>3, FS_Product
  <1>5. \A S \in Ts : IsFiniteSet(S)
    BY <1>4
  <1>6. IsFiniteSet(UNION Ts)
    BY <1>3, <1>5, FS_UNION
  <1>7. IsFiniteSet(Tokens(f))
    BY <1>6 DEF Tokens
  <1> QED
    BY <1>7, FS_CardinalityType DEF Size

LEMMA TokensOf ==
    ASSUME NEW f, NEW x
    PROVE  x \in Tokens(f) <=> \E e \in Evidence : \E k \in 1 .. f[e] : x = <<e, k>>
  BY DEF Tokens

\* Texts no longer than others have no larger size, and neither have two that share
\* no evidence together.
LEMMA SizeGrows ==
    ASSUME NEW f \in Lengths, NEW g \in Lengths, NEW h \in Lengths,
           \A e \in Evidence : f[e] <= h[e] /\ g[e] <= h[e] /\ (f[e] = 0 \/ g[e] = 0)
    PROVE  Size(f) + Size(g) <= Size(h)
  <1>1. Tokens(f) \intersect Tokens(g) = {}
    <2>1. \A e \in Evidence : (1 .. f[e]) = {} \/ (1 .. g[e]) = {}
      BY DEF Lengths
    <2> QED
      BY <2>1, TokensOf
  <1>2. Tokens(f) \union Tokens(g) \in SUBSET Tokens(h)
    <2>1. \A e \in Evidence : 1 .. f[e] \subseteq 1 .. h[e] /\ 1 .. g[e] \subseteq 1 .. h[e]
      BY DEF Lengths
    <2>2. \A x \in Tokens(f) : x \in Tokens(h)
      BY <2>1, TokensOf
    <2>3. \A x \in Tokens(g) : x \in Tokens(h)
      BY <2>1, TokensOf
    <2> QED
      BY <2>2, <2>3
  <1>3. Cardinality(Tokens(f) \union Tokens(g)) = Size(f) + Size(g)
    BY <1>1, SizeType, DisjointSizes DEF Size
  <1> QED
    BY <1>2, <1>3, SizeType, FS_Subset DEF Size

LEMMA SizeNothing == Size(Nothing) = 0
  <1>1. Tokens(Nothing) = {}
    BY DEF Tokens, Nothing
  <1> QED
    BY <1>1, FS_EmptySet DEF Size

LEMMA UnchargedType ==
    ASSUME NEW f \in Texts PROVE Uncharged(f) \in Nat /\ Size(f) \in Nat
  <1>1. f \in Lengths /\ [e \in Evidence |-> IF e \in context.charged THEN 0 ELSE f[e]] \in Lengths
    BY DEF Texts, Lengths
  <1> QED
    BY <1>1, SizeType DEF Uncharged

-----------------------------------------------------------------------------
(* The calls in flight.                                                    *)

\* How many calls of q hold a reservation of t.
Held(q, t) == Cardinality({i \in DOMAIN q : Holds(q[i]) = t})

\* The books are kept, and the reservations of each tool are those its calls hold.
Accounts ==
    /\ Books(budget)
    /\ \A t \in Tools : budget.active[t] = Held(batch, t)

LEMMA HeldWithout ==
    ASSUME NEW q \in Seq(InFlight), NEW i \in DOMAIN q, NEW t
    PROVE  /\ IsFiniteSet({j \in DOMAIN q \ {i} : Holds(q[j]) = t})
           /\ Held(q, t) \in Nat
           /\ Cardinality({j \in DOMAIN q \ {i} : Holds(q[j]) = t})
                = Held(q, t) - (IF Holds(q[i]) = t THEN 1 ELSE 0)
  <1> DEFINE H == {j \in DOMAIN q : Holds(q[j]) = t}
  <1>1. DOMAIN q = 1 .. Len(q) /\ Len(q) \in Nat
    BY LenProperties
  <1>2. IsFiniteSet(DOMAIN q)
    BY <1>1, FS_Interval
  <1>3. IsFiniteSet(H)
    BY <1>2, FS_Subset
  <1>4. {j \in DOMAIN q \ {i} : Holds(q[j]) = t} = H \ {i}
    OBVIOUS
  <1>5. i \in H <=> Holds(q[i]) = t
    OBVIOUS
  <1>6. Held(q, t) = Cardinality(H)
    BY DEF Held
  <1> HIDE DEF H
  <1>7. Cardinality(H) \in Nat
    BY <1>3, FS_CardinalityType
  <1>8. /\ IsFiniteSet(H \ {i})
        /\ Cardinality(H \ {i}) = IF i \in H THEN Cardinality(H) - 1 ELSE Cardinality(H)
    BY <1>3, FS_RemoveElement
  <1>9. Cardinality(H \ {i}) = Cardinality(H) - (IF Holds(q[i]) = t THEN 1 ELSE 0)
    <2>1. CASE i \in H
      BY <1>5, <1>7, <1>8, <2>1
    <2>2. CASE i \notin H
      BY <1>5, <1>7, <1>8, <2>2
    <2> QED
      BY <2>1, <2>2
  <1> QED
    BY <1>4, <1>6, <1>7, <1>8, <1>9

\* A call that goes on counts where its new step is.
LEMMA HeldReplace ==
    ASSUME NEW q \in Seq(InFlight), NEW i \in DOMAIN q, NEW x, NEW t
    PROVE  Held([q EXCEPT ![i] = x], t)
            = Held(q, t) - (IF Holds(q[i]) = t THEN 1 ELSE 0) + (IF Holds(x) = t THEN 1 ELSE 0)
  <1> DEFINE r == [q EXCEPT ![i] = x]
             rest == {j \in DOMAIN q \ {i} : Holds(q[j]) = t}
  <1>1. DOMAIN r = DOMAIN q /\ r[i] = x /\ \A j \in DOMAIN q : j # i => r[j] = q[j]
    OBVIOUS
  <1> HIDE DEF r
  <1>2. /\ IsFiniteSet(rest) /\ Held(q, t) \in Nat
        /\ Cardinality(rest) = Held(q, t) - (IF Holds(q[i]) = t THEN 1 ELSE 0)
    BY HeldWithout
  <1>3. i \notin rest /\ Cardinality(rest) \in Nat
    BY <1>2, FS_CardinalityType
  <1>4. CASE Holds(x) = t
    <2>1. {j \in DOMAIN r : Holds(r[j]) = t} = rest \union {i}
      BY <1>1, <1>4
    <2> HIDE DEF rest
    <2>2. Held(r, t) = Cardinality(rest) + 1
      BY <1>2, <1>3, <2>1, FS_AddElement DEF Held
    <2> QED
      BY <1>2, <1>4, <2>2 DEF r
  <1>5. CASE Holds(x) # t
    <2>1. {j \in DOMAIN r : Holds(r[j]) = t} = rest
      BY <1>1, <1>5
    <2> HIDE DEF rest
    <2>2. Held(r, t) = Cardinality(rest)
      BY <2>1 DEF Held
    <2> QED
      BY <1>2, <1>3, <1>5, <2>2 DEF r
  <1> QED
    BY <1>4, <1>5

LEMMA HeldNone ==
    ASSUME NEW q, \A i \in DOMAIN q : Holds(q[i]) = None, NEW t \in Tools
    PROVE  Held(q, t) = 0
  <1>1. None # t
    BY DEF Tools, None, DocumentSearch, WebSearch
  <1>2. {i \in DOMAIN q : Holds(q[i]) = t} = {}
    BY <1>1
  <1> QED
    BY <1>2, FS_EmptySet DEF Held

\* A call that goes on, with a budget that follows it.
LEMMA AccountsGo ==
    ASSUME Typed, Accounts, NEW i \in DOMAIN batch, NEW step \in CallSteps, Goto(i, step),
           NEW b, Books(b), budget' = b,
           \A t \in Tools : b.active[t] = budget.active[t]
                - (IF Holds(batch[i]) = t THEN 1 ELSE 0)
                + (IF Holds([batch[i] EXCEPT !.step = step]) = t THEN 1 ELSE 0)
    PROVE  Accounts'
  <1>1. batch \in Seq(InFlight)
    BY DEF Typed, RunTyped
  <1>2. PICK q : q = [batch EXCEPT ![i] = [batch[i] EXCEPT !.step = step]]
    OBVIOUS
  <1>3. batch' = q
    BY <1>2 DEF Goto
  <1>4. ASSUME NEW t \in Tools
        PROVE  b.active[t] = Held(q, t)
    <2> DEFINE x == [batch[i] EXCEPT !.step = step]
    <2>1. budget.active[t] = Held(batch, t)
      BY DEF Accounts
    <2> HIDE DEF x
    <2>2. Held([batch EXCEPT ![i] = x], t) = Held(batch, t)
            - (IF Holds(batch[i]) = t THEN 1 ELSE 0) + (IF Holds(x) = t THEN 1 ELSE 0)
      BY <1>1, HeldReplace
    <2>3. b.active[t] = budget.active[t]
            - (IF Holds(batch[i]) = t THEN 1 ELSE 0) + (IF Holds(x) = t THEN 1 ELSE 0)
      BY DEF x
    <2>4. q = [batch EXCEPT ![i] = x]
      BY <1>2 DEF x
    <2> QED
      BY <2>1, <2>2, <2>3, <2>4
  <1> QED
    BY <1>3, <1>4 DEF Accounts

\* What a call holds in each of its steps.
LEMMA HoldsOf ==
    ASSUME NEW c \in InFlight, NEW step \in CallSteps
    PROVE  /\ Holds([c EXCEPT !.step = step]) =
                CASE step = "searching" -> SearchOf(c.tool)
                  [] step = "filtering" -> "search_docs_selection"
                  [] OTHER              -> None
           /\ Holds(c) \in Tools \union {None} /\ None \notin Tools
           /\ c.step \in {"ready", "done"} => Holds(c) = None
           /\ SearchOf(c.tool) \in Tools
  <1>1. [c EXCEPT !.step = step].step = step /\ [c EXCEPT !.step = step].tool = c.tool
    BY DEF InFlight
  <1>2. SearchOf(c.tool) \in Tools
    BY DEF SearchOf, Tools
  <1>3. None \notin Tools
    BY DEF Tools, None, DocumentSearch, WebSearch
  <1>4. "search_docs_selection" \in Tools
    BY DEF Tools
  <1> QED
    BY <1>1, <1>2, <1>3, <1>4 DEF Holds

\* The budget of a call that starts, and of one that ends, tool by tool.
LEMMA Starts ==
    ASSUME NEW b, Books(b), NEW t \in Tools, CanReserve(b, t)
    PROVE  /\ Books(Reserve(b, t))
           /\ Reserve(b, t).tokens = b.tokens
           /\ \A u \in Tools : /\ Reserve(b, t).active[u] = b.active[u] + (IF u = t THEN 1 ELSE 0)
                               /\ Reserve(b, t).calls[u] = b.calls[u] + (IF u = t THEN 1 ELSE 0)
                               /\ b.active[u] \in Nat /\ b.calls[u] \in Nat
  <1>1. b.active \in [Tools -> Nat] /\ b.calls \in [Tools -> Nat]
    BY DEF Books, Budgets
  <1>2. /\ Books(Reserve(b, t)) /\ Reserve(b, t).tokens = b.tokens
        /\ Reserve(b, t).calls = [b.calls EXCEPT ![t] = @ + 1]
        /\ Reserve(b, t).active = [b.active EXCEPT ![t] = @ + 1]
    BY ReserveBooks
  <1>3. \A u \in Tools : /\ [b.active EXCEPT ![t] = @ + 1][u] = b.active[u] + (IF u = t THEN 1 ELSE 0)
                         /\ [b.calls EXCEPT ![t] = @ + 1][u] = b.calls[u] + (IF u = t THEN 1 ELSE 0)
                         /\ b.active[u] \in Nat /\ b.calls[u] \in Nat
    BY <1>1
  <1> QED
    BY <1>2, <1>3

LEMMA Ends ==
    ASSUME NEW b, Books(b), NEW t \in Tools, b.active[t] # 0,
           NEW s \in {"completed", "failed", "timeout"}
    PROVE  /\ Books(Close(b, t, s))
           /\ Close(b, t, s).tokens = b.tokens /\ Close(b, t, s).calls = b.calls
           /\ \A u \in Tools : /\ Close(b, t, s).active[u] = b.active[u] - (IF u = t THEN 1 ELSE 0)
                               /\ b.active[u] \in Nat
  <1>1. b.active \in [Tools -> Nat]
    BY DEF Books, Budgets
  <1>2. /\ Books(Close(b, t, s)) /\ Close(b, t, s).tokens = b.tokens
        /\ Close(b, t, s).calls = b.calls
        /\ Close(b, t, s).active = [b.active EXCEPT ![t] = @ - 1]
    BY CloseBooks
  <1>3. \A u \in Tools : /\ [b.active EXCEPT ![t] = @ - 1][u] = b.active[u] - (IF u = t THEN 1 ELSE 0)
                         /\ b.active[u] \in Nat
    BY <1>1
  <1> QED
    BY <1>2, <1>3

\* A call that holds a reservation is one of those in flight.
LEMMA HoldsActive ==
    ASSUME Typed, Accounts, NEW i \in DOMAIN batch, Holds(batch[i]) # None
    PROVE  Holds(batch[i]) \in Tools /\ budget.active[Holds(batch[i])] # 0
  <1>1. batch \in Seq(InFlight)
    BY DEF Typed, RunTyped
  <1>2. batch[i] \in InFlight
    BY <1>1, ElementOfSeq, LenProperties
  <1> DEFINE t == Holds(batch[i])
  <1>3. t \in Tools
    BY <1>2, HoldsOf DEF CallSteps
  <1>4. budget.active[t] = Held(batch, t)
    BY <1>3 DEF Accounts
  <1>5. /\ Cardinality({j \in DOMAIN batch \ {i} : Holds(batch[j]) = t}) = Held(batch, t) - 1
        /\ IsFiniteSet({j \in DOMAIN batch \ {i} : Holds(batch[j]) = t})
        /\ Held(batch, t) \in Nat
    BY <1>1, HeldWithout
  <1>6. Held(batch, t) - 1 \in Nat
    BY <1>5, FS_CardinalityType
  <1> QED
    BY <1>3, <1>4, <1>5, <1>6

\* All calls end: those that are cancelled close their reservations.
LEMMA Abandoned ==
    ASSUME Typed, NEW b, Books(b), NEW turn,
           \A t \in Tools : b.active[t] = Cardinality({i \in turn : Holds(batch[i]) = t})
    PROVE  /\ Books(Abandon(b, turn))
           /\ Abandon(b, turn).calls = b.calls
           /\ Abandon(b, turn).tokens = b.tokens
           /\ \A t \in Tools : Abandon(b, turn).active[t] = 0
  <1> DEFINE held == [t \in Tools |-> Cardinality({i \in turn : Holds(batch[i]) = t})]
  <1>1. b.active \in [Tools -> Nat]
    BY DEF Books, Budgets
  <1>2. held = b.active
    BY <1>1
  <1>3. Abandon(b, turn) = FailAll(b, held)
    BY DEF Abandon
  <1> HIDE DEF held
  <1>4. /\ Books(FailAll(b, held)) /\ FailAll(b, held).calls = b.calls
        /\ FailAll(b, held).active = [t \in Tools |-> 0] /\ FailAll(b, held).tokens = b.tokens
    BY <1>2, FailAllBooks
  <1> QED
    BY <1>3, <1>4

LEMMA AccountsEnd ==
    ASSUME NEW b, Books(b), \A t \in Tools : b.active[t] = 0, budget' = b, batch' = <<>>
    PROVE  Accounts'
  <1>1. \A t \in Tools : Held(<<>>, t) = 0
    <2>1. \A j \in DOMAIN <<>> : Holds(<<>>[j]) = None
      BY EmptySeq
    <2> QED
      BY <2>1, HeldNone
  <1> QED
    BY <1>1 DEF Accounts

\* A call raises after its reservation, if it had one, is closed.
LEMMA RaiseAccounts ==
    ASSUME Typed, Accounts, NEW i \in DOMAIN batch, NEW b, Books(b),
           \A t \in Tools : b.active[t] = budget.active[t] - (IF Holds(batch[i]) = t THEN 1 ELSE 0),
           budget' = Abandon(b, Others(i)), batch' = <<>>
    PROVE  Accounts' /\ budget'.calls = b.calls /\ budget'.tokens = b.tokens
  <1>1. batch \in Seq(InFlight)
    BY DEF Typed, RunTyped
  <1>2. ASSUME NEW t \in Tools
        PROVE  b.active[t] = Cardinality({j \in Others(i) : Holds(batch[j]) = t})
    <2>1. Cardinality({j \in DOMAIN batch \ {i} : Holds(batch[j]) = t})
            = Held(batch, t) - (IF Holds(batch[i]) = t THEN 1 ELSE 0)
      BY <1>1, HeldWithout
    <2>2. budget.active[t] = Held(batch, t)
      BY DEF Accounts
    <2>3. Others(i) = DOMAIN batch \ {i}
      BY DEF Others
    <2>4. b.active[t] = budget.active[t] - (IF Holds(batch[i]) = t THEN 1 ELSE 0)
      OBVIOUS
    <2> QED
      BY <2>1, <2>2, <2>3, <2>4
  <1> DEFINE c == Abandon(b, Others(i))
  <1>3. /\ Books(c) /\ c.calls = b.calls /\ c.tokens = b.tokens
        /\ \A t \in Tools : c.active[t] = 0
    BY <1>2, Abandoned
  <1> HIDE DEF c
  <1>4. budget' = c
    BY DEF c
  <1> QED
    BY <1>3, <1>4, AccountsEnd

-----------------------------------------------------------------------------
(* The books.                                                              *)

\* What a step charges: document searches, web searches and tokens.
Charges(d, w, n) ==
    /\ budget'.calls[DocumentSearch] = budget.calls[DocumentSearch] + d
    /\ budget'.calls[WebSearch] = budget.calls[WebSearch] + w
    /\ budget'.tokens = budget.tokens + n

LEMMA Spent0 ==
    ASSUME Accounts
    PROVE  /\ budget.calls[DocumentSearch] \in Nat /\ budget.calls[WebSearch] \in Nat
           /\ budget.tokens \in Nat
           /\ \A t \in Tools : budget.active[t] \in Nat
           /\ UNCHANGED budget => Charges(0, 0, 0)
  <1>1. /\ budget.calls \in [Tools -> Nat] /\ budget.tokens \in Nat
        /\ budget.active \in [Tools -> Nat]
    BY DEF Accounts, Books, Budgets
  <1>2. DocumentSearch \in Tools /\ WebSearch \in Tools
    BY DEF Tools
  <1>3. /\ budget.calls[DocumentSearch] \in Nat /\ budget.calls[WebSearch] \in Nat
        /\ \A t \in Tools : budget.active[t] \in Nat
    BY <1>1, <1>2
  <1> QED
    BY <1>1, <1>3 DEF Charges

\* A call that holds nothing ends, or is denied: nothing is charged.
LEMMA DenyAccounts ==
    ASSUME Typed, Accounts, NEW i \in DOMAIN batch, batch[i].step = "ready", Goto(i, "done"),
           UNCHANGED budget
    PROVE  Accounts' /\ Charges(0, 0, 0)
  <1>1. batch[i] \in InFlight
    BY ElementOfSeq, LenProperties DEF Typed, RunTyped
  <1>2. Holds(batch[i]) = None /\ Holds([batch[i] EXCEPT !.step = "done"]) = None
    BY <1>1, HoldsOf DEF CallSteps
  <1>3. \A t \in Tools : budget.active[t] = budget.active[t]
                - (IF Holds(batch[i]) = t THEN 1 ELSE 0)
                + (IF Holds([batch[i] EXCEPT !.step = "done"]) = t THEN 1 ELSE 0)
    BY <1>1, <1>2, HoldsOf, Spent0
  <1> QED
    BY <1>3, AccountsGo, Spent0 DEF CallSteps, Accounts

\* A search that is admitted is charged when it starts.
LEMMA AdmitAccounts ==
    ASSUME Typed, Accounts, NEW i \in DOMAIN batch, batch[i].step = "ready",
           NEW t, t = SearchOf(batch[i].tool), Admit(i, t)
    PROVE  /\ Accounts'
           /\ \/ Charges(0, 0, 0)
              \/ /\ t = DocumentSearch /\ Charges(1, 0, 0)
                 /\ Goto(i, "searching") /\ UNCHANGED context
              \/ /\ t = WebSearch /\ Charges(0, 1, 0)
                 /\ Goto(i, "searching") /\ UNCHANGED context
  <1>1. batch[i] \in InFlight
    BY ElementOfSeq, LenProperties DEF Typed, RunTyped
  <1>2. CASE ~CanReserve(budget, t)
    BY <1>2, DenyAccounts DEF Admit, Deny
  <1>3. CASE CanReserve(budget, t)
    <2> DEFINE b == Reserve(budget, t)
    <2>1. t \in Tools /\ (t = DocumentSearch \/ t = WebSearch)
      BY <1>1, HoldsOf DEF CallSteps, SearchOf
    <2>2. /\ Books(b) /\ b.tokens = budget.tokens
          /\ \A u \in Tools : /\ b.active[u] = budget.active[u] + (IF u = t THEN 1 ELSE 0)
                              /\ b.calls[u] = budget.calls[u] + (IF u = t THEN 1 ELSE 0)
                              /\ budget.active[u] \in Nat /\ budget.calls[u] \in Nat
      BY <1>3, <2>1, Starts DEF Accounts
    <2>3. Holds(batch[i]) = None /\ Holds([batch[i] EXCEPT !.step = "searching"]) = t
      BY <1>1, HoldsOf DEF CallSteps
    <2>4. None \notin Tools
      BY <1>1, HoldsOf DEF CallSteps
    <2>5. budget' = b /\ Goto(i, "searching") /\ UNCHANGED context
      BY <1>3 DEF Admit
    <2> HIDE DEF b
    <2>6. \A u \in Tools : b.active[u] = budget.active[u]
                - (IF Holds(batch[i]) = u THEN 1 ELSE 0)
                + (IF Holds([batch[i] EXCEPT !.step = "searching"]) = u THEN 1 ELSE 0)
      BY <2>2, <2>3, <2>4
    <2>7. Accounts'
      BY <2>2, <2>5, <2>6, AccountsGo DEF CallSteps
    <2>8. budget.tokens \in Nat
      BY Spent0
    <2>9. DocumentSearch \in Tools /\ WebSearch \in Tools /\ DocumentSearch # WebSearch
      BY DEF Tools, DocumentSearch, WebSearch
    <2> QED
      BY <2>1, <2>2, <2>5, <2>7, <2>8, <2>9 DEF Charges
  <1> QED
    BY <1>2, <1>3

\* A call ends with its reservation.
LEMMA CloseAccounts ==
    ASSUME Typed, Accounts, NEW i \in DOMAIN batch, Holds(batch[i]) # None,
           NEW s \in {"completed", "failed", "timeout"}
    PROVE  LET b == Close(budget, Holds(batch[i]), s)
           IN  /\ Books(b) /\ b.tokens = budget.tokens /\ b.calls = budget.calls
               /\ \A t \in Tools : b.active[t]
                    = budget.active[t] - (IF Holds(batch[i]) = t THEN 1 ELSE 0)
  <1>1. Holds(batch[i]) \in Tools /\ budget.active[Holds(batch[i])] # 0
    BY HoldsActive
  <1> DEFINE b == Close(budget, Holds(batch[i]), s)
  <1>2. /\ Books(b) /\ b.tokens = budget.tokens /\ b.calls = budget.calls
        /\ \A t \in Tools : b.active[t] = budget.active[t]
                                            - (IF t = Holds(batch[i]) THEN 1 ELSE 0)
    BY <1>1, Ends DEF Accounts
  <1> HIDE DEF b
  <1>3. \A t \in Tools : b.active[t] = budget.active[t]
                                            - (IF Holds(batch[i]) = t THEN 1 ELSE 0)
    BY <1>2
  <1> QED
    BY <1>2, <1>3 DEF b

LEMMA CompleteAccounts ==
    ASSUME Typed, Accounts, NEW i \in DOMAIN batch, Holds(batch[i]) # None,
           Goto(i, "done"), budget' = Close(budget, Holds(batch[i]), "completed")
    PROVE  Accounts' /\ Charges(0, 0, 0)
  <1> DEFINE b == Close(budget, Holds(batch[i]), "completed")
  <1>1. /\ Books(b) /\ b.tokens = budget.tokens /\ b.calls = budget.calls
        /\ \A t \in Tools : b.active[t] = budget.active[t]
                                            - (IF Holds(batch[i]) = t THEN 1 ELSE 0)
    BY CloseAccounts
  <1>2. budget' = b
    OBVIOUS
  <1>3. batch[i] \in InFlight
    BY ElementOfSeq, LenProperties DEF Typed, RunTyped
  <1>4. Holds([batch[i] EXCEPT !.step = "done"]) = None /\ None \notin Tools
    BY <1>3, HoldsOf DEF CallSteps
  <1> HIDE DEF b
  <1>5. \A t \in Tools : b.active[t] = budget.active[t]
                - (IF Holds(batch[i]) = t THEN 1 ELSE 0)
                + (IF Holds([batch[i] EXCEPT !.step = "done"]) = t THEN 1 ELSE 0)
    BY <1>1, <1>4, Spent0
  <1>6. Accounts'
    BY <1>1, <1>2, <1>5, AccountsGo DEF CallSteps
  <1> QED
    BY <1>1, <1>2, <1>6, Spent0 DEF Charges

\* The searches that a call starts.
LEMMA SearchesAccounts ==
    ASSUME Typed, Accounts, NEW i \in DOMAIN batch
    PROVE  /\ SearchDocs(i) =>
                /\ Accounts'
                /\ \/ Charges(0, 0, 0)
                   \/ /\ ~context.webOnly /\ Charges(1, 0, 0) 
                      /\ Goto(i, "searching") /\ UNCHANGED context
           /\ SearchWeb(i) =>
                /\ Accounts'
                /\ \/ Charges(0, 0, 0)
                   \/ /\ ~DocsFirst /\ Charges(0, 1, 0)
                      /\ Goto(i, "searching") /\ UNCHANGED context
  <1>0. batch[i] \in InFlight
    BY ElementOfSeq, LenProperties DEF Typed, RunTyped
  <1>1. ASSUME SearchDocs(i), context.webOnly
        PROVE  Accounts' /\ Charges(0, 0, 0)
    BY <1>1, DenyAccounts DEF SearchDocs, At, Deny
  <1>2. ASSUME SearchDocs(i), ~context.webOnly
        PROVE  /\ Accounts'
               /\ \/ Charges(0, 0, 0)
                  \/ Charges(1, 0, 0) /\ Goto(i, "searching") /\ UNCHANGED context
    <2>1. batch[i].step = "ready" /\ SearchOf(batch[i].tool) = DocumentSearch
          /\ Admit(i, DocumentSearch)
      BY <1>2 DEF SearchDocs, At, SearchOf
    <2> QED
      BY <2>1, AdmitAccounts DEF DocumentSearch, WebSearch
  <1>3. ASSUME SearchWeb(i), DocsFirst
        PROVE  Accounts' /\ Charges(0, 0, 0)
    BY <1>3, DenyAccounts DEF SearchWeb, At, Deny
  <1>4. ASSUME SearchWeb(i), ~DocsFirst, ~context.hasWeb
        PROVE  Accounts' /\ Charges(0, 0, 0)
    <2>1. budget' = Abandon(budget, Others(i)) /\ batch' = <<>>
      BY <1>4 DEF SearchWeb, Raise
    <2>2. batch[i].step = "ready"
      BY <1>4 DEF SearchWeb, At
    <2>3. Holds(batch[i]) = None /\ None \notin Tools
      BY <1>0, <2>2, HoldsOf DEF CallSteps
    <2>4. /\ \A t \in Tools : budget.active[t]
                = budget.active[t] - (IF Holds(batch[i]) = t THEN 1 ELSE 0)
          /\ Books(budget)
      BY <2>3, Spent0 DEF Accounts
    <2>5. Accounts' /\ budget'.calls = budget.calls /\ budget'.tokens = budget.tokens
      BY <2>1, <2>4, RaiseAccounts
    <2> QED
      BY <2>5, Spent0 DEF Charges
  <1>5. ASSUME SearchWeb(i), ~DocsFirst, context.hasWeb
        PROVE  /\ Accounts'
               /\ \/ Charges(0, 0, 0)
                  \/ Charges(0, 1, 0) /\ Goto(i, "searching") /\ UNCHANGED context
    <2>1. batch[i].step = "ready" /\ SearchOf(batch[i].tool) = WebSearch
          /\ Admit(i, WebSearch)
      BY <1>5 DEF SearchWeb, At, SearchOf
    <2> QED
      BY <2>1, AdmitAccounts DEF DocumentSearch, WebSearch
  <1> QED
    BY <1>1, <1>2, <1>3, <1>4, <1>5

\* What the searches return.
LEMMA FoundAccounts ==
    ASSUME Typed, Accounts, NEW i \in DOMAIN batch,
           DocsFound(i) \/ DocsFiltered(i) \/ WebFound(i) \/ ServiceFails(i)
    PROVE  Accounts' /\ Charges(0, 0, 0)
  <1>0. /\ batch[i] \in InFlight
        /\ None \notin Tools /\ None # DocumentSearch /\ None # WebSearch
    BY ElementOfSeq, LenProperties DEF Typed, RunTyped, Tools, None, DocumentSearch, WebSearch
  <1>1. CASE DocsFound(i)
    <2> DEFINE b == Close(budget, DocumentSearch, "completed")
               x == "search_docs_selection"
               c == Reserve(b, x)
    <2>1. Holds(batch[i]) = DocumentSearch
      BY <1>1 DEF DocsFound, At, Holds, SearchOf
    <2>2. /\ Books(b) /\ b.tokens = budget.tokens /\ b.calls = budget.calls
          /\ \A t \in Tools : b.active[t] = budget.active[t]
                                            - (IF Holds(batch[i]) = t THEN 1 ELSE 0)
      BY <1>0, <2>1, CloseAccounts
    <2>3. \/ budget' = b /\ Goto(i, "done")
          \/ CanReserve(b, x) /\ budget' = c /\ Goto(i, "filtering")
          \/ budget' = Abandon(b, Others(i)) /\ batch' = <<>>
      BY <1>1 DEF DocsFound
    <2>4. CASE budget' = b /\ Goto(i, "done")
      BY <1>0, <2>1, <2>4, CompleteAccounts
    <2>5. CASE CanReserve(b, x) /\ budget' = c /\ Goto(i, "filtering")
      <3>1. x \in Tools /\ x # DocumentSearch /\ x # WebSearch
            /\ DocumentSearch \in Tools /\ WebSearch \in Tools
        BY DEF Tools, DocumentSearch, WebSearch
      <3> HIDE DEF b, x
      <3>2. /\ Books(c) /\ c.tokens = b.tokens
            /\ \A t \in Tools : /\ c.active[t] = b.active[t] + (IF t = x THEN 1 ELSE 0)
                                /\ c.calls[t] = b.calls[t] + (IF t = x THEN 1 ELSE 0)
                                /\ b.active[t] \in Nat /\ b.calls[t] \in Nat
        BY <2>2, <2>5, <3>1, Starts
      <3>3. Holds([batch[i] EXCEPT !.step = "filtering"]) = x
        BY <1>0, HoldsOf DEF CallSteps, x
      <3> HIDE DEF c
      <3>4. \A t \in Tools : c.active[t] = budget.active[t]
                - (IF Holds(batch[i]) = t THEN 1 ELSE 0)
                + (IF Holds([batch[i] EXCEPT !.step = "filtering"]) = t THEN 1 ELSE 0)
        BY <2>2, <3>2, <3>3, Spent0
      <3>5. Accounts'
        BY <2>5, <3>2, <3>4, AccountsGo DEF CallSteps
      <3>6. c.tokens = budget.tokens /\ c.calls[DocumentSearch] = budget.calls[DocumentSearch]
            /\ c.calls[WebSearch] = budget.calls[WebSearch]
        BY <2>2, <3>1, <3>2, Spent0
      <3> QED
        BY <2>5, <3>5, <3>6, Spent0 DEF Charges
    <2>6. CASE budget' = Abandon(b, Others(i)) /\ batch' = <<>>
      <3> HIDE DEF b
      <3>1. Accounts' /\ budget'.calls = b.calls /\ budget'.tokens = b.tokens
        BY <2>2, <2>6, RaiseAccounts
      <3> QED
        BY <2>2, <3>1, Spent0 DEF Charges
    <2> QED
      BY <2>3, <2>4, <2>5, <2>6
  <1>2. CASE DocsFiltered(i)
    <2>1. Holds(batch[i]) = "search_docs_selection"
      BY <1>2 DEF DocsFiltered, At, Holds
    <2> QED
      BY <1>2, <2>1, CompleteAccounts DEF DocsFiltered, None
  <1>3. CASE WebFound(i)
    <2>1. Holds(batch[i]) = WebSearch
      BY <1>3 DEF WebFound, At, Holds, SearchOf
    <2> QED
      BY <1>0, <1>3, <2>1, CompleteAccounts DEF WebFound
  <1>4. CASE ServiceFails(i)
    <2>1. PICK s \in {"failed", "timeout", "completed"} :
            Raise(i, Close(budget, Holds(batch[i]), s), None)
      BY <1>4 DEF ServiceFails
    <2> DEFINE b == Close(budget, Holds(batch[i]), s)
    <2>2. /\ Books(b) /\ b.tokens = budget.tokens /\ b.calls = budget.calls
          /\ \A t \in Tools : b.active[t] = budget.active[t]
                                            - (IF Holds(batch[i]) = t THEN 1 ELSE 0)
      BY <1>4, CloseAccounts DEF ServiceFails
    <2>3. budget' = Abandon(b, Others(i)) /\ batch' = <<>>
      BY <2>1 DEF Raise
    <2> HIDE DEF b
    <2>4. Accounts' /\ budget'.calls = b.calls /\ budget'.tokens = b.tokens
      BY <2>2, <2>3, RaiseAccounts
    <2> QED
      BY <2>2, <2>4, Spent0 DEF Charges
  <1> QED
    BY <1>1, <1>2, <1>3, <1>4

\* A selection, charged for the part of it that was not charged before.
Selects(i, s) ==
    /\ s = [e \in Evidence |-> IF e \in batch[i].ids THEN context.candidates[e] ELSE 0]
    /\ batch[i].ids \subseteq Found(context.candidates)
    /\ Fits(s) /\ Charges(0, 0, Uncharged(s))
    /\ context' = [context EXCEPT !.selected = s, !.charged = @ \union batch[i].ids,
                                  !.revised = TRUE, !.denials = 0]
    /\ Goto(i, "done")

LEMMA SelectAccounts ==
    ASSUME Typed, Accounts, NEW i \in DOMAIN batch, SelectContext(i)
    PROVE  /\ Accounts'
           /\ \/ /\ Charges(0, 0, 0) /\ batch' = <<>>
                 /\ context' = context \/ \E x : context' = [context EXCEPT !.reason = x]
              \/ \E s \in Texts : Selects(i, s)
  <1> DEFINE t == "select_context"
             ids == batch[i].ids
             selected == [e \in Evidence |-> IF e \in ids THEN context.candidates[e] ELSE 0]
             b == Reserve(budget, t)
             d == Close(b, t, "failed")
             r == RecordTokens(b, Uncharged(selected))
             c == Close(r, t, "completed")
  <1>0. /\ batch[i] \in InFlight /\ batch[i].step = "ready"
    BY ElementOfSeq, LenProperties DEF Typed, RunTyped, SelectContext, At
  <1>1. Holds(batch[i]) = None /\ None \notin Tools
        /\ Holds([batch[i] EXCEPT !.step = "done"]) = None
    BY <1>0, HoldsOf DEF CallSteps
  <1>2. t \in Tools /\ DocumentSearch \in Tools /\ WebSearch \in Tools
        /\ t # DocumentSearch /\ t # WebSearch
    BY DEF Tools, DocumentSearch, WebSearch
  <1>3. \/ /\ \E reason : Raise(i, budget, reason)
           /\ ~CanReserve(budget, t)
        \/ /\ \E reason : Raise(i, d, reason)
           /\ CanReserve(budget, t)
        \/ /\ CanReserve(budget, t) /\ ids \subseteq Found(context.candidates)
           /\ Fits(selected) /\ Affordable(b, Uncharged(selected))
           /\ budget' = c
           /\ context' = [context EXCEPT !.selected = selected, !.charged = @ \union ids,
                                         !.revised = TRUE, !.denials = 0]
           /\ Goto(i, "done")
    BY DEF SelectContext
  <1>4. selected \in Texts
    BY PartTyped DEF Typed, ContextTyped
  <1>5. CASE ~CanReserve(budget, t) /\ \E reason : Raise(i, budget, reason)
    <2>1. budget' = Abandon(budget, Others(i)) /\ batch' = <<>>
          /\ (context' = context \/ \E x : context' = [context EXCEPT !.reason = x])
      BY <1>5 DEF Raise
    <2>2. /\ \A u \in Tools : budget.active[u]
                = budget.active[u] - (IF Holds(batch[i]) = u THEN 1 ELSE 0)
          /\ Books(budget)
      BY <1>1, Spent0 DEF Accounts
    <2>3. Accounts' /\ budget'.calls = budget.calls /\ budget'.tokens = budget.tokens
      BY <2>1, <2>2, RaiseAccounts
    <2> QED
      BY <2>1, <2>3, Spent0 DEF Charges
  <1>6. ASSUME CanReserve(budget, t)
        PROVE  /\ Books(b) /\ b.tokens = budget.tokens
               /\ \A u \in Tools :
                    /\ b.active[u] = budget.active[u] + (IF u = t THEN 1 ELSE 0)
                    /\ b.calls[u] = budget.calls[u] + (IF u = t THEN 1 ELSE 0)
                    /\ budget.active[u] \in Nat /\ budget.calls[u] \in Nat
               /\ b.active[t] # 0 /\ b.tokens \in Nat
    <2>1. /\ Books(b) /\ b.tokens = budget.tokens
          /\ \A u \in Tools :
                /\ b.active[u] = budget.active[u] + (IF u = t THEN 1 ELSE 0)
                /\ b.calls[u] = budget.calls[u] + (IF u = t THEN 1 ELSE 0)
                /\ budget.active[u] \in Nat /\ budget.calls[u] \in Nat
      BY <1>2, <1>6, Starts DEF Accounts
    <2> QED
      BY <1>2, <2>1, Spent0
  <1>7. CASE CanReserve(budget, t) /\ \E reason : Raise(i, d, reason)
    <2>1. /\ Books(b) /\ b.tokens = budget.tokens /\ b.active[t] # 0
          /\ \A u \in Tools :
                /\ b.active[u] = budget.active[u] + (IF u = t THEN 1 ELSE 0)
                /\ b.calls[u] = budget.calls[u] + (IF u = t THEN 1 ELSE 0)
                /\ budget.active[u] \in Nat /\ budget.calls[u] \in Nat
      BY <1>6, <1>7
    <2>2. budget' = Abandon(d, Others(i)) /\ batch' = <<>>
          /\ (context' = context \/ \E x : context' = [context EXCEPT !.reason = x])
      BY <1>7 DEF Raise
    <2> HIDE DEF b
    <2>3. /\ Books(d) /\ d.tokens = b.tokens /\ d.calls = b.calls
          /\ \A u \in Tools : d.active[u] = b.active[u] - (IF u = t THEN 1 ELSE 0)
      BY <1>2, <2>1, Ends
    <2> HIDE DEF d
    <2>4. \A u \in Tools : d.active[u]
                = budget.active[u] - (IF Holds(batch[i]) = u THEN 1 ELSE 0)
      BY <1>1, <2>1, <2>3
    <2>5. Accounts' /\ budget'.calls = d.calls /\ budget'.tokens = d.tokens
      BY <2>2, <2>3, <2>4, RaiseAccounts
    <2>6. /\ d.calls[DocumentSearch] = budget.calls[DocumentSearch]
          /\ d.calls[WebSearch] = budget.calls[WebSearch]
      BY <1>2, <2>1, <2>3
    <2> QED
      BY <2>1, <2>2, <2>3, <2>5, <2>6, Spent0 DEF Charges
  <1>8. CASE /\ CanReserve(budget, t) /\ ids \subseteq Found(context.candidates)
             /\ Fits(selected) /\ Affordable(b, Uncharged(selected))
             /\ budget' = c
             /\ context' = [context EXCEPT !.selected = selected, !.charged = @ \union ids,
                                           !.revised = TRUE, !.denials = 0]
             /\ Goto(i, "done")
    <2> DEFINE n == Uncharged(selected)
    <2>1. n \in Nat
      BY <1>4, UnchargedType
    <2>2. /\ Books(b) /\ b.tokens = budget.tokens /\ b.active[t] # 0 /\ b.tokens \in Nat
          /\ \A u \in Tools :
                /\ b.active[u] = budget.active[u] + (IF u = t THEN 1 ELSE 0)
                /\ b.calls[u] = budget.calls[u] + (IF u = t THEN 1 ELSE 0)
                /\ budget.active[u] \in Nat /\ budget.calls[u] \in Nat
      BY <1>6, <1>8
    <2>3. Affordable(b, n)
      BY <1>8
    <2> HIDE DEF b, n
    <2>4. /\ Books(r) /\ r.calls = b.calls /\ r.active = b.active /\ r.tokens = b.tokens + n
      BY <2>1, <2>2, <2>3, RecordBooks DEF n
    <2> HIDE DEF r
    <2>5. /\ Books(c) /\ c.tokens = r.tokens /\ c.calls = r.calls
          /\ \A u \in Tools : c.active[u] = r.active[u] - (IF u = t THEN 1 ELSE 0)
      BY <1>2, <2>2, <2>4, Ends
    <2>6. budget' = c
      BY <1>8
    <2> HIDE DEF c
    <2>7. \A u \in Tools : c.active[u] = budget.active[u]
                - (IF Holds(batch[i]) = u THEN 1 ELSE 0)
                + (IF Holds([batch[i] EXCEPT !.step = "done"]) = u THEN 1 ELSE 0)
      BY <1>1, <2>2, <2>4, <2>5
    <2>8. Goto(i, "done")
      BY <1>8
    <2>9. Accounts'
      BY <2>5, <2>6, <2>7, <2>8, AccountsGo DEF CallSteps
    <2>10. /\ c.calls[DocumentSearch] = budget.calls[DocumentSearch]
           /\ c.calls[WebSearch] = budget.calls[WebSearch]
           /\ c.tokens = budget.tokens + n
      BY <1>2, <2>2, <2>4, <2>5
    <2>11. Charges(0, 0, Uncharged(selected))
      BY <2>6, <2>10, Spent0 DEF Charges, n
    <2>12. Selects(i, selected)
      BY <1>8, <2>11 DEF Selects
    <2> HIDE DEF selected
    <2> QED
      BY <1>4, <2>9, <2>12
  <1> QED
    BY <1>3, <1>5, <1>7, <1>8

\* Turns charge nothing, and start with nothing in flight.
LEMMA IdleAccounts ==
    ASSUME Accounts, NEW q, batch' = q, UNCHANGED budget,
           \A i \in DOMAIN batch : Holds(batch[i]) = None,
           \A i \in DOMAIN q : Holds(q[i]) = None
    PROVE  Accounts' /\ Charges(0, 0, 0)
  <1>1. \A t \in Tools : Held(batch, t) = 0 /\ Held(q, t) = 0
    BY HeldNone
  <1>2. \A t \in Tools : budget.active[t] = Held(q, t)
    BY <1>1 DEF Accounts
  <1> QED
    BY <1>2, Spent0 DEF Accounts

LEMMA TurnsAccounts ==
    ASSUME Typed, Accounts,
           Orchestrate \/ ForceSearch \/ StopTurns \/ BeforeModel \/ ModelFinishes
            \/ ModelCalls \/ ToolsReturn \/ Synthesize \/ NodeFails
    PROVE  Accounts' /\ Charges(0, 0, 0)
  <1>1. CASE UNCHANGED <<budget, batch>>
    BY <1>1, Spent0 DEF Accounts
  <1>2. ASSUME pc # "tools"
        PROVE  \A i \in DOMAIN batch : Holds(batch[i]) = None
    <2>1. batch = <<>>
      BY <1>2 DEF Typed, RunTyped
    <2> QED
      BY <2>1, EmptySeq
  <1>3. CASE ForceSearch
    <2> DEFINE c == Start([tool |-> context.force, ids |-> {}])
    <2>1. Holds(c) = None
      BY DEF Start, Holds
    <2> HIDE DEF c
    <2>2. DOMAIN <<c>> = {1} /\ <<c>>[1] = c
      OBVIOUS
    <2>3. \A i \in DOMAIN <<c>> : Holds(<<c>>[i]) = None
      BY <2>1, <2>2
    <2>4. batch' = <<c>> /\ UNCHANGED budget /\ pc # "tools"
      BY <1>3 DEF ForceSearch, c
    <2> QED
      BY <1>2, <2>3, <2>4, IdleAccounts
  <1>4. CASE ModelCalls
    <2>1. PICK n \in 1 .. MaxBatch :
            \E turn \in [1 .. n -> ToolCalls] : batch' = [i \in 1 .. n |-> Start(turn[i])]
      BY <1>4 DEF ModelCalls
    <2>2. PICK turn \in [1 .. n -> ToolCalls] : batch' = [i \in 1 .. n |-> Start(turn[i])]
      BY <2>1
    <2> DEFINE q == [i \in 1 .. n |-> Start(turn[i])]
    <2>3. \A i \in DOMAIN q : Holds(q[i]) = None
      BY DEF Start, Holds
    <2>4. batch' = q /\ UNCHANGED budget /\ pc # "tools"
      BY <1>4, <2>2 DEF ModelCalls
    <2> HIDE DEF q
    <2> QED
      BY <1>2, <2>3, <2>4, IdleAccounts
  <1>5. CASE ToolsReturn
    <2>1. \A i \in DOMAIN batch : Holds(batch[i]) = None
      BY <1>5 DEF ToolsReturn, Holds
    <2>2. \A i \in DOMAIN <<>> : Holds(<<>>[i]) = None
      BY EmptySeq
    <2>3. batch' = <<>> /\ UNCHANGED budget
      BY <1>5 DEF ToolsReturn
    <2> QED
      BY <2>1, <2>2, <2>3, IdleAccounts
  <1> QED
    BY <1>1, <1>3, <1>4, <1>5
        DEF Orchestrate, StopTurns, BeforeModel, ModelFinishes, Synthesize, NodeFails

LEMMA CollectAccounts ==
    ASSUME Typed, Accounts, Collect
    PROVE  /\ Accounts'
           /\ \/ Charges(0, 0, 0) /\ ~Recovers
              \/ \E s \in Recoverable : Charges(0, 0, Uncharged(s)) /\ Recovers
  <1>1. PICK s \in IF Recovers THEN Recoverable ELSE {context.selected} :
            budget' = IF Recovers THEN RecordTokens(budget, Uncharged(s)) ELSE budget
    BY DEF Collect
  <1>2. UNCHANGED batch
    BY DEF Collect
  <1>3. CASE ~Recovers
    BY <1>1, <1>2, <1>3, Spent0 DEF Accounts
  <1>4. CASE Recovers
    <2> DEFINE n == Uncharged(s)
               b == RecordTokens(budget, n)
    <2>1. n \in Nat /\ Affordable(budget, n)
      BY <1>1, <1>4, RecoverableTyped, UnchargedType
    <2> HIDE DEF n
    <2>2. /\ Books(b) /\ b.calls = budget.calls /\ b.active = budget.active
          /\ b.tokens = budget.tokens + n
      BY <2>1, RecordBooks DEF Accounts
    <2>3. budget' = b
      BY <1>1, <1>4 DEF n
    <2> HIDE DEF b
    <2>4. Accounts'
      BY <1>2, <2>2, <2>3 DEF Accounts
    <2>5. Charges(0, 0, Uncharged(s))
      BY <2>2, <2>3, Spent0 DEF Charges, n
    <2> QED
      BY <1>1, <1>4, <2>4, <2>5
  <1> QED
    BY <1>3, <1>4

LEMMA CancelAccounts ==
    ASSUME Typed, Accounts, Cancel
    PROVE  Accounts' /\ Charges(0, 0, 0)
  <1> DEFINE c == Abandon(budget, DOMAIN batch)
  <1>1. \A t \in Tools :
            budget.active[t] = Cardinality({i \in DOMAIN batch : Holds(batch[i]) = t})
    BY DEF Accounts, Held
  <1>2. /\ Books(c) /\ c.calls = budget.calls /\ c.tokens = budget.tokens
        /\ \A t \in Tools : c.active[t] = 0
    BY <1>1, Abandoned DEF Accounts
  <1>3. budget' = c /\ batch' = <<>>
    BY DEF Cancel
  <1> HIDE DEF c
  <1> QED
    BY <1>2, <1>3, AccountsEnd, Spent0 DEF Charges

LEMMA AccountsInit == ASSUME Init PROVE Accounts
  <1>1. budget = NewBudget /\ batch = <<>>
    BY DEF Init
  <1>2. \A t \in Tools : NewBudget.active[t] = 0
    BY DEF NewBudget
  <1>3. \A t \in Tools : Held(<<>>, t) = 0
    <2>1. \A j \in DOMAIN <<>> : Holds(<<>>[j]) = None
      BY EmptySeq
    <2> QED
      BY <2>1, HeldNone
  <1> QED
    BY <1>1, <1>2, <1>3, NewBooks DEF Accounts

LEMMA AccountsStep == ASSUME Typed, Accounts, [Next]_vars PROVE Accounts'
  <1>1. CASE UNCHANGED vars
    BY <1>1 DEF vars, Accounts
  <1>2. ASSUME NEW i \in DOMAIN batch, Call(i)
        PROVE  Accounts'
    BY <1>2, SearchesAccounts, FoundAccounts, SelectAccounts DEF Call
  <1> QED
    BY <1>1, <1>2, TurnsAccounts, CollectAccounts, CancelAccounts DEF Next, Work

\* Typed and Accounts hold in every state.
LEMMA Inductive == Spec => [](Typed /\ Accounts)
  <1>1. Init => Typed /\ Accounts
    BY TypedInit, AccountsInit
  <1>2. Typed /\ Accounts /\ [Next]_vars => (Typed /\ Accounts)'
    BY TypedStep, AccountsStep
  <1> QED
    BY <1>1, <1>2, PTL DEF Spec

\* The state and the context of a run keep their types: react_pipeline.py.
THEOREM TypeCorrect == Spec => []TypeOK
  <1>1. ASSUME Typed, Accounts PROVE TypeOK
    <2>1. \A t \in Tools : budget.calls[t] \in Nat /\ budget.active[t] \in Nat
      BY <1>1 DEF Accounts, Books, Budgets
    <2> QED
      BY <1>1, <2>1 DEF TypeOK, Typed, ContextTyped, RunTyped, Texts, Searches
  <1> QED
    BY <1>1, Inductive, PTL

\* Whichever calls of a turn fail, time out or are cancelled, the counters, the records
\* and the calls in flight agree (policies.py, run_with_budget; contracts.py, RunBudget).
THEOREM BooksBalance == Spec => []CallsAccounted
  <1>1. ASSUME Typed, Accounts PROVE CallsAccounted
    BY <1>1, BooksSound DEF CallsAccounted, Accounts, Held
  <1> QED
    BY <1>1, Inductive, PTL

-----------------------------------------------------------------------------
(* The text the synthesis gets.                                            *)

\* The evidence of a run and the question are left alone.
KeepsContext ==
    /\ context'.webOnly = context.webOnly
    /\ context'.candidates = context.candidates
    /\ context'.selected = context.selected
    /\ context'.charged = context.charged

LEMMA DenyKeeps ==
    ASSUME Typed, NEW i, NEW reason, Deny(i, reason)
    PROVE  KeepsContext /\ UNCHANGED ledger /\ UNCHANGED <<pc, outcome>>
  BY DEF Deny, KeepsContext, Typed, ContextTyped, Fields

LEMMA RaiseKeeps ==
    ASSUME Typed, NEW i, NEW b, NEW reason, Raise(i, b, reason)
    PROVE  KeepsContext /\ UNCHANGED ledger /\ (outcome' = "failed" \/ UNCHANGED outcome)
  <1>1. context' = context \/ context' = [context EXCEPT !.reason = reason]
    BY DEF Raise
  <1>2. KeepsContext
    BY <1>1 DEF KeepsContext, Typed, ContextTyped, Fields
  <1> QED
    BY <1>2 DEF Raise

\* Turns, searches that start, and services that fail do not touch the evidence.
LEMMA TurnsKeep ==
    ASSUME Typed,
           Orchestrate \/ ForceSearch \/ StopTurns \/ BeforeModel \/ ModelFinishes
            \/ ModelCalls \/ ToolsReturn \/ Synthesize \/ NodeFails \/ Cancel
    PROVE  KeepsContext /\ UNCHANGED ledger
  <1>1. UNCHANGED ledger
    BY DEF Orchestrate, ForceSearch, StopTurns, BeforeModel, ModelFinishes, ModelCalls,
           ToolsReturn, Synthesize, NodeFails, Cancel
  <1>2. CASE UNCHANGED context
    BY <1>1, <1>2 DEF KeepsContext
  <1>3. CASE Orchestrate
    BY <1>1, <1>3 DEF Orchestrate, KeepsContext, Typed, ContextTyped, Fields
  <1>4. CASE ForceSearch
    BY <1>1, <1>4 DEF ForceSearch, KeepsContext, Typed, ContextTyped, Fields
  <1>5. CASE StopTurns
    BY <1>1, <1>5 DEF StopTurns, KeepsContext, Typed, ContextTyped, Fields
  <1>6. CASE BeforeModel
    BY <1>1, <1>6 DEF BeforeModel, KeepsContext, Typed, ContextTyped, Fields
  <1> QED
    BY <1>2, <1>3, <1>4, <1>5, <1>6
       DEF ModelFinishes, ModelCalls, ToolsReturn, Synthesize, NodeFails, Cancel

LEMMA SearchesKeep ==
    ASSUME Typed, NEW i \in DOMAIN batch,
           SearchDocs(i) \/ SearchWeb(i) \/ DocsFiltered(i) \/ ServiceFails(i)
    PROVE  KeepsContext /\ UNCHANGED ledger /\ (outcome' = "failed" \/ UNCHANGED outcome)
  <1>1. ASSUME NEW t, Admit(i, t)
        PROVE  KeepsContext /\ UNCHANGED ledger /\ UNCHANGED outcome
    BY <1>1, DenyKeeps DEF Admit, KeepsContext
  <1>2. CASE SearchDocs(i)
    BY <1>1, <1>2, DenyKeeps DEF SearchDocs
  <1>3. CASE SearchWeb(i)
    BY <1>1, <1>3, DenyKeeps, RaiseKeeps DEF SearchWeb
  <1>4. CASE DocsFiltered(i)
    BY <1>4 DEF DocsFiltered, KeepsContext, Typed, ContextTyped, Fields
  <1>5. CASE ServiceFails(i)
    BY <1>5, RaiseKeeps DEF ServiceFails
  <1> QED
    BY <1>2, <1>3, <1>4, <1>5

\* What a search finds joins the candidates.
LEMMA FoundKeeps ==
    ASSUME Typed, NEW i \in DOMAIN batch, DocsFound(i) \/ WebFound(i)
    PROVE  /\ context'.webOnly = context.webOnly
           /\ context'.selected = context.selected
           /\ context'.charged = context.charged
           /\ UNCHANGED <<ledger, outcome>>
           /\ \E r \in Texts :
                /\ context'.candidates = Updated(context.candidates, r)
                /\ Found(r) \subseteq IF DocsFound(i) THEN DocIds ELSE WebIds
  <1>1. CASE DocsFound(i)
    <2>1. PICK r \in Results(DocIds) :
            \/ context' = [[context EXCEPT !.candidates = Updated(@, r)] EXCEPT !.denials = 0]
            \/ context' = [context EXCEPT !.candidates = Updated(@, r)]
            \/ \E x : context' = [[context EXCEPT !.candidates = Updated(@, r)] EXCEPT !.reason = x]
      BY <1>1 DEF DocsFound
    <2>2. r \in Texts /\ Found(r) \subseteq DocIds
      BY ResultsTyped DEF Evidence
    <2> DEFINE u == Updated(context.candidates, r)
    <2>3. \/ context' = [[context EXCEPT !.candidates = u] EXCEPT !.denials = 0]
          \/ context' = [context EXCEPT !.candidates = u]
          \/ \E x : context' = [[context EXCEPT !.candidates = u] EXCEPT !.reason = x]
      BY <2>1
    <2> HIDE DEF u
    <2>4. /\ context'.webOnly = context.webOnly /\ context'.selected = context.selected
          /\ context'.charged = context.charged /\ context'.candidates = u
      BY <2>3 DEF Typed, ContextTyped, Fields
    <2>5. UNCHANGED <<ledger, outcome>>
      BY <1>1 DEF DocsFound
    <2> QED
      BY <1>1, <2>2, <2>4, <2>5 DEF u
  <1>2. CASE WebFound(i) /\ ~DocsFound(i)
    <2>1. PICK r \in Results(WebIds) :
            context' = [context EXCEPT !.candidates = Updated(@, r), !.searchedWeb = TRUE,
                                       !.denials = 0]
      BY <1>2 DEF WebFound
    <2>2. r \in Texts /\ Found(r) \subseteq WebIds
      BY ResultsTyped DEF Evidence
    <2> DEFINE u == Updated(context.candidates, r)
    <2>3. context' = [context EXCEPT !.candidates = u, !.searchedWeb = TRUE, !.denials = 0]
      BY <2>1
    <2> HIDE DEF u
    <2>4. /\ context'.webOnly = context.webOnly /\ context'.selected = context.selected
          /\ context'.charged = context.charged /\ context'.candidates = u
      BY <2>3 DEF Typed, ContextTyped, Fields
    <2>5. UNCHANGED <<ledger, outcome>>
      BY <1>2 DEF WebFound
    <2> QED
      BY <1>2, <2>2, <2>4, <2>5 DEF u
  <1> QED
    BY <1>1, <1>2

\* The longest text of a piece of evidence, and the size of the longest texts of some.
Longest(e) == CHOOSE n \in Sizes[e] : \A m \in Sizes[e] : m <= n
Bound(S) == [e \in Evidence |-> IF e \in S THEN Longest(e) ELSE 0]

LEMMA LongestBounds ==
    ASSUME NEW e \in Evidence
    PROVE  Longest(e) \in Nat /\ \A n \in Sizes[e] : n <= Longest(e)
  <1>1. Sizes[e] \subseteq Nat /\ \E n \in Sizes[e] : \A m \in Sizes[e] : m <= n
    BY SizesAssumption DEF Evidence
  <1>2. Longest(e) \in Sizes[e] /\ \A m \in Sizes[e] : m <= Longest(e)
    BY <1>1 DEF Longest
  <1> QED
    BY <1>1, <1>2

\* What a selection adds is within the longest texts of what it adds.
LEMMA ChargeBounds ==
    ASSUME NEW s \in Texts, NEW S, NEW n \in Nat, n <= Size(Bound(S)),
           S = context.charged
    PROVE  n + Uncharged(s) <= Size(Bound(S \union Found(s)))
  <1> DEFINE f == Bound(S)
             g == [e \in Evidence |-> IF e \in context.charged THEN 0 ELSE s[e]]
             h == Bound(S \union Found(s))
  <1>1. \A e \in Evidence : Longest(e) \in Nat /\ (s[e] = 0 \/ s[e] <= Longest(e)) /\ s[e] \in Nat
    BY LongestBounds DEF Texts
  <1>2. f \in Lengths /\ g \in Lengths /\ h \in Lengths
    BY <1>1 DEF Lengths, Bound
  <1>3. \A e \in Evidence : f[e] <= h[e] /\ g[e] <= h[e] /\ (f[e] = 0 \/ g[e] = 0)
    BY <1>1 DEF Bound, Found
  <1>4. Uncharged(s) = Size(g)
    BY DEF Uncharged
  <1> HIDE DEF f, g, h
  <1>5. Size(f) + Size(g) <= Size(h)
    BY <1>2, <1>3, SizeGrows
  <1>6. Size(f) \in Nat /\ Size(g) \in Nat /\ Size(h) \in Nat
    BY <1>2, SizeType
  <1>7. n <= Size(f)
    BY DEF f
  <1>8. n + Size(g) <= Size(h)
    BY <1>5, <1>6, <1>7
  <1> QED
    BY <1>4, <1>8 DEF h

\* ContextFits, field by field.
Fitted(selected, items, charged, candidates, tokens) ==
    /\ Size(selected) <= Allowance
    /\ Size(items) <= Allowance
    /\ Found(selected) \subseteq charged
    /\ charged \subseteq Found(candidates)
    /\ tokens <= Size(Bound(charged))

LEMMA FittedContext ==
    ContextFits <=> Fitted(context.selected, ledger.items, context.charged,
                           context.candidates, budget.tokens)
  BY DEF ContextFits, Fitted, Bound, Longest

LEMMA FittedNext ==
    ASSUME NEW s, NEW m, NEW c, NEW d, NEW n, Fitted(s, m, c, d, n),
           context'.selected = s, ledger'.items = m, context'.charged = c,
           context'.candidates = d, budget'.tokens = n
    PROVE  ContextFits'
  BY DEF ContextFits, Fitted, Bound, Longest

LEMMA FittedInit == ASSUME Init PROVE ContextFits
  <1>1. Fitted(Nothing, Nothing, {}, Nothing, 0)
    <2>1. Allowance \in Nat
      BY LimitsAssumption, BoundsAssumption DEF Allowance, Smaller
    <2>2. Bound({}) \in Lengths
      BY DEF Bound, Lengths
    <2>3. 0 <= Size(Bound({}))
      BY <2>2, SizeType
    <2> QED
      BY <2>1, <2>3, SizeNothing, NothingTyped DEF Fitted
  <1>2. /\ context.selected = Nothing /\ ledger.items = Nothing /\ context.charged = {}
        /\ context.candidates = Nothing /\ budget.tokens = 0
    BY DEF Init, NewBudget
  <1> QED
    BY <1>1, <1>2, FittedContext

LEMMA FittedStep ==
    ASSUME Typed, Accounts, ContextFits, [Next]_vars
    PROVE  ContextFits'
  <1> DEFINE s == context.selected
             m == ledger.items
             c == context.charged
             d == context.candidates
             n == budget.tokens
  <1>0. /\ Fitted(s, m, c, d, n) /\ n \in Nat /\ s \in Texts /\ m \in Texts /\ d \in Texts
    BY FittedContext, Spent0 DEF Typed, ContextTyped, RunTyped
  <1>1. CASE KeepsContext /\ UNCHANGED ledger /\ Charges(0, 0, 0)
    <2>1. budget'.tokens = n
      BY <1>0, <1>1 DEF Charges
    <2> QED
      BY <1>0, <1>1, <2>1, FittedNext DEF KeepsContext
  <1>2. ASSUME NEW i \in DOMAIN batch, DocsFound(i) \/ WebFound(i)
        PROVE  ContextFits'
    <2>1. PICK r \in Texts : context'.candidates = Updated(context.candidates, r)
      BY <1>2, FoundKeeps
    <2>2. /\ context'.selected = s /\ context'.charged = c /\ UNCHANGED ledger
      BY <1>2, FoundKeeps
    <2>3. budget'.tokens = n
      BY <1>0, <1>2, FoundAccounts DEF Charges
    <2>4. Found(d) \subseteq Found(Updated(d, r))
      BY <1>0, <2>1, UpdatedTyped
    <2>5. Fitted(s, m, c, Updated(d, r), n)
      BY <1>0, <2>4 DEF Fitted
    <2> QED
      BY <2>1, <2>2, <2>3, <2>5, FittedNext
  <1>3. ASSUME NEW i \in DOMAIN batch, SelectContext(i)
        PROVE  ContextFits'
    <2>1. UNCHANGED ledger
      BY <1>3 DEF SelectContext, Raise
    <2>2. CASE /\ Charges(0, 0, 0)
               /\ context' = context \/ \E x : context' = [context EXCEPT !.reason = x]
      <3>1. KeepsContext
        BY <2>2 DEF KeepsContext, Typed, ContextTyped, Fields
      <3> QED
        BY <1>1, <2>1, <2>2, <3>1
    <2>3. ASSUME NEW t \in Texts, Selects(i, t)
          PROVE  ContextFits'
      <3> DEFINE ids == batch[i].ids
      <3>1. /\ t = [e \in Evidence |-> IF e \in ids THEN d[e] ELSE 0]
            /\ ids \subseteq Found(d) /\ Fits(t) /\ Charges(0, 0, Uncharged(t))
            /\ context' = [context EXCEPT !.selected = t, !.charged = @ \union ids,
                                          !.revised = TRUE, !.denials = 0]
        BY <2>3 DEF Selects
      <3>2. Found(t) = ids
        <4>1. Found([e \in Evidence |-> IF e \in ids THEN d[e] ELSE 0]) = Found(d) \intersect ids
          BY <1>0, PartTyped
        <4> HIDE DEF ids, d
        <4>2. Found(t) = Found(d) \intersect ids /\ ids \subseteq Found(d)
          BY <3>1, <4>1
        <4> QED
          BY <4>2
      <3> HIDE DEF ids
      <3>3. /\ context'.selected = t /\ context'.charged = c \union Found(t)
            /\ context'.candidates = d
        BY <3>1, <3>2 DEF Typed, ContextTyped, Fields
      <3>4. budget'.tokens = n + Uncharged(t)
        BY <3>1 DEF Charges
      <3>5. n + Uncharged(t) <= Size(Bound(c \union Found(t)))
        BY <1>0, ChargeBounds DEF Fitted
      <3>6. Fitted(t, m, c \union Found(t), d, n + Uncharged(t))
        BY <1>0, <3>1, <3>2, <3>5 DEF Fitted, Fits
      <3> QED
        BY <2>1, <3>3, <3>4, <3>6, FittedNext
    <2> QED
      BY <1>3, <2>2, <2>3, SelectAccounts
  <1>4. CASE Collect
    <2>1. PICK t \in IF Recovers THEN Recoverable ELSE {s} :
            /\ budget' = IF Recovers THEN RecordTokens(budget, Uncharged(t)) ELSE budget
            /\ context' = IF Recovers
                          THEN [context EXCEPT !.selected = t, !.charged = @ \union Found(t)]
                          ELSE context
            /\ UNCHANGED ledger \/ ledger' = [items |-> t, exhausted |-> context.reason]
      BY <1>4 DEF Collect
    <2>2. ledger'.items = m \/ ledger'.items = t
      BY <2>1
    <2>3. CASE ~Recovers
      <3>1. t = s /\ context' = context /\ budget' = budget
        BY <2>1, <2>3
      <3>2. Fitted(s, ledger'.items, c, d, n)
        BY <1>0, <2>2, <3>1 DEF Fitted
      <3> QED
        BY <3>1, <3>2, FittedNext
    <2>4. CASE Recovers
      <3>1. /\ t \in Texts /\ Fits(t) /\ Found(t) \subseteq Found(d) \union Found(s)
        BY <2>1, <2>4, RecoverableTyped
      <3>2. /\ context'.selected = t /\ context'.charged = c \union Found(t)
            /\ context'.candidates = d
        BY <2>1, <2>4 DEF Typed, ContextTyped, Fields
      <3>3. budget'.tokens = n + Uncharged(t)
        <4>1. budget \in Budgets
          BY DEF Accounts, Books
        <4>2. budget' = [budget EXCEPT !.tokens = @ + Uncharged(t)]
          BY <2>1, <2>4 DEF RecordTokens
        <4> QED
          BY <4>1, <4>2 DEF Budgets
      <3>4. n + Uncharged(t) <= Size(Bound(c \union Found(t)))
        BY <1>0, <3>1, ChargeBounds DEF Fitted
      <3>5. Fitted(t, ledger'.items, c \union Found(t), d, n + Uncharged(t))
        BY <1>0, <2>2, <3>1, <3>4 DEF Fitted, Fits
      <3> QED
        BY <3>2, <3>3, <3>5, FittedNext
    <2> QED
      BY <2>3, <2>4
  <1>5. CASE UNCHANGED vars
    BY <1>1, <1>5, Spent0 DEF vars, KeepsContext
  <1>6. ASSUME NEW i \in DOMAIN batch,
               SearchDocs(i) \/ SearchWeb(i) \/ DocsFiltered(i) \/ ServiceFails(i)
        PROVE  ContextFits'
    <2>1. KeepsContext /\ UNCHANGED ledger
      BY <1>6, SearchesKeep
    <2>2. budget'.tokens = n
      BY <1>0, <1>6, SearchesAccounts, FoundAccounts DEF Charges
    <2> QED
      BY <1>0, <2>1, <2>2, FittedNext DEF KeepsContext
  <1>7. CASE Orchestrate \/ ForceSearch \/ StopTurns \/ BeforeModel \/ ModelFinishes
                \/ ModelCalls \/ ToolsReturn \/ Synthesize \/ NodeFails \/ Cancel
    BY <1>1, <1>7, TurnsKeep, TurnsAccounts, CancelAccounts
  <1> QED
    BY <1>2, <1>3, <1>4, <1>5, <1>6, <1>7 DEF Next, Work, Call

-----------------------------------------------------------------------------
(* The order of the sources.                                               *)

\* When only the web may be read, nothing else is found.
InTurn ==
    /\ SourcesInOrder
    /\ context.webOnly => Found(context.candidates) \subseteq WebIds

\* While no document was searched, no search of documents is in flight.
LEMMA NoDocuments ==
    ASSUME Typed, Accounts, budget.calls[DocumentSearch] = 0, NEW i \in DOMAIN batch
    PROVE  ~DocsFound(i)
  <1>1. SUFFICES ASSUME DocsFound(i) PROVE FALSE
    OBVIOUS
  <1>2. Holds(batch[i]) = DocumentSearch /\ DocumentSearch # None
    BY <1>1 DEF DocsFound, At, Holds, SearchOf, DocumentSearch, None
  <1>3. budget.active[DocumentSearch] # 0 /\ DocumentSearch \in Tools
    BY <1>2, HoldsActive
  <1> DEFINE r == budget.trace
             d == DocumentSearch
  <1>4. budget \in Budgets /\ Accounted(budget)
    BY DEF Accounts, Books
  <1>5. r \in Seq(Records)
    BY <1>4 DEF Budgets
  <1>6. Count(r, Open(d)) = budget.active[d] /\ Count(r, ByTool(d)) = 0
    BY <1>3, <1>4, AccountedCounts
  <1>7. Places(r, Open(d)) \in SUBSET Places(r, ByTool(d))
    <2>1. \A j \in DOMAIN r : r[j] \in Records
      BY <1>5, ElementOfSeq, LenProperties
    <2> QED
      BY <2>1 DEF Places, Open, ByTool
  <1>8. IsFiniteSet(Places(r, ByTool(d)))
    BY <1>5, PlacesFinite
  <1>9. Places(r, ByTool(d)) = {}
    BY <1>6, <1>8, FS_EmptySet DEF Count
  <1>10. Places(r, Open(d)) = {}
    BY <1>7, <1>9
  <1>11. Count(r, Open(d)) = 0
    BY <1>10, FS_EmptySet DEF Count
  <1> QED
    BY <1>3, <1>6, <1>11

\* SourcesInOrder, while the answer is not one from internal knowledge.
LEMMA OrderedNext ==
    ASSUME NEW w, NEW d \in Nat, NEW k \in Nat, NEW m, NEW f,
           context'.webOnly = w, context'.candidates = f, ledger'.items = m,
           budget'.calls[DocumentSearch] = d, budget'.calls[WebSearch] = k,
           outcome' # "internal",
           w => d = 0 /\ Found(m) \subseteq WebIds /\ Found(f) \subseteq WebIds,
           ~w /\ k > 0 => d = MaxDocs
    PROVE  InTurn'
  BY DEF InTurn, SourcesInOrder

LEMMA OrderedInit == ASSUME Init PROVE InTurn
  <1>1. /\ context.candidates = Nothing /\ ledger.items = Nothing /\ outcome = None
        /\ budget.calls[DocumentSearch] = 0 /\ budget.calls[WebSearch] = 0
    BY DEF Init, NewBudget, Tools
  <1> QED
    BY <1>1, NothingTyped DEF InTurn, SourcesInOrder, None

\* An answer from internal knowledge leaves no search it could have used.
LEMMA InternalAnswer ==
    ASSUME Typed, Accounts, InTurn, Synthesize, outcome' = "internal"
    PROVE  InTurn'
  <1>1. Missing = None /\ UNCHANGED <<budget, context, ledger>>
    <2>1. outcome = None
      BY DEF Synthesize, Typed, RunTyped
    <2> QED
      BY <2>1 DEF Synthesize, None
  <1>2. /\ budget.calls[DocumentSearch] \in Nat /\ budget.calls[WebSearch] \in Nat
        /\ budget.tokens \in Nat
    BY Spent0
  <1>3. /\ budget.calls[DocumentSearch] <= MaxDocs /\ budget.calls[WebSearch] <= MaxWeb
        /\ budget.tokens <= MaxContext
    BY DEF Accounts, Books, Balanced
  <1>4. DocumentSearch # WebSearch
    BY DEF DocumentSearch, WebSearch
  <1>5. /\ Remaining(budget, DocumentSearch) = MaxDocs - budget.calls[DocumentSearch]
        /\ Remaining(budget, WebSearch) = MaxWeb - budget.calls[WebSearch]
    BY <1>4 DEF Remaining
  <1>6. \/ RemainingTokens(budget) = 0
        \/ /\ CanReserve(budget, DocumentSearch) \/ Remaining(budget, DocumentSearch) = 0
           /\ CanReserve(budget, WebSearch) \/ Remaining(budget, WebSearch) = 0
    <2>1. /\ CanReserve(budget, DocumentSearch) <=>
                /\ ~(RemainingTokens(budget) <= 0)
                /\ ~(budget.calls[DocumentSearch] >= MaxDocs)
          /\ CanReserve(budget, WebSearch) <=>
                /\ ~(RemainingTokens(budget) <= 0)
                /\ ~(budget.calls[WebSearch] >= MaxWeb)
      BY <1>4, RefusalReasons
    <2> QED
      BY <1>2, <1>3, <1>5, <2>1, LimitsAssumption DEF RemainingTokens
  <1>7. /\ ~(~context.webOnly /\ CanReserve(budget, DocumentSearch))
        /\ ~(/\ context.webOnly \/ ~CanReserve(budget, DocumentSearch)
             /\ ~context.searchedWeb /\ context.hasWeb /\ CanReserve(budget, WebSearch))
    BY <1>1 DEF Missing, None
  <1>8. \/ RemainingTokens(budget) = 0
        \/ /\ context.webOnly \/ Remaining(budget, DocumentSearch) = 0
           /\ context.searchedWeb \/ ~context.hasWeb \/ Remaining(budget, WebSearch) = 0
    BY <1>6, <1>7
  <1> QED
    BY <1>1, <1>8 DEF InTurn, SourcesInOrder, RemainingTokens, Remaining

LEMMA OrderedStep ==
    ASSUME Typed, Accounts, ContextFits, InTurn, [Next]_vars
    PROVE  InTurn'
  <1> DEFINE w == context.webOnly
             d == budget.calls[DocumentSearch]
             k == budget.calls[WebSearch]
             m == ledger.items
             f == context.candidates
  <1>0. /\ d \in Nat /\ k \in Nat /\ budget.tokens \in Nat
        /\ w => d = 0 /\ Found(m) \subseteq WebIds /\ Found(f) \subseteq WebIds
        /\ ~w /\ k > 0 => d = MaxDocs
    BY Spent0 DEF InTurn, SourcesInOrder
  <1>1. ASSUME pc # "over"
        PROVE  outcome = None /\ None # "internal"
    BY <1>1 DEF Typed, RunTyped, None
  <1>2. CASE UNCHANGED vars
    BY <1>2 DEF vars, InTurn, SourcesInOrder, RemainingTokens, Remaining
  <1>3. CASE /\ KeepsContext /\ UNCHANGED ledger /\ Charges(0, 0, 0) /\ outcome' # "internal"
    <2>1. budget'.calls[DocumentSearch] = d /\ budget'.calls[WebSearch] = k
      BY <1>0, <1>3 DEF Charges
    <2> QED
      BY <1>0, <1>3, <2>1, OrderedNext DEF KeepsContext
  <1>4. CASE Orchestrate \/ ForceSearch \/ StopTurns \/ BeforeModel \/ ModelFinishes
                \/ ModelCalls \/ ToolsReturn \/ Synthesize \/ NodeFails \/ Cancel
    <2>1. KeepsContext /\ UNCHANGED ledger /\ Charges(0, 0, 0)
      BY <1>4, TurnsKeep, TurnsAccounts, CancelAccounts
    <2>2. CASE Synthesize /\ outcome' = "internal"
      BY <2>2, InternalAnswer
    <2>3. CASE ~(Synthesize /\ outcome' = "internal")
      <3>1. pc # "over"
        BY <1>4 DEF Orchestrate, ForceSearch, StopTurns, BeforeModel, ModelFinishes,
                    ModelCalls, ToolsReturn, Synthesize, NodeFails, Cancel
      <3>2. outcome' # "internal"
        BY <1>1, <1>4, <2>3, <3>1
           DEF Orchestrate, ForceSearch, StopTurns, BeforeModel, ModelFinishes,
               ModelCalls, ToolsReturn, NodeFails, Cancel
      <3> QED
        BY <1>3, <2>1, <3>2
    <2> QED
      BY <2>2, <2>3
  <1>5. ASSUME NEW i \in DOMAIN batch, Call(i)
        PROVE  outcome' # "internal"
    <2>1. pc # "over"
      BY <1>5 DEF Call, SearchDocs, SearchWeb, DocsFound, DocsFiltered, WebFound,
                  ServiceFails, SelectContext, At
    <2>2. outcome' = "failed" \/ UNCHANGED outcome
      <3>1. CASE SelectContext(i)
        BY <3>1 DEF SelectContext, Raise
      <3> QED
        BY <1>5, <3>1, SearchesKeep, FoundKeeps DEF Call
    <2> QED
      BY <1>1, <2>1, <2>2
  <1>6. ASSUME NEW i \in DOMAIN batch, SearchDocs(i)
        PROVE  InTurn'
    <2>1. KeepsContext /\ UNCHANGED ledger /\ outcome' # "internal"
      BY <1>5, <1>6, SearchesKeep DEF Call
    <2>2. CASE Charges(0, 0, 0)
      BY <1>3, <2>1, <2>2
    <2>3. CASE ~context.webOnly /\ Charges(1, 0, 0)
      <3>1. budget'.calls[DocumentSearch] = d + 1 /\ budget'.calls[WebSearch] = k
        BY <1>0, <2>3 DEF Charges
      <3>2. k = 0
        <4>1. Accounts'
          BY <1>6, SearchesAccounts
        <4>2. d + 1 <= MaxDocs
          BY <3>1, <4>1 DEF Accounts, Books, Balanced
        <4> QED
          BY <1>0, <2>3, <4>2, LimitsAssumption
      <3> QED
        BY <1>0, <2>1, <2>3, <3>1, <3>2, OrderedNext DEF KeepsContext
    <2> QED
      BY <1>6, <2>2, <2>3, SearchesAccounts
  <1>7. ASSUME NEW i \in DOMAIN batch, SearchWeb(i)
        PROVE  InTurn'
    <2>1. KeepsContext /\ UNCHANGED ledger /\ outcome' # "internal"
      BY <1>5, <1>7, SearchesKeep DEF Call
    <2>2. CASE Charges(0, 0, 0)
      BY <1>3, <2>1, <2>2
    <2>3. CASE ~DocsFirst /\ Charges(0, 1, 0)
      <3>1. budget'.calls[DocumentSearch] = d /\ budget'.calls[WebSearch] = k + 1
        BY <1>0, <2>3 DEF Charges
      <3>2. ~w => d = MaxDocs
        <4>1. d <= MaxDocs
          BY DEF Accounts, Books, Balanced
        <4>2. Remaining(budget, DocumentSearch) = MaxDocs - d
          BY DEF Remaining, DocumentSearch, WebSearch
        <4>3. ~w => ~(MaxDocs - d > 0)
          BY <2>3, <4>2 DEF DocsFirst
        <4>4. d \in Nat /\ MaxDocs \in Nat
          BY <1>0, LimitsAssumption
        <4> HIDE DEF d, w
        <4> QED
          BY <4>1, <4>3, <4>4
      <3> QED
        BY <1>0, <2>1, <3>1, <3>2, OrderedNext DEF KeepsContext
    <2> QED
      BY <1>7, <2>2, <2>3, SearchesAccounts
  <1>8. ASSUME NEW i \in DOMAIN batch, DocsFiltered(i) \/ ServiceFails(i)
        PROVE  InTurn'
    BY <1>3, <1>5, <1>8, SearchesKeep, FoundAccounts DEF Call
  <1>9. ASSUME NEW i \in DOMAIN batch, DocsFound(i) \/ WebFound(i)
        PROVE  InTurn'
    <2>1. /\ context'.webOnly = w /\ UNCHANGED ledger /\ outcome' # "internal"
          /\ budget'.calls[DocumentSearch] = d /\ budget'.calls[WebSearch] = k
      BY <1>0, <1>5, <1>9, FoundKeeps, FoundAccounts DEF Call, Charges
    <2>2. PICK r \in Texts : /\ context'.candidates = Updated(f, r)
                             /\ Found(r) \subseteq IF DocsFound(i) THEN DocIds ELSE WebIds
      BY <1>9, FoundKeeps
    <2>3. Found(Updated(f, r)) = Found(f) \union Found(r)
      BY UpdatedTyped DEF Typed, ContextTyped
    <2>4. w => ~DocsFound(i)
      BY <1>0, NoDocuments
    <2>5. w => Found(Updated(f, r)) \subseteq WebIds
      BY <1>0, <2>2, <2>3, <2>4
    <2> QED
      BY <1>0, <2>1, <2>2, <2>5, OrderedNext
  <1>10. ASSUME NEW i \in DOMAIN batch, SelectContext(i)
         PROVE  InTurn'
    <2>1. UNCHANGED ledger /\ outcome' # "internal"
      BY <1>5, <1>10 DEF Call, SelectContext, Raise
    <2>2. budget'.calls[DocumentSearch] = d /\ budget'.calls[WebSearch] = k
      <3>1. Charges(0, 0, 0) \/ \E n : Charges(0, 0, n)
        BY <1>10, SelectAccounts DEF Selects
      <3>2. /\ budget'.calls[DocumentSearch] = d + 0
            /\ budget'.calls[WebSearch] = k + 0
        BY <3>1 DEF Charges
      <3> QED
        BY <1>0, <3>2
    <2>3. context'.webOnly = w /\ context'.candidates = f
      <3>1. CASE context' = context \/ \E x : context' = [context EXCEPT !.reason = x]
        BY <3>1 DEF Typed, ContextTyped, Fields
      <3>2. ASSUME NEW s \in Texts, Selects(i, s)
            PROVE  context'.webOnly = w /\ context'.candidates = f
        BY <3>2 DEF Selects, Typed, ContextTyped, Fields
      <3> QED
        BY <1>10, <3>1, <3>2, SelectAccounts
    <2> QED
      BY <1>0, <2>1, <2>2, <2>3, OrderedNext
  <1>11. CASE Collect
    <2>1. PICK s \in IF Recovers THEN Recoverable ELSE {context.selected} :
            /\ context' = IF Recovers
                          THEN [context EXCEPT !.selected = s, !.charged = @ \union Found(s)]
                          ELSE context
            /\ UNCHANGED ledger \/ ledger' = [items |-> s, exhausted |-> context.reason]
            /\ outcome' = "failed" \/ UNCHANGED outcome
      BY <1>11 DEF Collect
    <2>2. context'.webOnly = w /\ context'.candidates = f
      BY <2>1 DEF Typed, ContextTyped, Fields
    <2>3. budget'.calls[DocumentSearch] = d /\ budget'.calls[WebSearch] = k
      BY <1>0, <1>11, CollectAccounts DEF Charges
    <2>4. outcome' # "internal"
      BY <1>1, <1>11, <2>1 DEF Collect
    <2>5. Found(context.selected) \subseteq Found(f)
      BY DEF ContextFits
    <2>6. Found(s) \subseteq Found(f)
      BY <2>1, <2>5, RecoverableTyped
    <2>7. ledger'.items = m \/ ledger'.items = s
      BY <2>1
    <2>8. w => Found(ledger'.items) \subseteq WebIds
      BY <1>0, <2>6, <2>7
    <2> QED
      BY <1>0, <2>2, <2>3, <2>4, <2>8, OrderedNext
  <1> QED
    BY <1>2, <1>4, <1>6, <1>7, <1>8, <1>9, <1>10, <1>11 DEF Next, Work, Call

-----------------------------------------------------------------------------
\* The synthesis gets no more text than it may, only what was found and charged, and
\* nothing is charged twice (react_pipeline.py, select_context and orchestrate).
THEOREM TextIsCharged == Spec => []ContextFits
  <1>1. Init => ContextFits
    BY FittedInit
  <1>2. Typed /\ Accounts /\ ContextFits /\ [Next]_vars => ContextFits'
    BY FittedStep
  <1> QED
    BY <1>1, <1>2, Inductive, PTL DEF Spec

\* Documents before the web unless the question asks for the web, and an answer from
\* internal knowledge last (react_pipeline.py, search_docs, search_web, synthesize).
THEOREM DocumentsFirst == Spec => []SourcesInOrder
  <1>1. Init => InTurn
    BY OrderedInit
  <1>2. Typed /\ Accounts /\ ContextFits /\ InTurn /\ [Next]_vars => InTurn'
    BY OrderedStep
  <1>3. InTurn => SourcesInOrder
    BY DEF InTurn
  <1> QED
    BY <1>1, <1>2, <1>3, Inductive, TextIsCharged, PTL DEF Spec

-----------------------------------------------------------------------------
(***************************************************************************)
(* AgentGraph: the rounds of a run over the node graph.                    *)
(***************************************************************************)
Inner == {"document_search_tool", "choose_selection_strategy", "select_evidence",
          "web_search_tool", "needs_clarification", "synthesize", "validate_answer"}
GraphNodes == Inner \cup {"receive_question", "evaluate_local_evidence", "completed", "failed",
                          "idle", "end", "raised"}
Outcomes == {None, "insufficient", "failed", "budget_exhausted", "answered", "needs_clarification"}
Channels ==
    [decision : {None, "select", "web", "failed", "synthesize", "clarify", "insufficient",
                 "validate", "complete"},
     outcome : Outcomes,
     stage : {None, "received", "searching", "evaluating", "selecting", "web_searching", "waiting",
              "synthesizing", "completed", "failed"},
     docs : [status : {None, "ready", "no_hits", "no_context"}, round : Nat],
     strategy : {None, "concept", "paragraph"},
     selection : Nat, web : Nat, ledger : SUBSET Nat,
     synthesis : {None, "inside", "outside"}, answer : Nat, clarification : Nat,
     error : {None, DocumentSearch, WebSearch, "evaluate", "strategy", "selection",
              "clarification", "synthesis", "validation"}]

GraphTyped ==
    /\ channels \in Channels
    /\ node \in GraphNodes /\ round \in Nat
    /\ waiting \in BOOLEAN /\ cut \in BOOLEAN
    /\ answer.answer \in Nat /\ answer.clarification \in Nat
    /\ node # "idle" => round # 0

\* Where a round is tells what came of it so far.
OutcomeThere ==
    /\ node \in Inner => channels.outcome \in {None, "failed"}
    /\ node = "document_search_tool" => channels.outcome = None
    /\ node = "evaluate_local_evidence" =>
          \/ channels.outcome = None /\ channels.docs # NoDocs /\ channels.docs.round = round
                /\ channels.decision # "failed"
          \/ channels.outcome \in {"failed", "budget_exhausted"} /\ channels.decision = "failed"
    /\ node \in {"choose_selection_strategy", "select_evidence"} => channels.docs.round = round
    /\ node = "validate_answer" => channels.answer = round
    /\ node = "failed" => channels.outcome \in {"failed", "budget_exhausted"}
    /\ node \in {"evaluate_local_evidence", "failed", "completed", "end"} /\ channels.outcome = "failed" =>
          channels.answer = 0
    /\ node \in {"completed", "end"} =>
          /\ channels.outcome = "answered" => channels.answer = round /\ channels.synthesis = "inside"
          /\ channels.outcome = "needs_clarification" => channels.clarification > 0

\* Until a round is cut short, a round finds nothing that another has left: all others
\* asked before they selected anything.
NothingLeft ==
    /\ node \in {"receive_question", "document_search_tool", "evaluate_local_evidence",
                 "choose_selection_strategy", "select_evidence", "needs_clarification"} =>
          channels.selection = 0 /\ channels.web = 0
    /\ node \in (Inner \ {"validate_answer"}) \cup {"receive_question", "evaluate_local_evidence", "failed"} =>
          channels.answer = 0
    /\ node \in {"web_search_tool", "synthesize"} => {channels.selection, channels.web} \subseteq {0, round}
    /\ node = "validate_answer" => channels.ledger \subseteq {round}
    /\ node \in {"completed", "end"} =>
          /\ channels.outcome = "answered" => channels.ledger \subseteq {round}
          /\ channels.outcome # "answered" => channels.answer = 0
          /\ channels.outcome = "needs_clarification" => channels.selection = 0 /\ channels.web = 0
    /\ node = "idle" =>
          /\ waiting \/ round = 0 => channels.answer = 0 /\ channels.selection = 0 /\ channels.web = 0
          /\ waiting = (answer.outcome = "needs_clarification")

\* Between the rounds, the last result is what the channels hold.
ResultKept ==
    /\ answer.outcome = "answered" =>
          /\ node = "idle" /\ ~waiting /\ round # 0
          /\ answer.answer = round /\ channels.synthesis = "inside"
          /\ ~cut => channels.ledger \subseteq {round}
    /\ answer.outcome = "failed" => answer.answer = 0
    /\ ~cut /\ answer.outcome = "budget_exhausted" => answer.answer = 0

\* The budget is in order whenever no search is under way.
GraphInv ==
    /\ GraphTyped /\ OutcomeThere /\ (~cut => NothingLeft) /\ ResultKept
    /\ Books(spent) /\ \A t \in Tools : spent.active[t] = 0

\* The edge that is taken, by the node and the decision that it wrote.
LEMMA WriteGoes ==
  ASSUME NEW u \in Channels, Write(u)
  PROVE  /\ channels' = u /\ UNCHANGED <<deps, round, waiting, cut, answer>>
         /\ node = "receive_question" =>
               node' = CASE u.decision = "select" -> "document_search_tool"
                         [] u.decision = "web" -> "web_search_tool"
                         [] u.decision = "failed" -> "failed" [] OTHER -> "raised"
         /\ node = "evaluate_local_evidence" =>
               node' = CASE u.decision = "select" -> "choose_selection_strategy"
                         [] u.decision = "synthesize" -> "synthesize"
                         [] u.decision = "web" -> "web_search_tool"
                         [] u.decision = "clarify" -> "needs_clarification"
                         [] u.decision = "insufficient" -> "completed"
                         [] u.decision = "failed" -> "failed" [] OTHER -> "raised"
         /\ node = "select_evidence" =>
               node' = CASE u.decision = "synthesize" -> "synthesize"
                         [] u.decision = "web" -> "web_search_tool"
                         [] u.decision = "clarify" -> "needs_clarification"
                         [] u.decision = "insufficient" -> "completed"
                         [] u.decision = "failed" -> "failed" [] OTHER -> "raised"
         /\ node = "web_search_tool" =>
               node' = CASE u.decision = "synthesize" -> "synthesize"
                         [] u.decision = "clarify" -> "needs_clarification"
                         [] u.decision = "insufficient" -> "completed"
                         [] u.decision = "failed" -> "failed" [] OTHER -> "raised"
         /\ node = "synthesize" =>
               node' = CASE u.decision = "validate" -> "validate_answer"
                         [] u.decision = "insufficient" -> "completed"
                         [] u.decision = "failed" -> "failed" [] OTHER -> "raised"
         /\ node = "validate_answer" =>
               node' = CASE u.decision = "complete" -> "completed"
                         [] u.decision = "failed" -> "failed" [] OTHER -> "raised"
         /\ node = "document_search_tool" => node' = "evaluate_local_evidence"
         /\ node = "choose_selection_strategy" => node' = "select_evidence"
         /\ node = "needs_clarification" => node' = "completed"
         /\ node \in {"completed", "failed"} => node' = "end"
  BY DEF Write, Edges, Always

LEMMA GraphInvInit == GraphInit => GraphInv
  <1> SUFFICES ASSUME GraphInit PROVE GraphInv
    OBVIOUS
  <1>1. /\ channels = Empty /\ spent = NewBudget /\ node = "idle" /\ round = 0
        /\ waiting = FALSE /\ cut = FALSE /\ answer = NoResult
    BY DEF GraphInit
  <1>2. /\ Empty \in Channels /\ Empty.outcome = None /\ Empty.answer = 0
        /\ Empty.selection = 0 /\ Empty.web = 0
    BY DEF Empty, Channels, Outcomes, NoDocs, None
  <1>3. NoResult.answer = 0 /\ NoResult.clarification = 0 /\ NoResult.outcome = None
    BY DEF NoResult
  <1>4. GraphTyped
    <2>1. channels \in Channels /\ node \in GraphNodes /\ round \in Nat
      BY <1>1, <1>2 DEF GraphNodes
    <2>2. answer.answer \in Nat /\ answer.clarification \in Nat
      BY <1>1, <1>3
    <2> QED
      BY <1>1, <2>1, <2>2 DEF GraphTyped
  <1>5. OutcomeThere /\ NothingLeft
    BY <1>1, <1>2, <1>3 DEF OutcomeThere, NothingLeft, Inner, None
  <1>6. ResultKept
    BY <1>1, <1>3 DEF ResultKept, None
  <1>7. Books(spent) /\ \A t \in Tools : spent.active[t] = 0
    BY <1>1, NewBooks DEF NewBudget
  <1> QED
    BY <1>4, <1>5, <1>6, <1>7 DEF GraphInv

\* While a round runs, the last result is none that was an answer, and it stays.
LEMMA ResultStays ==
  ASSUME GraphInv, UNCHANGED <<answer, cut>>, node # "idle"
  PROVE  ResultKept'
  BY DEF GraphInv, ResultKept

LEMMA ReceiveSound ==
  ASSUME GraphInv, NEW explicitWeb \in BOOLEAN, ReceiveQuestion(explicitWeb)
  PROVE  GraphInv'
  <1> DEFINE u == [channels EXCEPT !.stage = "received", !.outcome = None,
                                   !.decision = IF explicitWeb THEN "web" ELSE "select"]
  <1>1. u \in Channels /\ Write(u) /\ node = "receive_question" /\ UNCHANGED spent
    BY DEF ReceiveQuestion, GraphInv, GraphTyped, Channels, Outcomes
  <1>2. /\ u.outcome = None /\ u.selection = channels.selection /\ u.web = channels.web
        /\ u.answer = channels.answer /\ u.decision \in {"web", "select"}
    BY DEF GraphInv, GraphTyped, Channels
  <1> HIDE DEF u
  <1>3. ResultKept'
    BY <1>1, ResultStays, WriteGoes
  <1> QED
    BY <1>1, <1>2, <1>3, WriteGoes
       DEF GraphInv, GraphTyped, OutcomeThere, NothingLeft, GraphNodes, Inner, None

\* What a failure writes, wherever it happens.
LEMMA FailureIs ==
  ASSUME channels \in Channels,
         NEW e \in {DocumentSearch, WebSearch, "evaluate", "strategy", "selection", "clarification",
                    "synthesis", "validation"}
  PROVE  /\ Failure(e) \in Channels /\ Failure(e).outcome = "failed" /\ Failure(e).decision = "failed"
         /\ Failure(e).answer = 0
         /\ Failure(e).docs = channels.docs /\ Failure(e).ledger = channels.ledger
         /\ Failure(e).selection = channels.selection /\ Failure(e).web = channels.web
         /\ e \in {DocumentSearch, WebSearch} =>
               /\ BudgetFailure(e) \in Channels /\ BudgetFailure(e).outcome = "budget_exhausted"
               /\ BudgetFailure(e).decision = "failed"
               /\ BudgetFailure(e).answer = channels.answer
               /\ BudgetFailure(e).docs = channels.docs /\ BudgetFailure(e).ledger = channels.ledger
               /\ BudgetFailure(e).selection = channels.selection /\ BudgetFailure(e).web = channels.web
  <1>1. Failure(e) \in Channels /\ (e \in {DocumentSearch, WebSearch} => BudgetFailure(e) \in Channels)
    BY DEF Failure, BudgetFailure, Channels, Outcomes
  <1> QED
    BY <1>1 DEF Failure, BudgetFailure, Channels

\* A search that is admitted ends, however it does.
LEMMA SearchBooks ==
  ASSUME Books(spent), \A t \in Tools : spent.active[t] = 0,
         NEW tool \in Tools, CanReserve(spent, tool), NEW status \in {"completed", "failed", "timeout"}
  PROVE  LET b == Close(Reserve(spent, tool), tool, status)
         IN  Books(b) /\ \A t \in Tools : b.active[t] = 0
  <1> DEFINE r == Reserve(spent, tool)
  <1>1. Books(r) /\ r.active = [spent.active EXCEPT ![tool] = @ + 1]
    BY ReserveBooks
  <1>2. spent.active \in [Tools -> Nat]
    BY DEF Books, Budgets
  <1> HIDE DEF r
  <1>3. r.active[tool] = 1 /\ \A t \in Tools \ {tool} : r.active[t] = 0
    BY <1>1, <1>2
  <1>4. r.active \in [Tools -> Nat]
    BY <1>1 DEF Books, Budgets
  <1>5. /\ Books(Close(r, tool, status))
        /\ Close(r, tool, status).active = [r.active EXCEPT ![tool] = @ - 1]
    BY <1>1, <1>3, CloseBooks
  <1> QED
    BY <1>3, <1>4, <1>5 DEF r

\* A node that writes u: what is to be shown of u, when the budget is in order.
LEMMA NodeSound ==
  ASSUME GraphInv, NEW u \in Channels, Write(u), node \in GraphNodes \ {"idle", "end", "raised"},
         node' \in GraphNodes \ {"idle"}, OutcomeThere', ~cut => NothingLeft',
         Books(spent'), \A t \in Tools : spent'.active[t] = 0
  PROVE  GraphInv'
  <1>1. ResultKept'
    BY ResultStays, WriteGoes
  <1>2. GraphTyped'
    BY WriteGoes DEF GraphInv, GraphTyped
  <1> QED
    BY <1>1, <1>2, WriteGoes DEF GraphInv

\* A node that fails takes its run to the failure, at once or by way of the next node.
LEMMA FailureSound ==
  ASSUME GraphInv, node \in Inner \cup {"evaluate_local_evidence"},
         NEW e \in {DocumentSearch, WebSearch, "evaluate", "strategy", "selection", "clarification",
                    "synthesis", "validation"},
         Write(Failure(e)) \/ (/\ e \in {DocumentSearch, WebSearch} /\ Write(BudgetFailure(e))
                               /\ node \in {"document_search_tool", "web_search_tool"}),
         Books(spent'), \A t \in Tools : spent'.active[t] = 0
  PROVE  GraphInv'
  <1>1. channels \in Channels /\ round # 0 /\ node # "idle"
    BY DEF GraphInv, GraphTyped, Inner
  <1>2. ASSUME NEW u \in Channels, Write(u), u.decision = "failed",
               \/ u.outcome = "failed" /\ u.answer = 0
               \/ u.outcome = "budget_exhausted" /\ u.answer = channels.answer
                  /\ node \in {"document_search_tool", "web_search_tool"},
               u.selection = channels.selection, u.web = channels.web, u.docs = channels.docs
        PROVE  GraphInv'
    <2>1. /\ channels' = u /\ round' = round /\ cut' = cut
          /\ node' = CASE node = "document_search_tool" -> "evaluate_local_evidence"
                       [] node = "choose_selection_strategy" -> "select_evidence"
                       [] node = "needs_clarification" -> "completed"
                       [] OTHER -> "failed"
      BY <1>2, WriteGoes DEF Inner
    <2>2. OutcomeThere /\ (~cut => NothingLeft)
      BY DEF GraphInv
    <2>3. OutcomeThere'
      BY <1>2, <2>1, <2>2 DEF OutcomeThere, Inner, None
    <2>4. ~cut => NothingLeft'
      BY <1>2, <2>1, <2>2 DEF NothingLeft, Inner
    <2>5. node' \in GraphNodes \ {"idle"} /\ node \in GraphNodes \ {"idle", "end", "raised"}
      BY <2>1 DEF GraphNodes, Inner
    <2> QED
      BY <1>2, <2>3, <2>4, <2>5, NodeSound
  <1>3. CASE Write(Failure(e))
    BY <1>1, <1>2, <1>3, FailureIs
  <1>4. CASE e \in {DocumentSearch, WebSearch} /\ Write(BudgetFailure(e))
             /\ node \in {"document_search_tool", "web_search_tool"}
    BY <1>1, <1>2, <1>4, FailureIs
  <1> QED
    BY <1>3, <1>4

LEMMA DocumentSearchSound ==
  ASSUME GraphInv, DocumentSearchTool
  PROVE  GraphInv'
  <1>1. node = "document_search_tool" /\ channels \in Channels /\ round \in Nat /\ round # 0
    BY DEF DocumentSearchTool, GraphInv, GraphTyped
  <1>2. channels.outcome = None /\ (~cut => channels.answer = 0 /\ channels.selection = 0 /\ channels.web = 0)
    BY <1>1 DEF GraphInv, OutcomeThere, NothingLeft, Inner
  <1>3. /\ Books(spent') /\ \A t \in Tools : spent'.active[t] = 0
        /\ \/ Write(BudgetFailure(DocumentSearch)) \/ Write(Failure(DocumentSearch))
           \/ \E status \in {"ready", "no_hits", "no_context"} :
                 Write([channels EXCEPT !.docs = [status |-> status, round |-> round],
                                        !.stage = "searching", !.decision = "select"])
    BY SearchBooks DEF DocumentSearchTool, Search, GraphInv, Tools
  <1>4. CASE Write(BudgetFailure(DocumentSearch)) \/ Write(Failure(DocumentSearch))
    BY <1>1, <1>3, <1>4, FailureSound DEF Inner
  <1>5. ASSUME NEW status \in {"ready", "no_hits", "no_context"},
               Write([channels EXCEPT !.docs = [status |-> status, round |-> round],
                                      !.stage = "searching", !.decision = "select"])
        PROVE  GraphInv'
    <2> DEFINE u == [channels EXCEPT !.docs = [status |-> status, round |-> round],
                                     !.stage = "searching", !.decision = "select"]
    <2>1. u \in Channels
      BY <1>1 DEF Channels
    <2>2. /\ u.decision = "select" /\ u.outcome = None /\ u.answer = channels.answer
          /\ u.docs.round = round /\ u.docs # NoDocs
          /\ u.selection = channels.selection /\ u.web = channels.web
      BY <1>1, <1>2 DEF Channels, NoDocs
    <2> HIDE DEF u
    <2>3. node' = "evaluate_local_evidence" /\ channels' = u /\ round' = round /\ cut' = cut
      BY <1>1, <1>5, <2>1, WriteGoes DEF u
    <2>4. OutcomeThere' /\ (~cut => NothingLeft')
      BY <1>2, <2>2, <2>3 DEF OutcomeThere, NothingLeft, Inner, None
    <2> QED
      BY <1>1, <1>3, <1>5, <2>1, <2>3, <2>4, NodeSound DEF GraphNodes, Inner, u
  <1> QED
    BY <1>3, <1>4, <1>5

LEMMA EvaluateSound ==
  ASSUME GraphInv, EvaluateLocalEvidence
  PROVE  GraphInv'
  <1>1. /\ node = "evaluate_local_evidence" /\ channels \in Channels /\ round \in Nat /\ round # 0
        /\ node \in GraphNodes \ {"idle", "end", "raised"}
    BY DEF EvaluateLocalEvidence, GraphInv, GraphTyped
  <1>2. OutcomeThere /\ (~cut => NothingLeft)
    BY DEF GraphInv
  <1>3. Books(spent') /\ \A t \in Tools : spent'.active[t] = 0
    BY DEF EvaluateLocalEvidence, GraphInv
  <1>4. ASSUME NEW u \in Channels, Write(u), ~HasFailed,
               u.decision \in {"select", "synthesize", "web", "clarify", "insufficient"},
               u.outcome = IF u.decision = "insufficient" THEN "insufficient" ELSE None,
               u.selection = channels.selection, u.web = channels.web, u.docs = channels.docs,
               u.answer = channels.answer
        PROVE  GraphInv'
    <2>1. /\ channels' = u /\ round' = round /\ cut' = cut
          /\ node' = CASE u.decision = "select" -> "choose_selection_strategy"
                       [] u.decision = "synthesize" -> "synthesize"
                       [] u.decision = "web" -> "web_search_tool"
                       [] u.decision = "clarify" -> "needs_clarification"
                       [] u.decision = "insufficient" -> "completed"
      BY <1>1, <1>4, WriteGoes
    <2>2. channels.docs.round = round
      BY <1>1, <1>2, <1>4 DEF OutcomeThere, HasFailed
    <2>3. OutcomeThere'
      BY <1>1, <1>2, <1>4, <2>1, <2>2 DEF OutcomeThere, Inner, None
    <2>4. ~cut => NothingLeft'
      BY <1>1, <1>2, <1>4, <2>1 DEF NothingLeft, Inner, None
    <2>5. node' \in GraphNodes \ {"idle"}
      BY <1>4, <2>1 DEF GraphNodes, Inner
    <2> QED
      BY <1>1, <1>3, <1>4, <2>3, <2>4, <2>5, NodeSound
  <1>5. CASE HasFailed /\ Write(channels)
    <2>1. /\ channels' = channels /\ round' = round /\ cut' = cut /\ node' = "failed"
          /\ channels.outcome \in {"failed", "budget_exhausted"}
      BY <1>1, <1>2, <1>5, WriteGoes DEF OutcomeThere, HasFailed, None
    <2>2. OutcomeThere' /\ (~cut => NothingLeft')
      BY <1>1, <1>2, <2>1 DEF OutcomeThere, NothingLeft, Inner, None
    <2> QED
      BY <1>1, <1>3, <1>5, <2>1, <2>2, NodeSound DEF GraphNodes
  <1>6. CASE Write(Failure("evaluate"))
    BY <1>1, <1>3, <1>6, FailureSound
  <1>7. CASE ~HasFailed /\ Write([channels EXCEPT !.clarification = round, !.stage = "evaluating",
                                                  !.decision = "clarify"])
    <2> DEFINE u == [channels EXCEPT !.clarification = round, !.stage = "evaluating",
                                     !.decision = "clarify"]
    <2>1. /\ u \in Channels /\ u.decision = "clarify" /\ u.outcome = channels.outcome
          /\ u.selection = channels.selection /\ u.web = channels.web
          /\ u.docs = channels.docs /\ u.answer = channels.answer
      BY <1>1 DEF Channels
    <2>2. channels.outcome = None
      BY <1>1, <1>2, <1>7 DEF OutcomeThere, HasFailed
    <2> HIDE DEF u
    <2> QED
      BY <1>4, <1>7, <2>1, <2>2 DEF u
  <1>8. ASSUME ~HasFailed, NEW decision \in {"select", "synthesize", "web", "insufficient"},
               Write([channels EXCEPT !.stage = "evaluating", !.decision = decision,
                                      !.outcome = IF decision = "insufficient" THEN "insufficient"
                                                  ELSE None])
        PROVE  GraphInv'
    <2> DEFINE u == [channels EXCEPT !.stage = "evaluating", !.decision = decision,
                                     !.outcome = IF decision = "insufficient" THEN "insufficient"
                                                 ELSE None]
    <2>1. /\ u \in Channels /\ u.decision = decision
          /\ u.outcome = IF decision = "insufficient" THEN "insufficient" ELSE None
          /\ u.selection = channels.selection /\ u.web = channels.web
          /\ u.docs = channels.docs /\ u.answer = channels.answer
      BY <1>1 DEF Channels, Outcomes
    <2> HIDE DEF u
    <2> QED
      BY <1>4, <1>8, <2>1 DEF u
  <1>9. \/ HasFailed /\ Write(channels)
        \/ Write(Failure("evaluate"))
        \/ ~HasFailed /\ Write([channels EXCEPT !.clarification = round, !.stage = "evaluating",
                                                !.decision = "clarify"])
        \/ /\ ~HasFailed
           /\ \E decision \in {"select", "synthesize", "web", "insufficient"} :
                 Write([channels EXCEPT !.stage = "evaluating", !.decision = decision,
                                        !.outcome = IF decision = "insufficient" THEN "insufficient"
                                                    ELSE None])
    BY DEF EvaluateLocalEvidence, Routes, Routed, None
  <1> QED
    BY <1>5, <1>6, <1>7, <1>8, <1>9

LEMMA ChooseSound ==
  ASSUME GraphInv, ChooseSelectionStrategy
  PROVE  GraphInv'
  <1>1. /\ node = "choose_selection_strategy" /\ channels \in Channels /\ round # 0
        /\ node \in Inner /\ node \in GraphNodes \ {"idle", "end", "raised"}
    BY DEF ChooseSelectionStrategy, GraphInv, GraphTyped, Inner
  <1>2. OutcomeThere /\ (~cut => NothingLeft)
    BY DEF GraphInv
  <1>3. Books(spent') /\ \A t \in Tools : spent'.active[t] = 0
    BY DEF ChooseSelectionStrategy, GraphInv
  <1>4. CASE Write(Failure("strategy"))
    BY <1>1, <1>3, <1>4, FailureSound
  <1>5. ASSUME NEW strategy \in {"concept", "paragraph"},
               Write([channels EXCEPT !.strategy = strategy, !.stage = "selecting",
                                      !.decision = "synthesize"])
        PROVE  GraphInv'
    <2> DEFINE u == [channels EXCEPT !.strategy = strategy, !.stage = "selecting",
                                     !.decision = "synthesize"]
    <2>1. /\ u \in Channels /\ u.outcome = channels.outcome /\ u.docs = channels.docs
          /\ u.selection = channels.selection /\ u.web = channels.web /\ u.answer = channels.answer
      BY <1>1 DEF Channels
    <2> HIDE DEF u
    <2>2. channels' = u /\ round' = round /\ cut' = cut /\ node' = "select_evidence"
      BY <1>1, <1>5, <2>1, WriteGoes DEF u
    <2>3. OutcomeThere' /\ (~cut => NothingLeft')
      BY <1>1, <1>2, <2>1, <2>2 DEF OutcomeThere, NothingLeft, Inner, None
    <2> QED
      BY <1>1, <1>3, <1>5, <2>1, <2>2, <2>3, NodeSound DEF GraphNodes, Inner, u
  <1> QED
    BY <1>4, <1>5 DEF ChooseSelectionStrategy

\* What the nodes after the evaluation write is of this round.
LEMMA OnwardSound ==
  ASSUME GraphInv, node \in {"select_evidence", "web_search_tool", "synthesize"},
         NEW u \in Channels, Write(u),
         \/ u.decision = "insufficient" /\ u.outcome = "insufficient"
         \/ u.decision \in {"web", "select", "synthesize"} /\ u.outcome \in {None, channels.outcome},
         u.decision \in {"web", "select"} => node = "select_evidence",
         u.decision = "synthesize" => node # "synthesize",
         {u.selection, u.web} \subseteq {0, round, channels.selection, channels.web},
         u.answer = channels.answer,
         Books(spent'), \A t \in Tools : spent'.active[t] = 0
  PROVE  GraphInv'
  <1>1. channels \in Channels /\ node \in GraphNodes \ {"idle", "end", "raised"}
    BY DEF GraphInv, GraphTyped, Inner, GraphNodes
  <1>2. OutcomeThere /\ (~cut => NothingLeft)
    BY DEF GraphInv
  <1>3. /\ channels' = u /\ round' = round /\ cut' = cut
        /\ node' = CASE u.decision = "insufficient" -> "completed"
                     [] u.decision = "web" -> "web_search_tool"
                     [] u.decision = "select" -> "raised"
                     [] u.decision = "synthesize" -> "synthesize"
    BY WriteGoes
  <1>4. channels.outcome \in {None, "failed"}
    BY <1>2 DEF OutcomeThere, Inner
  <1>5. OutcomeThere'
    BY <1>3, <1>4 DEF OutcomeThere, Inner, None
  <1>6. ~cut => channels.answer = 0 /\ {channels.selection, channels.web} \subseteq {0, round}
    BY <1>2 DEF NothingLeft, Inner
  <1>7. ~cut => NothingLeft'
    BY <1>3, <1>6 DEF NothingLeft, Inner, None
  <1>8. node' \in GraphNodes \ {"idle"}
    BY <1>3 DEF GraphNodes, Inner
  <1> QED
    BY <1>1, <1>5, <1>7, <1>8, NodeSound

LEMMA SelectSound ==
  ASSUME GraphInv, SelectEvidence
  PROVE  GraphInv'
  <1>1. /\ node = "select_evidence" /\ channels \in Channels /\ node \in Inner
        /\ channels.docs.round = round /\ round \in Nat
    BY DEF SelectEvidence, GraphInv, GraphTyped, OutcomeThere, Inner
  <1>2. Books(spent') /\ \A t \in Tools : spent'.active[t] = 0
    BY DEF SelectEvidence, GraphInv
  <1>3. CASE Write(Failure("selection"))
    BY <1>1, <1>2, <1>3, FailureSound
  <1>4. ASSUME NEW selection \in {0, round}, NEW decision \in {"web", "select", "synthesize", "insufficient"},
               NEW ended \in {None, "insufficient", channels.outcome},
               decision = "insufficient" => ended = "insufficient",
               decision # "insufficient" => ended \in {None, channels.outcome},
               Write([channels EXCEPT !.selection = selection, !.stage = "selecting",
                                      !.decision = decision, !.outcome = ended])
        PROVE  GraphInv'
    <2> DEFINE u == [channels EXCEPT !.selection = selection, !.stage = "selecting",
                                     !.decision = decision, !.outcome = ended]
    <2>1. /\ u \in Channels /\ u.decision = decision /\ u.outcome = ended
          /\ u.selection = selection /\ u.web = channels.web /\ u.answer = channels.answer
      <3>1. selection \in Nat /\ ended \in Outcomes
        BY <1>1 DEF Channels, Outcomes
      <3>2. u \in Channels
        BY <1>1, <3>1 DEF Channels
      <3> QED
        BY <1>1, <3>2 DEF Channels
    <2> HIDE DEF u
    <2> QED
      BY <1>1, <1>2, <1>4, <2>1, OnwardSound DEF u
  <1>5. \/ Write(Failure("selection"))
        \/ \E selection \in {0, round}, decision \in {"web", "select", "synthesize", "insufficient"},
              ended \in {None, "insufficient", channels.outcome} :
              /\ decision = "insufficient" => ended = "insufficient"
              /\ decision # "insufficient" => ended \in {None, channels.outcome}
              /\ Write([channels EXCEPT !.selection = selection, !.stage = "selecting",
                                        !.decision = decision, !.outcome = ended])
    <2>1. CASE Write(Failure("selection"))
      BY <2>1
    <2>2. CASE Write([channels EXCEPT
                        !.selection = 0, !.stage = "selecting",
                        !.decision = IF deps.web THEN "web" ELSE "insufficient",
                        !.outcome = IF (IF deps.web THEN "web" ELSE "insufficient") = "insufficient"
                                    THEN "insufficient" ELSE None])
      <3>1. CASE deps.web
        BY <2>2, <3>1
      <3>2. CASE ~deps.web
        BY <2>2, <3>2
      <3> QED
        BY <3>1, <3>2
    <2>3. ASSUME NEW route \in Routes("selection"),
                 Write([channels EXCEPT
                         !.selection = channels.docs.round, !.stage = "selecting",
                         !.decision = Routed("synthesize", route),
                         !.outcome = IF route = None THEN @ ELSE None])
          PROVE  \E decision \in {"web", "select", "synthesize", "insufficient"},
                    ended \in {None, "insufficient", channels.outcome} :
                    /\ decision = "insufficient" => ended = "insufficient"
                    /\ decision # "insufficient" => ended \in {None, channels.outcome}
                    /\ Write([channels EXCEPT !.selection = round, !.stage = "selecting",
                                              !.decision = decision, !.outcome = ended])
      <3> DEFINE decision == Routed("synthesize", route)
                 ended == IF route = None THEN channels.outcome ELSE None
      <3>1. decision \in {"web", "synthesize", "select"}
        BY DEF Routes, Routed, None
      <3>2. ended \in {None, channels.outcome}
        OBVIOUS
      <3>3. Write([channels EXCEPT !.selection = round, !.stage = "selecting",
                                   !.decision = decision, !.outcome = ended])
        BY <1>1, <2>3
      <3> HIDE DEF decision, ended
      <3> QED
        BY <3>1, <3>2, <3>3
    <2> QED
      BY <2>1, <2>2, <2>3 DEF SelectEvidence
  <1> QED
    BY <1>3, <1>4, <1>5

LEMMA WebSearchSound ==
  ASSUME GraphInv, WebSearchTool
  PROVE  GraphInv'
  <1>1. node = "web_search_tool" /\ channels \in Channels /\ node \in Inner /\ round \in Nat
    BY DEF WebSearchTool, GraphInv, GraphTyped, Inner
  <1>2. /\ Books(spent') /\ \A t \in Tools : spent'.active[t] = 0
        /\ \/ Write(Insufficient) \/ Write(BudgetFailure(WebSearch)) \/ Write(Failure(WebSearch))
           \/ Write([channels EXCEPT !.web = 0, !.stage = "web_searching", !.decision = "synthesize"])
           \/ \E route \in Routes("web") :
                 Write([channels EXCEPT !.web = round, !.stage = "web_searching",
                                        !.decision = Routed("synthesize", route)])
    <2>1. CASE deps.web
      BY <2>1, SearchBooks DEF WebSearchTool, Search, GraphInv, Tools
    <2>2. CASE ~deps.web
      BY <2>2 DEF WebSearchTool, GraphInv
    <2> QED
      BY <2>1, <2>2
  <1>3. CASE Write(BudgetFailure(WebSearch)) \/ Write(Failure(WebSearch))
    BY <1>1, <1>2, <1>3, FailureSound
  <1>4. CASE Write(Insufficient)
    <2>1. /\ Insufficient \in Channels /\ Insufficient.decision = "insufficient"
          /\ Insufficient.outcome = "insufficient" /\ Insufficient.answer = channels.answer
          /\ Insufficient.selection = channels.selection /\ Insufficient.web = channels.web
      BY <1>1 DEF Insufficient, Channels, Outcomes
    <2> QED
      BY <1>1, <1>2, <1>4, <2>1, OnwardSound
  <1>5. ASSUME NEW web \in {0, round},
               Write([channels EXCEPT !.web = web, !.stage = "web_searching",
                                      !.decision = "synthesize"])
        PROVE  GraphInv'
    <2> DEFINE u == [channels EXCEPT !.web = web, !.stage = "web_searching",
                                     !.decision = "synthesize"]
    <2>1. /\ u \in Channels /\ u.decision = "synthesize" /\ u.outcome = channels.outcome
          /\ u.selection = channels.selection /\ u.web = web /\ u.answer = channels.answer
      <3>1. web \in Nat
        BY <1>1
      <3>2. u \in Channels
        BY <1>1, <3>1 DEF Channels
      <3> QED
        BY <1>1, <3>2 DEF Channels
    <2> HIDE DEF u
    <2> QED
      BY <1>1, <1>2, <1>5, <2>1, OnwardSound DEF u
  <1>6. \A route \in Routes("web") : Routed("synthesize", route) = "synthesize"
    BY DEF Routes, Routed, None
  <1> QED
    BY <1>2, <1>3, <1>4, <1>5, <1>6

LEMMA NeedsSound ==
  ASSUME GraphInv, NeedsClarification
  PROVE  GraphInv'
  <1>1. /\ node = "needs_clarification" /\ channels \in Channels /\ node \in Inner
        /\ node \in GraphNodes \ {"idle", "end", "raised"}
    BY DEF NeedsClarification, GraphInv, GraphTyped, Inner
  <1>2. Books(spent') /\ \A t \in Tools : spent'.active[t] = 0
    BY DEF NeedsClarification, GraphInv
  <1>3. CASE channels.clarification = 0
    BY <1>1, <1>2, <1>3, FailureSound DEF NeedsClarification
  <1>4. CASE channels.clarification # 0
    <2> DEFINE u == [channels EXCEPT !.stage = "waiting", !.outcome = "needs_clarification",
                                     !.decision = "complete"]
    <2>1. Write(u) /\ OutcomeThere /\ (~cut => NothingLeft)
      BY <1>4 DEF NeedsClarification, GraphInv
    <2>2. /\ u \in Channels /\ u.outcome = "needs_clarification"
          /\ u.clarification = channels.clarification /\ channels.clarification \in Nat
          /\ u.selection = channels.selection /\ u.web = channels.web /\ u.answer = channels.answer
      BY <1>1 DEF Channels, Outcomes
    <2> HIDE DEF u
    <2>3. channels' = u /\ round' = round /\ cut' = cut /\ node' = "completed"
      BY <1>1, <2>1, <2>2, WriteGoes
    <2>4. OutcomeThere' /\ (~cut => NothingLeft')
      BY <1>1, <1>4, <2>1, <2>2, <2>3 DEF OutcomeThere, NothingLeft, Inner, None
    <2> QED
      BY <1>1, <1>2, <2>1, <2>2, <2>3, <2>4, NodeSound DEF GraphNodes
  <1> QED
    BY <1>3, <1>4

LEMMA SynthesizeSound ==
  ASSUME GraphInv, SynthesizeAnswer
  PROVE  GraphInv'
  <1>1. /\ node = "synthesize" /\ channels \in Channels /\ node \in Inner /\ round \in Nat
        /\ node \in GraphNodes \ {"idle", "end", "raised"}
    BY DEF SynthesizeAnswer, GraphInv, GraphTyped, Inner
  <1>2. Books(spent') /\ \A t \in Tools : spent'.active[t] = 0
    BY DEF SynthesizeAnswer, GraphInv
  <1>3. CASE Write(Failure("synthesis"))
    BY <1>1, <1>2, <1>3, FailureSound
  <1>4. CASE Write(Insufficient)
    <2>1. /\ Insufficient \in Channels /\ Insufficient.decision = "insufficient"
          /\ Insufficient.outcome = "insufficient" /\ Insufficient.answer = channels.answer
          /\ Insufficient.selection = channels.selection /\ Insufficient.web = channels.web
      BY <1>1 DEF Insufficient, Channels, Outcomes
    <2> QED
      BY <1>1, <1>2, <1>4, <2>1, OnwardSound
  <1>5. ASSUME NEW cites \in {"inside", "outside"},
               Write([channels EXCEPT !.ledger = Ledger, !.synthesis = cites, !.answer = round,
                                      !.stage = "synthesizing", !.decision = "validate"])
        PROVE  GraphInv'
    <2> DEFINE u == [channels EXCEPT !.ledger = Ledger, !.synthesis = cites, !.answer = round,
                                     !.stage = "synthesizing", !.decision = "validate"]
    <2>1. OutcomeThere /\ (~cut => NothingLeft)
      BY DEF GraphInv
    <2>2. Ledger \in SUBSET Nat /\ (~cut => Ledger \subseteq {round})
      <3>1. channels.selection \in Nat /\ channels.web \in Nat
        BY <1>1 DEF Channels
      <3>2. ~cut => {channels.selection, channels.web} \subseteq {0, round}
        BY <1>1, <2>1 DEF NothingLeft
      <3> QED
        BY <3>1, <3>2 DEF Ledger
    <2>3. /\ u \in Channels /\ u.decision = "validate" /\ u.outcome = channels.outcome
          /\ u.ledger = Ledger /\ u.answer = round
      BY <1>1, <2>2 DEF Channels
    <2> HIDE DEF u
    <2>4. channels' = u /\ round' = round /\ cut' = cut /\ node' = "validate_answer"
      BY <1>1, <1>5, <2>3, WriteGoes DEF u
    <2>5. OutcomeThere' /\ (~cut => NothingLeft')
      BY <1>1, <2>1, <2>2, <2>3, <2>4 DEF OutcomeThere, NothingLeft, Inner, None
    <2> QED
      BY <1>1, <1>2, <1>5, <2>3, <2>4, <2>5, NodeSound DEF GraphNodes, Inner, u
  <1> QED
    BY <1>3, <1>4, <1>5 DEF SynthesizeAnswer

LEMMA ValidateSound ==
  ASSUME GraphInv, ValidateAnswer
  PROVE  GraphInv'
  <1>1. /\ node = "validate_answer" /\ channels \in Channels /\ node \in Inner
        /\ node \in GraphNodes \ {"idle", "end", "raised"}
    BY DEF ValidateAnswer, GraphInv, GraphTyped, Inner
  <1>2. Books(spent') /\ \A t \in Tools : spent'.active[t] = 0
    BY DEF ValidateAnswer, GraphInv
  <1>3. CASE channels.synthesis # "inside"
    BY <1>1, <1>2, <1>3, FailureSound DEF ValidateAnswer
  <1>4. CASE channels.synthesis = "inside"
    <2> DEFINE u == [channels EXCEPT !.decision = "complete", !.outcome = "answered"]
    <2>1. Write(u) /\ OutcomeThere /\ (~cut => NothingLeft)
      BY <1>4 DEF ValidateAnswer, GraphInv
    <2>2. /\ u \in Channels /\ u.decision = "complete" /\ u.outcome = "answered"
          /\ u.answer = channels.answer /\ u.synthesis = "inside" /\ u.ledger = channels.ledger
      BY <1>1, <1>4 DEF Channels, Outcomes
    <2> HIDE DEF u
    <2>3. channels' = u /\ round' = round /\ cut' = cut /\ node' = "completed"
      BY <1>1, <2>1, <2>2, WriteGoes
    <2>4. OutcomeThere' /\ (~cut => NothingLeft')
      BY <1>1, <2>1, <2>2, <2>3 DEF OutcomeThere, NothingLeft, Inner, None
    <2> QED
      BY <1>1, <1>2, <2>1, <2>2, <2>3, <2>4, NodeSound DEF GraphNodes
  <1> QED
    BY <1>3, <1>4

LEMMA CompletedSound ==
  ASSUME GraphInv, Completed
  PROVE  GraphInv'
  <1>1. /\ node = "completed" /\ channels \in Channels /\ node \in GraphNodes \ {"idle", "end", "raised"}
    BY DEF Completed, GraphInv, GraphTyped
  <1>2. Books(spent') /\ \A t \in Tools : spent'.active[t] = 0
    BY DEF Completed, GraphInv
  <1> DEFINE ended == IF channels.outcome = None THEN "insufficient" ELSE channels.outcome
             u == [channels EXCEPT !.outcome = ended,
                                   !.stage = IF ended = "needs_clarification" THEN "waiting"
                                             ELSE "completed"]
  <1>3. Write(u) /\ OutcomeThere /\ (~cut => NothingLeft)
    BY DEF Completed, GraphInv
  <1>4. ended \in Outcomes
    BY <1>1 DEF Channels, Outcomes
  <1>5. /\ u \in Channels /\ u.outcome = ended /\ u.answer = channels.answer
        /\ u.synthesis = channels.synthesis /\ u.ledger = channels.ledger
        /\ u.selection = channels.selection /\ u.web = channels.web
        /\ u.clarification = channels.clarification
    <2> HIDE DEF ended
    <2> QED
      BY <1>1, <1>4 DEF Channels
  <1> HIDE DEF u
  <1>6. channels' = u /\ round' = round /\ cut' = cut /\ node' = "end"
    BY <1>1, <1>3, <1>5, WriteGoes
  <1>7. OutcomeThere'
    BY <1>1, <1>3, <1>5, <1>6 DEF OutcomeThere, Inner, None
  <1>8. ~cut => NothingLeft'
    BY <1>1, <1>3, <1>5, <1>6 DEF NothingLeft, Inner, None
  <1> QED
    BY <1>1, <1>2, <1>3, <1>5, <1>6, <1>7, <1>8, NodeSound DEF GraphNodes

LEMMA FailedSound ==
  ASSUME GraphInv, Failed
  PROVE  GraphInv'
  <1>1. /\ node = "failed" /\ channels \in Channels /\ node \in GraphNodes \ {"idle", "end", "raised"}
        /\ channels.outcome \in {"failed", "budget_exhausted"}
    BY DEF Failed, GraphInv, GraphTyped, OutcomeThere
  <1>2. Books(spent') /\ \A t \in Tools : spent'.active[t] = 0
    BY DEF Failed, GraphInv
  <1> DEFINE u == [channels EXCEPT !.stage = "failed",
                                   !.outcome = IF @ \in {"budget_exhausted", "failed"} THEN @
                                               ELSE "failed"]
  <1>3. Write(u) /\ OutcomeThere /\ (~cut => NothingLeft)
    BY DEF Failed, GraphInv
  <1>4. u = [channels EXCEPT !.stage = "failed"]
    BY <1>1 DEF Channels
  <1>5. /\ u \in Channels /\ u.outcome = channels.outcome /\ u.answer = channels.answer
    BY <1>1, <1>4 DEF Channels
  <1> HIDE DEF u
  <1>6. channels' = u /\ round' = round /\ cut' = cut /\ node' = "end"
    BY <1>1, <1>3, <1>5, WriteGoes
  <1>7. OutcomeThere' /\ (~cut => NothingLeft')
    BY <1>1, <1>3, <1>5, <1>6 DEF OutcomeThere, NothingLeft, Inner, None
  <1> QED
    BY <1>1, <1>2, <1>3, <1>5, <1>6, <1>7, NodeSound DEF GraphNodes

\* Between the rounds, and what ends one.
LEMMA RoundsSound ==
  ASSUME GraphInv, PolicyRaises \/ Ask \/ Resume
  PROVE  GraphInv'
  <1>1. GraphTyped /\ OutcomeThere /\ (~cut => NothingLeft) /\ ResultKept
    BY DEF GraphInv
  <1>2. UNCHANGED <<channels, spent, waiting, cut, answer>> /\ round \in Nat
    BY <1>1 DEF PolicyRaises, Throw, Ask, Resume, GraphTyped
  <1>3. CASE PolicyRaises
    <2>1. node # "idle" /\ node' = "raised" /\ round' = round
      BY <1>3 DEF PolicyRaises, Throw
    <2>2. ResultKept'
      BY <1>2, <2>1, ResultStays
    <2> QED
      BY <1>1, <1>2, <2>1, <2>2
         DEF GraphInv, GraphTyped, OutcomeThere, NothingLeft, GraphNodes, Inner
  <1>4. CASE Ask \/ Resume
    <2>1. /\ node = "idle" /\ node' = "receive_question" /\ round' = round + 1
          /\ waiting \/ round = 0
      BY <1>2, <1>4 DEF Ask, Resume
    <2>2. answer.outcome # "answered"
      BY <1>1, <2>1 DEF ResultKept
    <2>3. ResultKept'
      BY <1>1, <1>2, <2>2 DEF ResultKept
    <2>4. GraphTyped'
      BY <1>1, <1>2, <2>1 DEF GraphTyped, GraphNodes
    <2>5. OutcomeThere' /\ (~cut => NothingLeft')
      BY <1>1, <1>2, <2>1 DEF OutcomeThere, NothingLeft, Inner
    <2> QED
      BY <1>2, <2>3, <2>4, <2>5 DEF GraphInv
  <1> QED
    BY <1>3, <1>4

LEMMA ReturnSound ==
  ASSUME GraphInv, Return
  PROVE  GraphInv'
  <1>1. GraphTyped /\ OutcomeThere /\ (~cut => NothingLeft) /\ ResultKept
    BY DEF GraphInv
  <1>2. /\ node = "end" /\ node' = "idle" /\ UNCHANGED <<channels, spent, round, cut>>
        /\ answer'.outcome = channels.outcome /\ answer'.answer = channels.answer
        /\ answer'.clarification = channels.clarification
        /\ waiting' = (channels.outcome = "needs_clarification" /\ channels.clarification > 0)
    BY DEF Return, Waits
  <1>3. /\ channels.answer \in Nat /\ channels.clarification \in Nat /\ round \in Nat /\ round # 0
    BY <1>1, <1>2 DEF GraphTyped, Channels
  <1>4. GraphTyped'
    BY <1>1, <1>2, <1>3 DEF GraphTyped, GraphNodes
  <1>5. OutcomeThere'
    BY <1>1, <1>2 DEF OutcomeThere, Inner
  <1>6. ~cut => NothingLeft'
    BY <1>1, <1>2, <1>3 DEF NothingLeft, OutcomeThere, Inner
  <1>7. ResultKept'
    BY <1>1, <1>2, <1>3 DEF ResultKept, OutcomeThere, NothingLeft
  <1> QED
    BY <1>2, <1>4, <1>5, <1>6, <1>7 DEF GraphInv

LEMMA CutSound ==
  ASSUME GraphInv, ReturnFailed \/ CancelRun
  PROVE  GraphInv'
  <1>1. GraphTyped /\ OutcomeThere /\ ResultKept
    BY DEF GraphInv
  <1>2. /\ node' = "idle" /\ cut' = TRUE /\ UNCHANGED <<channels, round, waiting>>
        /\ answer'.answer = 0 /\ answer'.clarification = 0
        /\ answer'.outcome \in {None, "failed"}
    <2>1. /\ node' = "idle" /\ cut' = TRUE /\ UNCHANGED <<channels, round, waiting>>
          /\ answer' = NoResult \/ answer' = [NoResult EXCEPT !.outcome = "failed", !.stage = "failed"]
      BY DEF ReturnFailed, CancelRun
    <2> DEFINE F == [NoResult EXCEPT !.outcome = "failed", !.stage = "failed"]
    <2>2. /\ NoResult.answer = 0 /\ NoResult.clarification = 0 /\ NoResult.outcome = None
          /\ F.answer = 0 /\ F.clarification = 0 /\ F.outcome = "failed"
      BY DEF NoResult
    <2> HIDE DEF F
    <2>3. answer' = NoResult \/ answer' = F
      BY <2>1 DEF F
    <2>4. /\ answer'.answer = 0 /\ answer'.clarification = 0
          /\ answer'.outcome \in {None, "failed"}
      BY <2>2, <2>3
    <2> QED
      BY <2>1, <2>4
  <1>3. GraphTyped' /\ OutcomeThere'
    <2>1. /\ channels' \in Channels /\ node' \in GraphNodes /\ round' \in Nat /\ waiting' \in BOOLEAN
      BY <1>1, <1>2 DEF GraphTyped, GraphNodes
    <2>2. answer'.answer \in Nat /\ answer'.clarification \in Nat
      BY <1>2
    <2>3. GraphTyped'
      BY <1>2, <2>1, <2>2 DEF GraphTyped
    <2>4. OutcomeThere'
      BY <1>1, <1>2 DEF OutcomeThere, Inner
    <2> QED
      BY <2>3, <2>4
  <1>4. ResultKept'
    BY <1>2 DEF ResultKept, None
  <1>5. Books(spent') /\ \A t \in Tools : spent'.active[t] = 0
    <2>1. CASE ReturnFailed
      BY <2>1 DEF ReturnFailed, GraphInv
    <2>2. CASE CancelRun
      <3>1. \/ spent' = spent
            \/ \E tool \in {DocumentSearch, WebSearch} :
                  CanReserve(spent, tool) /\ spent' = Close(Reserve(spent, tool), tool, "failed")
        BY <2>2 DEF CancelRun
      <3> QED
        BY <3>1, SearchBooks DEF GraphInv, Tools
    <2> QED
      BY <2>1, <2>2
  <1> QED
    BY <1>2, <1>3, <1>4, <1>5 DEF GraphInv

LEMMA GraphInvStep == GraphInv /\ [GraphNext]_graphVars => GraphInv'
  <1> SUFFICES ASSUME GraphInv, [GraphNext]_graphVars PROVE GraphInv'
    OBVIOUS
  <1>1. CASE UNCHANGED graphVars
    BY <1>1 DEF graphVars, GraphInv, GraphTyped, OutcomeThere, NothingLeft, ResultKept
  <1>2. CASE GraphNext
    BY <1>2, ReceiveSound, DocumentSearchSound, EvaluateSound, ChooseSound, SelectSound, WebSearchSound,
       NeedsSound, SynthesizeSound, ValidateSound, CompletedSound, FailedSound, RoundsSound,
       ReturnSound, CutSound
       DEF GraphNext, GraphStep
  <1> QED
    BY <1>1, <1>2

\* Whatever the model and the services answer over any number of rounds: what is answered was
\* validated and rests on what its own round found, unless a round was cut short; a run waits
\* when its result asks, and its budget is exact between any two steps (GraphSound).
THEOREM RoundsAreSound == GraphSpec => []GraphSound
  <1>1. GraphInv => GraphSound
    <2> SUFFICES ASSUME GraphInv PROVE GraphSound
      OBVIOUS
    <2>1. OnlyValidated /\ FreshEvidence
      BY DEF GraphInv, ResultKept, OnlyValidated, FreshEvidence
    <2>2. ~cut /\ node = "idle" => waiting = (answer.outcome = "needs_clarification")
      BY DEF GraphInv, NothingLeft
    <2>3. Sound(spent) /\ Accounted(spent) /\ \A t \in Tools : spent.active[t] = 0
      BY BooksSound DEF GraphInv
    <2> QED
      BY <2>1, <2>2, <2>3 DEF GraphSound, WaitsAsTold
  <1> QED
    BY <1>1, GraphInvInit, GraphInvStep, PTL DEF GraphSpec

-----------------------------------------------------------------------------
(***************************************************************************)
(* AgentTracing                                                            *)
(***************************************************************************)
CallPhases == {"new", "open", "ended", "lost"}
CallRecords == [kind : Kinds, parent : Calls \cup {0}, public : BOOLEAN, phase : CallPhases]
Spans == [status : {"none", "running", "ok", "error"}, parent : Calls \cup {0}]
EventTypes == {"stage_started", "synthesis_started", "tool_started", "tool_completed",
               "tool_unnamed", "answer_delta", "decision"}

TracesTyped ==
    /\ calls \in [Calls -> CallRecords]
    /\ spans \in [Calls \cup {0} -> Spans]
    /\ remotes \in [Calls \cup {0} -> {"none", "open", "ended"}]
    /\ observed \in SUBSET Calls /\ named \in SUBSET Calls
    /\ publicRuns \in SUBSET Calls /\ timed \in SUBSET Calls
    /\ synthesis \in BOOLEAN /\ listening \in BOOLEAN /\ over \in BOOLEAN
    /\ events \in [Calls \cup {0} -> Seq(EventTypes)]

\* What the handlers keep of a call goes with its phase.
CallKept(c) ==
    /\ calls[c].phase = "new" => spans[c] = NoSpan /\ c \notin observed
    /\ calls[c].phase = "ended" => c \notin observed \cup named \cup publicRuns \cup timed
    /\ c \in observed <=> spans[c].status = "running"

\* The client of Langfuse holds what is open here, if anything.
RemoteKept(c) ==
    /\ remotes[c] = "ended" => spans[c].status \in {"ok", "error"}
    /\ remotes[c] = "open" => spans[c].status = "running"

Nested(c) ==
    spans[c].status # "none" =>
        \/ spans[c].parent = 0
        \/ spans[c].parent = calls[c].parent /\ spans[spans[c].parent].status # "none"

SpansInv ==
    /\ \A c \in Calls : CallKept(c) /\ Nested(c)
    /\ \A c \in Calls \cup {0} : RemoteKept(c)
    /\ over => spans[0].status # "running"

\* What a client was told of one call, by its kind. A stream that listens has listened all along.
ToldOfTool(c) ==
    /\ calls[c].phase \in {"open", "lost"} =>
          /\ events[c] = <<"tool_started">> \/ (events[c] = <<>> /\ ~listening)
          /\ c \in named
    /\ calls[c].phase = "ended" =>
          \/ events[c] = <<"tool_started", "tool_completed">>
          \/ events[c] \in {<<>>, <<"tool_started">>} /\ ~listening

ToldOfChain(c) ==
    events[c] = <<>> \/ (events[c] = <<"decision">> /\ calls[c].phase = "ended")

ToldOfModel(c) ==
    /\ \A i \in DOMAIN events[c] : events[c][i] = "answer_delta"
    /\ events[c] # <<>> => calls[c].public /\ "synthesis_started" \in Told(0)
    /\ c \in publicRuns => calls[c].public /\ synthesis

ToldOfCall(c) ==
    /\ calls[c].phase = "new" => events[c] = <<>> /\ c \notin publicRuns
    /\ calls[c].phase # "new" =>
          /\ calls[c].kind = "tool"  => ToldOfTool(c) /\ c \notin publicRuns
          /\ calls[c].kind = "chain" => ToldOfChain(c) /\ c \notin publicRuns
          /\ calls[c].kind = "model" => ToldOfModel(c)

\* What it was told of the run: a stage with its first chain, the synthesis with the first answer.
ToldOfRun ==
    /\ Told(0) \subseteq {"stage_started", "synthesis_started"}
    /\ "stage_started" \in Told(0) => \E d \in Calls : calls[d].kind = "chain" /\ calls[d].phase # "new"
    /\ "synthesis_started" \in Told(0) => synthesis
    /\ synthesis /\ listening => "synthesis_started" \in Told(0)
    /\ OnceEach(0)

EventsInv == ToldOfRun /\ \A c \in Calls : ToldOfCall(c)

TracesInv == TracesTyped /\ SpansInv /\ EventsInv

-----------------------------------------------------------------------------
(* The observations.                                                       *)

LEMMA RootApart == 0 \notin Calls
  BY CallsAssumption

\* Calls begin in turn, as one of a kind, under a caller.
LEMMA BeginIs ==
    ASSUME TracesTyped, SpansInv, NEW c \in Calls, NEW kind \in Kinds, NEW parent \in Calls \cup {0},
           NEW public \in BOOLEAN, Begin(c, kind, parent, public)
    PROVE  /\ calls' \in [Calls -> CallRecords]
           /\ calls'[c] = [kind |-> kind, parent |-> parent, public |-> public, phase |-> "open"]
           /\ \A d \in Calls \ {c} : calls'[d] = calls[d]
           /\ calls[c].phase = "new"
           /\ spans' \in [Calls \cup {0} -> Spans] /\ observed' \in SUBSET Calls
           /\ remotes' \in [Calls \cup {0} -> {"none", "open", "ended"}]
           /\ UNCHANGED <<listening, over>>
  <1>1. ParentOf(parent) \in Calls \cup {0}
    BY DEF ParentOf
  <1>2. NewSpan(ParentOf(parent)) \in Spans
    BY <1>1 DEF NewSpan, Spans
  <1> HIDE DEF NewSpan
  <1> QED
    BY <1>2 DEF Begin, StartSpan, TracesTyped, CallRecords, CallPhases, RemoteStarts

LEMMA BeginSpans ==
    ASSUME TracesTyped, SpansInv, NEW c \in Calls, NEW kind \in Kinds, NEW parent \in Calls \cup {0},
           NEW public \in BOOLEAN, Begin(c, kind, parent, public),
           named' \subseteq named \cup {c}, publicRuns' \subseteq publicRuns \cup {c}, timed' \subseteq timed \cup {c}
    PROVE  SpansInv'
  <1>1. /\ calls'[c] = [kind |-> kind, parent |-> parent, public |-> public, phase |-> "open"]
        /\ \A d \in Calls \ {c} : calls'[d] = calls[d]
        /\ calls[c].phase = "new" /\ UNCHANGED over
    BY BeginIs
  <1>2. /\ observed' = observed \cup {c}
        /\ spans'[c] = [status |-> "running", parent |-> ParentOf(parent)]
        /\ \A d \in Calls \cup {0} : d # c => spans'[d] = spans[d] /\ remotes'[d] = remotes[d]
        /\ remotes'[c] \in {"none", "open"}
    BY DEF Begin, StartSpan, NewSpan, RemoteStarts, TracesTyped
  <1>3. ASSUME NEW d \in Calls PROVE CallKept(d)'
    <2>1. CASE d = c
      BY <1>1, <1>2, <2>1 DEF CallKept
    <2>2. CASE d # c
      BY <1>1, <1>2, <2>2 DEF CallKept, SpansInv
    <2> QED
      BY <2>1, <2>2
  <1>4. ASSUME NEW d \in Calls \cup {0} PROVE spans[d].status # "none" => spans'[d].status # "none"
    BY <1>2
  <1>5. ASSUME NEW d \in Calls PROVE Nested(d)'
    <2>1. CASE d = c
      <3>1. ParentOf(parent) = 0 \/ (ParentOf(parent) = parent /\ parent \in observed)
        BY DEF ParentOf
      <3>2. parent \in observed => spans[parent].status = "running"
        BY DEF SpansInv, CallKept, TracesTyped
      <3>3. parent \in observed => spans'[parent].status # "none"
        BY <1>4, <3>2
      <3> QED
        BY <1>1, <1>2, <2>1, <3>1, <3>3 DEF Nested
    <2>2. CASE d # c
      <3>1. spans'[d] = spans[d] /\ calls'[d] = calls[d] /\ spans[d].parent \in Calls \cup {0}
        BY <1>1, <1>2, <2>2 DEF TracesTyped, Spans
      <3> QED
        BY <1>4, <3>1 DEF Nested, SpansInv
    <2> QED
      BY <2>1, <2>2
  <1>6. ASSUME NEW d \in Calls \cup {0} PROVE RemoteKept(d)'
    BY <1>2 DEF RemoteKept, SpansInv
  <1>7. over' => spans'[0].status # "running"
    BY <1>1, <1>2, RootApart DEF SpansInv
  <1> QED
    BY <1>3, <1>5, <1>6, <1>7 DEF SpansInv

\* A span that is ended keeps its place, and what the client holds of it ends with it.
LEMMA EndSpansIs ==
    ASSUME TracesTyped, SpansInv, NEW cs \in SUBSET (Calls \cup {0}), NEW status \in {"ok", "error"},
           EndSpans(cs, status)
    PROVE  /\ spans' \in [Calls \cup {0} -> Spans]
           /\ remotes' \in [Calls \cup {0} -> {"none", "open", "ended"}]
           /\ \A d \in Calls \cup {0} :
                /\ spans'[d].parent = spans[d].parent
                /\ spans'[d].status = IF d \in cs /\ spans[d].status = "running" THEN status ELSE spans[d].status
                /\ RemoteKept(d)'
           /\ \A d \in Calls : spans[d] = NoSpan => spans'[d] = NoSpan
  <1>1. ASSUME NEW d \in Calls \cup {0}
        PROVE  /\ spans'[d] = IF d \in cs THEN Ended(spans[d], status) ELSE spans[d]
               /\ remotes'[d] = IF d \in cs THEN RemoteEnded(remotes[d], spans[d]) ELSE remotes[d]
               /\ spans[d] \in Spans /\ remotes[d] \in {"none", "open", "ended"}
    BY DEF EndSpans, TracesTyped
  <1>2. DOMAIN spans' = Calls \cup {0} /\ DOMAIN remotes' = Calls \cup {0}
    BY DEF EndSpans, TracesTyped
  <1>3. ASSUME NEW d \in Calls \cup {0}
        PROVE  /\ Ended(spans[d], status) \in Spans
               /\ Ended(spans[d], status).parent = spans[d].parent
               /\ Ended(spans[d], status).status = IF spans[d].status = "running" THEN status ELSE spans[d].status
    BY <1>1 DEF Ended, Spans
  <1>4. spans' \in [Calls \cup {0} -> Spans]
    <2>1. spans' = [d \in Calls \cup {0} |-> spans'[d]]
      BY DEF EndSpans, TracesTyped
    <2> QED
      BY <1>1, <1>3, <2>1
  <1>5. remotes' \in [Calls \cup {0} -> {"none", "open", "ended"}]
    <2>1. remotes' = [d \in Calls \cup {0} |-> remotes'[d]]
      BY DEF EndSpans, TracesTyped
    <2> QED
      BY <1>1, <2>1 DEF RemoteEnded
  <1>6. ASSUME NEW d \in Calls \cup {0}
        PROVE  /\ spans'[d].parent = spans[d].parent
               /\ spans'[d].status = IF d \in cs /\ spans[d].status = "running" THEN status ELSE spans[d].status
               /\ RemoteKept(d)'
    <2>1. /\ spans'[d].parent = spans[d].parent
          /\ spans'[d].status = IF d \in cs /\ spans[d].status = "running" THEN status ELSE spans[d].status
      BY <1>1, <1>3
    <2>2. RemoteKept(d)'
      BY <1>1, <2>1 DEF RemoteKept, SpansInv, RemoteEnded
    <2> QED
      BY <2>1, <2>2
  <1>7. ASSUME NEW d \in Calls, spans[d] = NoSpan PROVE spans'[d] = NoSpan
    <2>1. NoSpan.status = "none"
      BY DEF NoSpan
    <2> QED
      BY <1>1, <1>7, <2>1 DEF Ended
  <1> QED
    BY <1>4, <1>5, <1>6, <1>7

\* When spans end, those that are mapped no more, nothing else about them changes.
LEMMA EndSpansSound ==
    ASSUME TracesTyped, SpansInv, NEW cs \in SUBSET Calls, NEW root \in SUBSET {0}, NEW status \in {"ok", "error"},
           cs \subseteq observed, EndSpans(cs \cup root, status), observed' = observed \ cs,
           \A d \in Calls : calls'[d].parent = calls[d].parent,
           \A d \in Calls : calls[d].phase = "new" <=> calls'[d].phase = "new",
           \A d \in Calls : calls'[d].phase = "ended" =>
              /\ calls[d].phase # "ended" => d \notin observed' \cup named' \cup publicRuns' \cup timed'
              /\ named' \subseteq named /\ publicRuns' \subseteq publicRuns /\ timed' \subseteq timed,
           over' => over \/ root = {0}
    PROVE  SpansInv'
  <1>1. /\ \A d \in Calls \cup {0} :
              /\ spans'[d].parent = spans[d].parent
              /\ spans'[d].status = IF d \in cs \cup root /\ spans[d].status = "running" THEN status ELSE spans[d].status
              /\ RemoteKept(d)'
        /\ \A d \in Calls : spans[d] = NoSpan => spans'[d] = NoSpan
    BY EndSpansIs
  <1>2. ASSUME NEW d \in Calls PROVE CallKept(d)'
    <2>1. d \in cs \cup root <=> d \in cs
      BY RootApart
    <2>2. CallKept(d)
      BY DEF SpansInv
    <2>3. d \in observed' <=> spans'[d].status = "running"
      BY <1>1, <2>1, <2>2 DEF CallKept
    <2>4. calls'[d].phase = "new" => spans'[d] = NoSpan /\ d \notin observed'
      BY <1>1, <2>2 DEF CallKept
    <2>5. calls'[d].phase = "ended" => d \notin observed' \cup named' \cup publicRuns' \cup timed'
      BY <2>2 DEF CallKept
    <2> QED
      BY <2>3, <2>4, <2>5 DEF CallKept
  <1>3. ASSUME NEW d \in Calls PROVE Nested(d)'
    <2>1. spans[d].parent \in Calls \cup {0}
      BY DEF TracesTyped, Spans
    <2>2. \A x \in Calls \cup {0} : spans[x].status # "none" <=> spans'[x].status # "none"
      BY <1>1
    <2>3. Nested(d)
      BY DEF SpansInv
    <2> QED
      BY <1>1, <2>1, <2>2, <2>3 DEF Nested
  <1>4. over' => spans'[0].status # "running"
    BY <1>1 DEF SpansInv
  <1> QED
    BY <1>1, <1>2, <1>3, <1>4 DEF SpansInv

-----------------------------------------------------------------------------
(* What a client is told.                                                  *)

LEMMA ToldIs ==
    ASSUME TracesTyped, NEW c \in Calls \cup {0}
    PROVE  /\ events[c] \in Seq(EventTypes)
           /\ Told(c) = {events[c][i] : i \in DOMAIN events[c]}
           /\ Told(c)' = {events'[c][i] : i \in DOMAIN events'[c]}
           /\ DOMAIN events[c] = 1..Len(events[c]) /\ Len(events[c]) \in Nat
  BY LenProperties DEF TracesTyped, Told, ToSet

\* A published event comes last, if the stream listens.
LEMMA PublishIs ==
    ASSUME TracesTyped, NEW c \in Calls \cup {0}, NEW type \in EventTypes, Publish(c, type)
    PROVE  /\ events' \in [Calls \cup {0} -> Seq(EventTypes)]
           /\ events'[c] = IF listening THEN Append(events[c], type) ELSE events[c]
           /\ \A d \in Calls \cup {0} : d # c => events'[d] = events[d]
           /\ Told(c)' = IF listening THEN Told(c) \cup {type} ELSE Told(c)
  <1>1. events[c] \in Seq(EventTypes) /\ Append(events[c], type) \in Seq(EventTypes)
    BY DEF TracesTyped
  <1>2. /\ events' \in [Calls \cup {0} -> Seq(EventTypes)]
        /\ events'[c] = IF listening THEN Append(events[c], type) ELSE events[c]
        /\ \A d \in Calls \cup {0} : d # c => events'[d] = events[d]
    BY <1>1 DEF Publish, TracesTyped
  <1>3. Told(c)' = IF listening THEN Told(c) \cup {type} ELSE Told(c)
    <2>1. CASE ~listening
      BY <1>2, <2>1 DEF Told
    <2>2. CASE listening
      <3>1. /\ DOMAIN events'[c] = 1..Len(events[c]) + 1
            /\ \A i \in 1..Len(events[c]) : events'[c][i] = events[c][i]
            /\ events'[c][Len(events[c]) + 1] = type
        BY <1>1, <1>2, <2>2, AppendProperties, LenProperties
      <3>2. \A i \in 1..Len(events[c]) + 1 : i \in 1..Len(events[c]) \/ i = Len(events[c]) + 1
        BY ToldIs
      <3>3. \A i \in 1..Len(events[c]) : i \in 1..Len(events[c]) + 1
        BY ToldIs
      <3>4. Len(events[c]) + 1 \in 1..Len(events[c]) + 1
        BY ToldIs
      <3> QED
        BY <2>2, <3>1, <3>2, <3>3, <3>4, ToldIs
    <2> QED
      BY <2>1, <2>2
  <1> QED
    BY <1>2, <1>3

\* What a call was told of stays true while others go on.
LEMMA OtherTold ==
    ASSUME NEW d \in Calls, ToldOfCall(d), calls'[d] = calls[d], events'[d] = events[d],
           d \in named' <=> d \in named, d \in publicRuns' <=> d \in publicRuns,
           listening' => listening, Told(0) \subseteq Told(0)', synthesis => synthesis'
    PROVE  ToldOfCall(d)'
  <1>1. ToldOfTool(d) => ToldOfTool(d)'
    BY DEF ToldOfTool
  <1>2. ToldOfChain(d) => ToldOfChain(d)'
    BY DEF ToldOfChain
  <1>3. ToldOfModel(d) => ToldOfModel(d)'
    BY DEF ToldOfModel
  <1> QED
    BY <1>1, <1>2, <1>3 DEF ToldOfCall

\* So does what was told of the run, when nothing is said of it.
LEMMA RunToldStays ==
    ASSUME TracesTyped, ToldOfRun, events'[0] = events[0], synthesis' = synthesis, listening' => listening,
           \A d \in Calls : calls[d].phase # "new" => calls'[d].phase # "new" /\ calls'[d].kind = calls[d].kind
    PROVE  ToldOfRun' /\ Told(0)' = Told(0)
  <1>1. Told(0)' = Told(0)
    BY DEF Told
  <1>2. OnceEach(0)'
    BY DEF ToldOfRun, OnceEach
  <1>3. "stage_started" \in Told(0)' => \E d \in Calls : calls'[d].kind = "chain" /\ calls'[d].phase # "new"
    BY <1>1 DEF ToldOfRun
  <1> QED
    BY <1>1, <1>2, <1>3 DEF ToldOfRun

\* An event of the run that was not told yet is told once.
LEMMA RunToldOnce ==
    ASSUME TracesTyped, ToldOfRun, NEW type \in {"stage_started", "synthesis_started"}, Publish(0, type),
           type \notin Told(0)
    PROVE  OnceEach(0)' /\ Told(0)' \subseteq {"stage_started", "synthesis_started"}
  <1>1. type \in EventTypes
    BY DEF EventTypes
  <1>2. /\ events'[0] = IF listening THEN Append(events[0], type) ELSE events[0]
        /\ Told(0)' = IF listening THEN Told(0) \cup {type} ELSE Told(0)
    BY <1>1, PublishIs
  <1>3. CASE ~listening
    BY <1>2, <1>3 DEF OnceEach, ToldOfRun
  <1>4. CASE listening
    <2>1. events[0] \in Seq(EventTypes) /\ Len(events[0]) \in Nat /\ DOMAIN events[0] = 1..Len(events[0])
      BY ToldIs
    <2>2. /\ DOMAIN events'[0] = 1..Len(events[0]) + 1
          /\ \A i \in 1..Len(events[0]) : events'[0][i] = events[0][i]
          /\ events'[0][Len(events[0]) + 1] = type
      BY <1>1, <1>2, <1>4, <2>1, AppendProperties, LenProperties
    <2>3. \A i \in 1..Len(events[0]) : events[0][i] # type
      BY <2>1, ToldIs
    <2>4. ASSUME NEW i \in DOMAIN events'[0], NEW j \in DOMAIN events'[0], events'[0][i] = events'[0][j],
                 events'[0][i] # "answer_delta"
          PROVE  i = j
      <3>1. i \in 1..Len(events[0]) \/ i = Len(events[0]) + 1
        BY <2>1, <2>2
      <3>2. j \in 1..Len(events[0]) \/ j = Len(events[0]) + 1
        BY <2>1, <2>2
      <3> QED
        BY <2>1, <2>2, <2>3, <2>4, <3>1, <3>2 DEF ToldOfRun, OnceEach
    <2> QED
      BY <1>2, <2>4 DEF OnceEach, ToldOfRun
  <1> QED
    BY <1>3, <1>4

-----------------------------------------------------------------------------
(* Every callback.                                                         *)

LEMMA ChainStartSound ==
    ASSUME TracesInv, NEW c \in Calls, NEW parent \in Calls \cup {0}, ChainStart(c, parent)
    PROVE  TracesInv'
  <1>1. Begin(c, "chain", parent, FALSE) /\ timed' = timed \cup {c} /\ UNCHANGED <<named, publicRuns, synthesis>>
    BY DEF ChainStart, TimedFrom
  <1>2. /\ calls' \in [Calls -> CallRecords]
        /\ calls'[c] = [kind |-> "chain", parent |-> parent, public |-> FALSE, phase |-> "open"]
        /\ \A d \in Calls \ {c} : calls'[d] = calls[d]
        /\ calls[c].phase = "new"
        /\ spans' \in [Calls \cup {0} -> Spans] /\ observed' \in SUBSET Calls
        /\ remotes' \in [Calls \cup {0} -> {"none", "open", "ended"}]
        /\ UNCHANGED <<listening, over>>
    BY <1>1, BeginIs DEF TracesInv, Kinds
  <1>3. SpansInv'
    BY <1>1, BeginSpans DEF TracesInv, Kinds
  <1>4. /\ events' \in [Calls \cup {0} -> Seq(EventTypes)]
        /\ \A d \in Calls : events'[d] = events[d]
        /\ Told(0) \subseteq Told(0)' /\ ToldOfRun'
    <2>1. CASE \E d \in Calls : calls[d].kind = "chain" /\ calls[d].phase # "new"
      <3>1. UNCHANGED events
        BY <2>1 DEF ChainStart
      <3> QED
        BY <1>1, <1>2, <3>1, RunToldStays DEF TracesInv, TracesTyped, EventsInv
    <2>2. CASE ~ \E d \in Calls : calls[d].kind = "chain" /\ calls[d].phase # "new"
      <3>1. Publish(0, "stage_started") /\ "stage_started" \notin Told(0)
        BY <2>2 DEF ChainStart, TracesInv, EventsInv, ToldOfRun
      <3>2. OnceEach(0)' /\ Told(0)' \subseteq {"stage_started", "synthesis_started"}
        BY <3>1, RunToldOnce DEF TracesInv, EventsInv
      <3>3. /\ events' \in [Calls \cup {0} -> Seq(EventTypes)]
            /\ \A d \in Calls \cup {0} : d # 0 => events'[d] = events[d]
            /\ Told(0)' = IF listening THEN Told(0) \cup {"stage_started"} ELSE Told(0)
        BY <3>1, PublishIs DEF TracesInv, EventTypes
      <3>4. \E d \in Calls : calls'[d].kind = "chain" /\ calls'[d].phase # "new"
        BY <1>2
      <3>5. ToldOfRun
        BY DEF TracesInv, EventsInv
      <3>6. Told(0) \subseteq Told(0)' /\ ("synthesis_started" \in Told(0)' => "synthesis_started" \in Told(0))
        BY <3>3
      <3>7. ToldOfRun'
        BY <1>1, <1>2, <3>2, <3>4, <3>5, <3>6 DEF ToldOfRun
      <3> QED
        BY <3>3, <3>6, <3>7, RootApart
    <2> QED
      BY <2>1, <2>2
  <1>5. ASSUME NEW d \in Calls PROVE ToldOfCall(d)'
    <2>1. CASE d = c
      <3>1. events[c] = <<>> /\ c \notin publicRuns
        BY <1>2 DEF TracesInv, EventsInv, ToldOfCall
      <3> QED
        BY <1>1, <1>2, <1>4, <2>1, <3>1 DEF ToldOfCall, ToldOfChain
    <2>2. CASE d # c
      BY <1>1, <1>2, <1>4, <2>2, OtherTold DEF TracesInv, EventsInv
    <2> QED
      BY <2>1, <2>2
  <1> QED
    BY <1>1, <1>2, <1>3, <1>4, <1>5 DEF TracesInv, TracesTyped, EventsInv

LEMMA ToolStartSound ==
    ASSUME TracesInv, NEW c \in Calls, NEW parent \in Calls \cup {0}, ToolStart(c, parent)
    PROVE  TracesInv'
  <1>1. /\ Begin(c, "tool", parent, FALSE) /\ timed' = timed \cup {c} /\ UNCHANGED <<publicRuns, synthesis>>
        /\ named' = named \cup {c} /\ Publish(c, "tool_started")
    BY DEF ToolStart, TimedFrom
  <1>2. /\ calls' \in [Calls -> CallRecords]
        /\ calls'[c] = [kind |-> "tool", parent |-> parent, public |-> FALSE, phase |-> "open"]
        /\ \A d \in Calls \ {c} : calls'[d] = calls[d]
        /\ calls[c].phase = "new"
        /\ spans' \in [Calls \cup {0} -> Spans] /\ observed' \in SUBSET Calls
        /\ remotes' \in [Calls \cup {0} -> {"none", "open", "ended"}]
        /\ UNCHANGED <<listening, over>>
    BY <1>1, BeginIs DEF TracesInv, Kinds
  <1>3. SpansInv'
    BY <1>1, BeginSpans DEF TracesInv, Kinds
  <1>4. /\ events' \in [Calls \cup {0} -> Seq(EventTypes)]
        /\ events'[c] = IF listening THEN Append(events[c], "tool_started") ELSE events[c]
        /\ \A d \in Calls \cup {0} : d # c => events'[d] = events[d]
    BY <1>1, PublishIs DEF TracesInv, EventTypes
  <1>5. ToldOfRun' /\ Told(0)' = Told(0)
    BY <1>1, <1>2, <1>4, RootApart, RunToldStays DEF TracesInv, EventsInv
  <1>6. ASSUME NEW d \in Calls PROVE ToldOfCall(d)'
    <2>1. CASE d = c
      <3>1. events[c] = <<>> /\ c \notin publicRuns
        BY <1>2 DEF TracesInv, EventsInv, ToldOfCall
      <3>2. events'[c] = <<"tool_started">> \/ (events'[c] = <<>> /\ ~listening)
        BY <1>4, <3>1
      <3> QED
        BY <1>1, <1>2, <2>1, <3>1, <3>2 DEF ToldOfCall, ToldOfTool
    <2>2. CASE d # c
      BY <1>1, <1>2, <1>4, <1>5, <2>2, OtherTold DEF TracesInv, EventsInv
    <2> QED
      BY <2>1, <2>2
  <1> QED
    BY <1>1, <1>2, <1>3, <1>4, <1>5, <1>6 DEF TracesInv, TracesTyped, EventsInv

LEMMA ModelStartSound ==
    ASSUME TracesInv, NEW c \in Calls, NEW parent \in Calls \cup {0}, NEW public \in BOOLEAN,
           ModelStart(c, parent, public)
    PROVE  TracesInv'
  <1>1. /\ Begin(c, "model", parent, public) /\ UNCHANGED <<named, timed>>
        /\ publicRuns' = IF public THEN publicRuns \cup {c} ELSE publicRuns
        /\ synthesis' = (synthesis \/ public)
    BY DEF ModelStart
  <1>2. /\ calls' \in [Calls -> CallRecords]
        /\ calls'[c] = [kind |-> "model", parent |-> parent, public |-> public, phase |-> "open"]
        /\ \A d \in Calls \ {c} : calls'[d] = calls[d]
        /\ calls[c].phase = "new"
        /\ spans' \in [Calls \cup {0} -> Spans] /\ observed' \in SUBSET Calls
        /\ remotes' \in [Calls \cup {0} -> {"none", "open", "ended"}]
        /\ UNCHANGED <<listening, over>>
    BY <1>1, BeginIs DEF TracesInv, Kinds
  <1>3. SpansInv'
    BY <1>1, BeginSpans DEF TracesInv, Kinds
  <1>4. synthesis' \in BOOLEAN /\ publicRuns' \in SUBSET Calls
    BY <1>1 DEF TracesInv, TracesTyped
  <1>5. /\ events' \in [Calls \cup {0} -> Seq(EventTypes)]
        /\ \A d \in Calls : events'[d] = events[d]
        /\ Told(0) \subseteq Told(0)' /\ ToldOfRun'
    <2>1. CASE ~(public /\ ~synthesis)
      <3>1. UNCHANGED events /\ (synthesis' <=> synthesis)
        BY <1>1, <2>1 DEF ModelStart
      <3>2. synthesis' = synthesis
        BY <1>4, <3>1 DEF TracesInv, TracesTyped
      <3> QED
        BY <1>2, <3>1, <3>2, RunToldStays DEF TracesInv, TracesTyped, EventsInv
    <2>2. CASE public /\ ~synthesis
      <3>1. Publish(0, "synthesis_started") /\ "synthesis_started" \notin Told(0) /\ synthesis'
        BY <1>1, <2>2 DEF ModelStart, TracesInv, EventsInv, ToldOfRun
      <3>2. OnceEach(0)' /\ Told(0)' \subseteq {"stage_started", "synthesis_started"}
        BY <3>1, RunToldOnce DEF TracesInv, EventsInv
      <3>3. /\ events' \in [Calls \cup {0} -> Seq(EventTypes)]
            /\ \A d \in Calls \cup {0} : d # 0 => events'[d] = events[d]
            /\ Told(0)' = IF listening THEN Told(0) \cup {"synthesis_started"} ELSE Told(0)
        BY <3>1, PublishIs DEF TracesInv, EventTypes
      <3>4. "stage_started" \in Told(0) => \E d \in Calls : calls'[d].kind = "chain" /\ calls'[d].phase # "new"
        <4>1. SUFFICES ASSUME "stage_started" \in Told(0)
                       PROVE  \E d \in Calls : calls'[d].kind = "chain" /\ calls'[d].phase # "new"
          OBVIOUS
        <4>2. PICK d \in Calls : calls[d].kind = "chain" /\ calls[d].phase # "new"
          BY <4>1 DEF TracesInv, EventsInv, ToldOfRun
        <4>3. calls'[d] = calls[d]
          BY <1>2, <4>2
        <4> QED
          BY <4>2, <4>3
      <3>5. "stage_started" \in Told(0)' => "stage_started" \in Told(0)
        BY <3>3
      <3> QED
        BY <1>2, <3>1, <3>2, <3>3, <3>4, <3>5, RootApart DEF ToldOfRun
    <2> QED
      BY <2>1, <2>2
  <1>6. ASSUME NEW d \in Calls PROVE ToldOfCall(d)'
    <2>1. CASE d = c
      <3>1. events[c] = <<>> /\ c \notin publicRuns
        BY <1>2 DEF TracesInv, EventsInv, ToldOfCall
      <3>2. c \in publicRuns' => public /\ synthesis'
        BY <1>1, <3>1
      <3> QED
        BY <1>2, <1>5, <2>1, <3>1, <3>2 DEF ToldOfCall, ToldOfModel
    <2>2. CASE d # c
      BY <1>1, <1>2, <1>5, <2>2, OtherTold DEF TracesInv, EventsInv
    <2> QED
      BY <2>1, <2>2
  <1> QED
    BY <1>1, <1>2, <1>3, <1>4, <1>5, <1>6 DEF TracesInv, TracesTyped, EventsInv

\* Only a model whose run is public streams, after the announcement if anybody listens.
LEMMA ModelTokenSound ==
    ASSUME TracesInv, NEW c \in Calls, ModelToken(c)
    PROVE  TracesInv'
  <1>1. /\ calls[c].phase = "open" /\ calls[c].kind = "model" /\ c \in publicRuns /\ Publish(c, "answer_delta")
        /\ UNCHANGED <<calls, spans, remotes, observed, named, publicRuns, synthesis, listening, timed, over>>
    BY DEF ModelToken, Streams
  <1>2. /\ events' \in [Calls \cup {0} -> Seq(EventTypes)]
        /\ events'[c] = IF listening THEN Append(events[c], "answer_delta") ELSE events[c]
        /\ \A d \in Calls \cup {0} : d # c => events'[d] = events[d]
    BY <1>1, PublishIs DEF TracesInv, EventTypes
  <1>3. SpansInv'
    BY <1>1 DEF TracesInv, SpansInv, CallKept, Nested, RemoteKept
  <1>4. ToldOfRun' /\ Told(0)' = Told(0)
    BY <1>1, <1>2, RootApart, RunToldStays DEF TracesInv, EventsInv
  <1>5. ASSUME NEW d \in Calls PROVE ToldOfCall(d)'
    <2>1. CASE d = c
      <3>1. ToldOfModel(c)
        BY <1>1 DEF TracesInv, EventsInv, ToldOfCall
      <3>2. events[c] \in Seq(EventTypes) /\ Len(events[c]) \in Nat /\ DOMAIN events[c] = 1..Len(events[c])
        BY ToldIs DEF TracesInv
      <3>3. \A i \in DOMAIN events'[c] : events'[c][i] = "answer_delta"
        <4>1. CASE ~listening
          BY <1>2, <3>1, <4>1 DEF ToldOfModel
        <4>2. CASE listening
          <5>1. /\ DOMAIN events'[c] = 1..Len(events[c]) + 1
                /\ \A i \in 1..Len(events[c]) : events'[c][i] = events[c][i]
                /\ events'[c][Len(events[c]) + 1] = "answer_delta"
            BY <1>2, <3>2, <4>2, AppendProperties, LenProperties DEF EventTypes
          <5>2. \A i \in 1..Len(events[c]) + 1 : i \in 1..Len(events[c]) \/ i = Len(events[c]) + 1
            BY <3>2
          <5> QED
            BY <3>1, <3>2, <5>1, <5>2 DEF ToldOfModel
        <4> QED
          BY <4>1, <4>2
      <3>4. events'[c] # <<>> => calls'[c].public /\ "synthesis_started" \in Told(0)'
        BY <1>1, <1>2, <1>4, <3>1 DEF ToldOfModel, TracesInv, EventsInv, ToldOfRun
      <3> QED
        BY <1>1, <2>1, <3>1, <3>3, <3>4 DEF ToldOfCall, ToldOfModel
    <2>2. CASE d # c
      BY <1>1, <1>2, <1>4, <2>2, OtherTold DEF TracesInv, EventsInv
    <2> QED
      BY <2>1, <2>2
  <1> QED
    BY <1>1, <1>2, <1>3, <1>4, <1>5 DEF TracesInv, TracesTyped, EventsInv

LEMMA CallLostSound ==
    ASSUME TracesInv, NEW c \in Calls, CallLost(c)
    PROVE  TracesInv'
  <1>1. /\ calls[c].phase = "open" /\ calls' = [calls EXCEPT ![c].phase = "lost"]
        /\ UNCHANGED <<spans, remotes, observed, named, publicRuns, synthesis, events, listening, timed, over>>
    BY DEF CallLost
  <1>2. /\ calls' \in [Calls -> CallRecords] /\ calls'[c] = [calls[c] EXCEPT !.phase = "lost"]
        /\ \A d \in Calls \ {c} : calls'[d] = calls[d]
    BY <1>1 DEF TracesInv, TracesTyped, CallRecords, CallPhases
  <1>3. /\ calls'[c].phase = "lost" /\ calls'[c].kind = calls[c].kind /\ calls'[c].parent = calls[c].parent
        /\ calls'[c].public = calls[c].public
    BY <1>2 DEF TracesInv, TracesTyped, CallRecords
  <1>4. \A d \in Calls : calls'[d].parent = calls[d].parent
    BY <1>2, <1>3
  <1>5. SpansInv'
    <2>1. ASSUME NEW d \in Calls PROVE CallKept(d)' /\ Nested(d)'
      <3>1. CallKept(d)'
        BY <1>1, <1>2, <1>3 DEF TracesInv, SpansInv, CallKept
      <3>2. Nested(d)'
        BY <1>1, <1>4 DEF TracesInv, SpansInv, Nested
      <3> QED
        BY <3>1, <3>2
    <2>2. \A d \in Calls \cup {0} : RemoteKept(d)'
      BY <1>1 DEF TracesInv, SpansInv, RemoteKept
    <2> QED
      BY <1>1, <2>1, <2>2 DEF TracesInv, SpansInv
  <1>6. ToldOfRun' /\ Told(0)' = Told(0)
    BY <1>1, <1>2, <1>3, RunToldStays DEF TracesInv, EventsInv
  <1>7. ASSUME NEW d \in Calls PROVE ToldOfCall(d)'
    <2>1. CASE d = c
      <3>1. ToldOfCall(c)
        BY DEF TracesInv, EventsInv
      <3>2. calls[c].kind = "tool" => ToldOfTool(c)'
        BY <1>1, <1>3, <3>1 DEF ToldOfCall, ToldOfTool
      <3>3. calls[c].kind = "chain" => ToldOfChain(c)'
        BY <1>1, <1>3, <3>1 DEF ToldOfCall, ToldOfChain
      <3>4. calls[c].kind = "model" => ToldOfModel(c)'
        BY <1>1, <1>3, <1>6, <3>1 DEF ToldOfCall, ToldOfModel
      <3> QED
        BY <1>1, <1>3, <2>1, <3>1, <3>2, <3>3, <3>4 DEF ToldOfCall
    <2>2. CASE d # c
      BY <1>1, <1>2, <1>6, <2>2, OtherTold DEF TracesInv, EventsInv
    <2> QED
      BY <2>1, <2>2
  <1> QED
    BY <1>1, <1>2, <1>5, <1>6, <1>7 DEF TracesInv, TracesTyped, EventsInv

(* Appending to a sequence of one element.                                 *)
LEMMA AppendOne ==
  ASSUME NEW S, NEW a \in S, NEW b \in S
  PROVE  Append(<<a>>, b) = <<a, b>>
  <1>1. <<a>> \in Seq(S) /\ <<a, b>> \in Seq(S) /\ Append(<<a>>, b) \in Seq(S)
    OBVIOUS
  <1>2. Len(Append(<<a>>, b)) = 2 /\ Len(<<a, b>>) = 2
    BY <1>1
  <1>3. \A i \in 1 .. 2 : Append(<<a>>, b)[i] = <<a, b>>[i]
    BY <1>1
  <1> QED
    BY <1>1, <1>2, <1>3, SeqEqual

\* The end of a call reaches the observation of its start, and a tool is told to end by its name.
LEMMA CallEndsSound ==
    ASSUME TracesInv, NEW c \in Calls, NEW failed \in BOOLEAN, CallEnds(c, failed)
    PROVE  TracesInv'
  <1> DEFINE status == IF failed THEN "error" ELSE "ok"
  <1>1. /\ calls[c].phase = "open" /\ calls' = [calls EXCEPT ![c].phase = "ended"]
        /\ observed' = observed \ {c} /\ named' = named \ {c} /\ publicRuns' = publicRuns \ {c}
        /\ timed' = timed \ {c} /\ EndSpans({c} \cap observed, status)
        /\ UNCHANGED <<synthesis, listening, over>>
    BY DEF CallEnds, TimedTo
  <1>2. status \in {"ok", "error"}
    OBVIOUS
  <1>3. /\ calls' \in [Calls -> CallRecords] /\ calls'[c] = [calls[c] EXCEPT !.phase = "ended"]
        /\ \A d \in Calls \ {c} : calls'[d] = calls[d]
    BY <1>1 DEF TracesInv, TracesTyped, CallRecords, CallPhases
  <1>4. /\ calls'[c].phase = "ended" /\ calls'[c].kind = calls[c].kind /\ calls'[c].parent = calls[c].parent
        /\ calls'[c].public = calls[c].public
    BY <1>3 DEF TracesInv, TracesTyped, CallRecords
  <1> HIDE DEF status
  <1>5. /\ spans' \in [Calls \cup {0} -> Spans] /\ remotes' \in [Calls \cup {0} -> {"none", "open", "ended"}]
    BY <1>1, <1>2, EndSpansIs DEF TracesInv
  <1>6. SpansInv'
    <2> DEFINE cs == {c} \cap observed  root == {}
    <2>1. /\ cs \in SUBSET Calls /\ root \in SUBSET {0} /\ cs \subseteq observed
          /\ EndSpans(cs \cup root, status) /\ observed' = observed \ cs
          /\ over' => over
      <3>1. cs \cup root = {c} \cap observed
        OBVIOUS
      <3> QED
        BY <1>1, <3>1
    <2>2. \A d \in Calls : calls'[d].parent = calls[d].parent /\ (calls[d].phase = "new" <=> calls'[d].phase = "new")
      BY <1>1, <1>3, <1>4
    <2>3. \A d \in Calls : calls'[d].phase = "ended" =>
              /\ calls[d].phase # "ended" => d \notin observed' \cup named' \cup publicRuns' \cup timed'
              /\ named' \subseteq named /\ publicRuns' \subseteq publicRuns /\ timed' \subseteq timed
      BY <1>1, <1>3
    <2> HIDE DEF cs, root
    <2> QED
      BY <1>2, <2>1, <2>2, <2>3, EndSpansSound DEF TracesInv
  <1>7. /\ events' \in [Calls \cup {0} -> Seq(EventTypes)]
        /\ \A d \in Calls \cup {0} : d # c => events'[d] = events[d]
        /\ calls[c].kind = "tool" /\ c \in named =>
             events'[c] = IF listening THEN Append(events[c], "tool_completed") ELSE events[c]
        /\ calls[c].kind = "chain" => events'[c] \in {events[c], Append(events[c], "decision")}
        /\ calls[c].kind = "model" => events'[c] = events[c]
    <2>1. calls[c].kind \in Kinds
      BY DEF TracesInv, TracesTyped, CallRecords
    <2>2. CASE calls[c].kind = "tool"
      <3> DEFINE type == IF c \in named THEN "tool_completed" ELSE "tool_unnamed"
      <3>1. Publish(c, type)
        BY <2>2 DEF CallEnds
      <3>2. type \in EventTypes /\ (c \in named => type = "tool_completed")
        BY DEF EventTypes
      <3> HIDE DEF type
      <3> QED
        BY <2>2, <3>1, <3>2, PublishIs DEF TracesInv
    <2>3. CASE UNCHANGED events /\ calls[c].kind # "tool"
      BY <2>3 DEF TracesInv, TracesTyped
    <2>4. CASE Publish(c, "decision") /\ calls[c].kind = "chain"
      BY <2>4, PublishIs DEF TracesInv, EventTypes
    <2>5. calls[c].kind = "chain" => UNCHANGED events \/ Publish(c, "decision")
      BY DEF CallEnds
    <2>6. calls[c].kind = "model" => UNCHANGED events
      BY DEF CallEnds
    <2> QED
      BY <2>1, <2>2, <2>3, <2>4, <2>5, <2>6 DEF Kinds
  <1>8. ToldOfRun' /\ Told(0)' = Told(0)
    BY <1>1, <1>3, <1>4, <1>7, RootApart, RunToldStays DEF TracesInv, EventsInv
  <1>9. ASSUME NEW d \in Calls PROVE ToldOfCall(d)'
    <2>1. CASE d = c
      <3>1. ToldOfCall(c)
        BY DEF TracesInv, EventsInv
      <3>2. calls[c].kind = "tool" => ToldOfTool(c)'
        <4>1. SUFFICES ASSUME calls[c].kind = "tool" PROVE ToldOfTool(c)'
          OBVIOUS
        <4>2. (events[c] = <<"tool_started">> \/ (events[c] = <<>> /\ ~listening)) /\ c \in named
          BY <1>1, <3>1, <4>1 DEF ToldOfCall, ToldOfTool
        <4>3. Append(<<"tool_started">>, "tool_completed") = <<"tool_started", "tool_completed">>
          <5>1. "tool_started" \in EventTypes /\ "tool_completed" \in EventTypes
            BY DEF EventTypes
          <5> QED
            BY <5>1, AppendOne
        <4>4. events'[c] = <<"tool_started", "tool_completed">>
              \/ (events'[c] \in {<<>>, <<"tool_started">>} /\ ~listening)
          BY <1>7, <4>1, <4>2, <4>3
        <4> QED
          BY <1>1, <1>4, <4>4 DEF ToldOfTool
      <3>3. calls[c].kind = "chain" => ToldOfChain(c)'
        <4>1. SUFFICES ASSUME calls[c].kind = "chain" PROVE ToldOfChain(c)'
          OBVIOUS
        <4>2. events[c] = <<>>
          BY <1>1, <3>1, <4>1 DEF ToldOfCall, ToldOfChain
        <4>3. Append(<<>>, "decision") = <<"decision">>
          OBVIOUS
        <4> QED
          BY <1>4, <1>7, <4>1, <4>2, <4>3 DEF ToldOfChain
      <3>4. calls[c].kind = "model" => ToldOfModel(c)'
        BY <1>1, <1>4, <1>7, <1>8, <3>1 DEF ToldOfCall, ToldOfModel
      <3> QED
        BY <1>1, <1>4, <2>1, <3>2, <3>3, <3>4 DEF ToldOfCall
    <2>2. CASE d # c
      BY <1>1, <1>3, <1>7, <1>8, <2>2, OtherTold DEF TracesInv, EventsInv
    <2> QED
      BY <2>1, <2>2
  <1> QED
    BY <1>1, <1>3, <1>5, <1>6, <1>7, <1>8, <1>9 DEF TracesInv, TracesTyped, EventsInv

\* A call's story stays as it is when nothing is said of any call.
LEMMA QuietStep ==
    ASSUME TracesInv, UNCHANGED <<calls, named, publicRuns, synthesis, events>>, listening' => listening
    PROVE  EventsInv'
  <1>1. ToldOfRun' /\ Told(0)' = Told(0)
    BY RunToldStays DEF TracesInv, EventsInv
  <1>2. \A d \in Calls : ToldOfCall(d)'
    BY <1>1, OtherTold DEF TracesInv, EventsInv
  <1> QED
    BY <1>1, <1>2 DEF EventsInv

LEMMA StreamClosesSound ==
    ASSUME TracesInv, StreamCloses
    PROVE  TracesInv'
  <1>1. EventsInv'
    BY QuietStep DEF StreamCloses
  <1>2. SpansInv'
    BY DEF StreamCloses, TracesInv, SpansInv, CallKept, Nested, RemoteKept
  <1>3. TracesTyped'
    BY DEF StreamCloses, TracesInv, TracesTyped
  <1> QED
    BY <1>1, <1>2, <1>3 DEF TracesInv

\* finish closes what is left and the root.
LEMMA FinishRunSound ==
    ASSUME TracesInv, NEW failed \in BOOLEAN, FinishRun(failed)
    PROVE  TracesInv'
  <1> DEFINE status == IF failed THEN "error" ELSE "ok"  root == {0}
  <1>1. /\ EndSpans(observed \cup root, status) /\ observed' = {} /\ over' = TRUE
        /\ UNCHANGED <<calls, named, publicRuns, synthesis, events, listening, timed>>
    BY DEF FinishRun
  <1>2. status \in {"ok", "error"} /\ root \in SUBSET {0} /\ root = {0}
    OBVIOUS
  <1> HIDE DEF status, root
  <1>3. observed \in SUBSET Calls /\ observed \cup root \in SUBSET (Calls \cup {0}) /\ observed' = observed \ observed
    BY <1>1, <1>2 DEF TracesInv, TracesTyped
  <1>4. /\ spans' \in [Calls \cup {0} -> Spans] /\ remotes' \in [Calls \cup {0} -> {"none", "open", "ended"}]
    BY <1>1, <1>2, <1>3, EndSpansIs DEF TracesInv
  <1>5. SpansInv'
    BY <1>1, <1>2, <1>3, EndSpansSound DEF TracesInv
  <1>6. EventsInv'
    BY <1>1, QuietStep
  <1>7. TracesTyped'
    BY <1>1, <1>4 DEF TracesInv, TracesTyped
  <1> QED
    BY <1>5, <1>6, <1>7 DEF TracesInv

LEMMA TracesInvInit == TracingInit => TracesInv
  <1> SUFFICES ASSUME TracingInit PROVE TracesInv
    OBVIOUS
  <1>1. TracesTyped
    <2>1. <<>> \in Seq(EventTypes)
      OBVIOUS
    <2>2. [status |-> "running", parent |-> 0] \in Spans /\ NoSpan \in Spans
      BY DEF Spans, NoSpan
    <2>3. remotes \in [Calls \cup {0} -> {"none", "open", "ended"}]
      BY DEF TracingInit
    <2>4. calls \in [Calls -> CallRecords]
      BY DEF TracingInit, CallRecords, CallPhases, Kinds
    <2>5. spans \in [Calls \cup {0} -> Spans]
      BY <2>2 DEF TracingInit
    <2> QED
      BY <2>1, <2>3, <2>4, <2>5 DEF TracingInit, TracesTyped
  <1>2. SpansInv
    <2>1. \A c \in Calls : spans[c] = NoSpan /\ remotes[c] = "none"
      BY RootApart DEF TracingInit
    <2>2. NoSpan.status = "none"
      BY DEF NoSpan
    <2>3. \A c \in Calls : CallKept(c) /\ Nested(c)
      BY <2>1, <2>2 DEF CallKept, Nested, TracingInit
    <2>4. remotes[0] \in {"none", "open"} /\ spans[0].status = "running"
      BY DEF TracingInit
    <2>5. \A c \in Calls \cup {0} : RemoteKept(c)
      BY <2>1, <2>2, <2>4 DEF RemoteKept
    <2> QED
      BY <2>3, <2>5 DEF SpansInv, TracingInit
  <1>3. EventsInv
    <2>1. Told(0) = {} /\ events[0] = <<>> /\ \A c \in Calls : events[c] = <<>>
      BY DEF TracingInit, Told, ToSet
    <2>2. OnceEach(0)
      BY <2>1 DEF OnceEach
    <2>3. ToldOfRun
      BY <2>1, <2>2 DEF ToldOfRun, TracingInit
    <2>4. \A c \in Calls : ToldOfCall(c)
      BY <2>1 DEF ToldOfCall, TracingInit
    <2> QED
      BY <2>3, <2>4 DEF EventsInv
  <1> QED
    BY <1>1, <1>2, <1>3 DEF TracesInv

LEMMA TracesInvStep == TracesInv /\ [TracingNext]_tracingVars => TracesInv'
  <1> SUFFICES ASSUME TracesInv, [TracingNext]_tracingVars PROVE TracesInv'
    OBVIOUS
  <1>1. ASSUME NEW c \in Calls, NEW parent \in Calls \cup {0}, ChainStart(c, parent) PROVE TracesInv'
    BY <1>1, ChainStartSound
  <1>2. ASSUME NEW c \in Calls, NEW parent \in Calls \cup {0}, ToolStart(c, parent) PROVE TracesInv'
    BY <1>2, ToolStartSound
  <1>3. ASSUME NEW c \in Calls, NEW parent \in Calls \cup {0}, NEW public \in BOOLEAN, ModelStart(c, parent, public)
        PROVE  TracesInv'
    BY <1>3, ModelStartSound
  <1>4. ASSUME NEW c \in Calls, ModelToken(c) PROVE TracesInv'
    BY <1>4, ModelTokenSound
  <1>5. ASSUME NEW c \in Calls, CallLost(c) PROVE TracesInv'
    BY <1>5, CallLostSound
  <1>6. ASSUME NEW c \in Calls, NEW failed \in BOOLEAN, CallEnds(c, failed) PROVE TracesInv'
    BY <1>6, CallEndsSound
  <1>7. CASE StreamCloses
    BY <1>7, StreamClosesSound
  <1>8. ASSUME NEW failed \in BOOLEAN, FinishRun(failed) PROVE TracesInv'
    BY <1>8, FinishRunSound
  <1>9. CASE UNCHANGED tracingVars
    <2>1. EventsInv'
      BY <1>9, QuietStep DEF tracingVars
    <2>2. SpansInv'
      BY <1>9 DEF tracingVars, TracesInv, SpansInv, CallKept, Nested, RemoteKept
    <2>3. TracesTyped'
      BY <1>9 DEF tracingVars, TracesInv, TracesTyped
    <2> QED
      BY <2>1, <2>2, <2>3 DEF TracesInv
  <1> QED
    BY <1>1, <1>2, <1>3, <1>4, <1>5, <1>6, <1>7, <1>8, <1>9 DEF TracingNext

-----------------------------------------------------------------------------
LEMMA TracesInvMeans == TracesInv => TracesSound
  <1> SUFFICES ASSUME TracesInv PROVE TracesSound
    OBVIOUS
  <1>1. SpansClosed
    BY DEF TracesInv, SpansInv, CallKept, SpansClosed
  <1>2. SpansMatch
    BY DEF TracesInv, SpansInv, CallKept, RemoteKept, SpansMatch
  <1>3. SpansNest
    BY DEF TracesInv, SpansInv, Nested, SpansNest
  <1>4. ASSUME NEW c \in Calls
        PROVE  /\ OnceEach(c) /\ "tool_unnamed" \notin Told(c)
               /\ "tool_completed" \in Told(c) => events[c] = <<"tool_started", "tool_completed">>
               /\ "answer_delta" \in Told(c) => calls[c].public /\ "synthesis_started" \in Told(0)
    <2>1. Told(c) = {events[c][i] : i \in DOMAIN events[c]}
      BY ToldIs DEF TracesInv
    <2>2. ToldOfCall(c) /\ calls[c].phase \in CallPhases /\ calls[c].kind \in Kinds
      BY DEF TracesInv, EventsInv, TracesTyped, CallRecords
    <2>3. CASE events[c] = <<>>
      BY <2>1, <2>3 DEF OnceEach
    <2>4. CASE events[c] \in {<<"tool_started">>, <<"decision">>}
      BY <2>1, <2>4 DEF OnceEach
    <2>5. CASE events[c] = <<"tool_started", "tool_completed">>
      <3>1. DOMAIN events[c] = {1, 2} /\ events[c][1] = "tool_started" /\ events[c][2] = "tool_completed"
        BY <2>5
      <3> QED
        BY <2>1, <2>5, <3>1 DEF OnceEach
    <2>6. CASE ToldOfModel(c) /\ events[c] # <<>>
      BY <2>1, <2>6 DEF ToldOfModel, OnceEach
    <2>7. \/ events[c] \in {<<>>, <<"tool_started">>, <<"decision">>, <<"tool_started", "tool_completed">>}
          \/ ToldOfModel(c)
      BY <2>2 DEF ToldOfCall, ToldOfTool, ToldOfChain, Kinds, CallPhases
    <2> QED
      BY <2>3, <2>4, <2>5, <2>6, <2>7
  <1>5. OnceEach(0) /\ "tool_unnamed" \notin Told(0)
    BY DEF TracesInv, EventsInv, ToldOfRun
  <1>6. EventsTell
    BY <1>4, <1>5 DEF EventsTell
  <1> QED
    BY <1>1, <1>2, <1>3, <1>6 DEF TracesSound

\* However the calls of a run nest, end, raise or are lost, and whenever the stream closes or
\* the run is finished: what was opened is closed, under its caller, and a client
\* sees each event once and in its order.
THEOREM TracesAreSound == TracingSpec => []TracesSound
  <1> QED
    BY TracesInvInit, TracesInvStep, TracesInvMeans, PTL DEF TracingSpec

-----------------------------------------------------------------------------
(***************************************************************************)
(* Retrieval                                                               *)
(***************************************************************************)

(***************************************************************************)
(* Positions.                                                              *)
(***************************************************************************)
Place(s, c) == SelectInSeq(s, LAMBDA x : x = c)

\* Where an element stands first, or 0.
LEMMA PlaceIs ==
    ASSUME NEW X, NEW s \in Seq(X), NEW c
    PROVE  /\ Contains(s, c) => /\ Place(s, c) \in 1 .. Len(s) /\ s[Place(s, c)] = c
                                /\ \A i \in 1 .. Len(s) : s[i] = c => Place(s, c) <= i
           /\ ~Contains(s, c) => Place(s, c) = 0
  <1> DEFINE I == {i \in 1 .. Len(s) : s[i] = c}
  <1>1. Place(s, c) = IF I # {} THEN Min(I) ELSE 0
    BY DEF Place, SelectInSeq
  <1>2. I \subseteq Nat
    OBVIOUS
  <1>3. Contains(s, c) <=> I # {}
    BY DEF Contains
  <1>4. I # {} => Min(I) \in I /\ \A m \in I : Min(I) <= m
    <2> HIDE DEF I
    <2> QED
      BY <1>2, Smallest
  <1> QED
    BY <1>1, <1>3, <1>4

\* A set put in order: ranks become positions.
Ranked(t, R, S) ==
    /\ t \in [1 .. Cardinality(S) -> S]
    /\ \A i \in 1 .. Cardinality(S) : Cardinality(Below(t[i], R, S)) = i - 1
Ordered(t, R, S) ==
    /\ t \in Seq(S) /\ Len(t) = Cardinality(S)
    /\ \A x \in S : \E i \in 1 .. Len(t) : t[i] = x
    /\ \A i, j \in 1 .. Len(t) : i < j => <<t[i], t[j]>> \in R
    /\ \A i, j \in 1 .. Len(t) : <<t[i], t[j]>> \in R => i < j
    /\ \A i, j \in 1 .. Len(t) : t[i] = t[j] => i = j

LEMMA OrderIs ==
    ASSUME NEW S, IsFiniteSet(S), NEW R, Sorts(R, S), NEW t, Ranked(t, R, S)
    PROVE  Ordered(t, R, S)
  <1> USE DEF Ranked
  <1>1. Cardinality(S) \in Nat
    BY FS_CardinalityType
  <1>2. t \in Seq(S) /\ Len(t) = Cardinality(S)
    BY <1>1
  <1>3. \A i, j \in 1 .. Len(t) : t[i] = t[j] => i = j
    BY <1>1, <1>2
  <1>4. ASSUME NEW i \in 1 .. Len(t), NEW j \in 1 .. Len(t), i < j
        PROVE  <<t[i], t[j]>> \in R
    <2>1. /\ t[i] \in S /\ t[j] \in S
          /\ Cardinality(Below(t[i], R, S)) < Cardinality(Below(t[j], R, S))
      BY <1>1, <1>2, <1>4
    <2> QED
      BY <2>1, RankOrders
  <1>5. ASSUME NEW i \in 1 .. Len(t), NEW j \in 1 .. Len(t), <<t[i], t[j]>> \in R
        PROVE  i < j
    <2>1. t[i] \in S /\ t[j] \in S
      BY <1>1, <1>2
    <2>2. Cardinality(Below(t[i], R, S)) < Cardinality(Below(t[j], R, S))
      BY <1>5, <2>1, BelowLess
    <2> QED
      BY <1>1, <1>2, <2>2
  <1>6. ASSUME NEW x \in S
        PROVE  \E i \in 1 .. Len(t) : t[i] = x
    <2> DEFINE r == Cardinality(Below(x, R, S))
    <2>1. r \in 0 .. Cardinality(S) - 1
      BY BelowLess
    <2>2. r + 1 \in 1 .. Len(t) /\ t[r + 1] \in S /\ Cardinality(Below(t[r + 1], R, S)) = r
      BY <1>1, <1>2, <2>1
    <2>3. CASE t[r + 1] = x
      BY <2>2, <2>3
    <2>4. CASE t[r + 1] # x
      <3>1. <<t[r + 1], x>> \in R \/ <<x, t[r + 1]>> \in R
        BY <2>2, <2>4 DEF Sorts
      <3>2. Cardinality(Below(t[r + 1], R, S)) < r \/ r < Cardinality(Below(t[r + 1], R, S))
        BY <2>2, <3>1, BelowLess
      <3> QED
        BY <2>1, <2>2, <3>2
    <2> QED
      BY <2>3, <2>4
  <1> QED
    BY <1>2, <1>3, <1>4, <1>5, <1>6 DEF Ordered

LEMMA PrefixIs ==
    ASSUME NEW X, NEW s \in Seq(X), NEW n \in Nat
    PROVE  /\ Prefix(s, n) \in Seq(X)
           /\ Len(Prefix(s, n)) = IF n < Len(s) THEN n ELSE Len(s)
           /\ \A i \in 1 .. Len(Prefix(s, n)) : Prefix(s, n)[i] = s[i]
  <1> DEFINE m == IF n < Len(s) THEN n ELSE Len(s)
  <1>1. m \in 0 .. Len(s)
    OBVIOUS
  <1>2. Prefix(s, n) = SubSeq(s, 1, m)
    BY DEF Prefix
  <1>3. /\ SubSeq(s, 1, m) \in Seq(X) /\ Len(SubSeq(s, 1, m)) = m
        /\ \A i \in 1 .. m : SubSeq(s, 1, m)[i] = s[i]
    <2> HIDE DEF m
    <2> QED
      BY <1>1
  <1> QED
    BY <1>2, <1>3

(***************************************************************************)
(* The weights of the fusion.                                              *)
(***************************************************************************)
LEMMA RankingsAre ==
    ASSUME NEW s \in Rankings
    PROVE  /\ s \in Seq(Chunks) /\ Len(s) <= HitLimit /\ Len(s) \in Nat
           /\ Len(s) <= Cardinality(Chunks)
           /\ \A i, j \in 1 .. Len(s) : s[i] = s[j] => i = j
  <1>1. PICK S \in SUBSET Chunks : s \in SetToSeqs(S)
    BY DEF Rankings, SetToAllKPermutations
  <1>2. /\ Cardinality(S) \in Nat /\ Cardinality(S) <= Cardinality(Chunks)
    BY RetrievalAssumption, FS_Subset, FS_CardinalityType
  <1>3. /\ s \in [1 .. Cardinality(S) -> S]
        /\ \A i, j \in 1 .. Cardinality(S) : i # j => s[i] # s[j]
    BY <1>1 DEF SetToSeqs
  <1>4. s \in Seq(Chunks) /\ Len(s) = Cardinality(S)
    BY <1>2, <1>3
  <1>5. Len(s) <= HitLimit
    BY DEF Rankings
  <1> QED
    BY <1>2, <1>3, <1>4, <1>5

Denominator == ProductSet({RrfK + r : r \in 1..Cardinality(Chunks)})

LEMMA DenominatorDivides ==
    /\ Denominator \in Nat \ {0}
    /\ \A r \in 1 .. Cardinality(Chunks) : Multiple(Denominator, RrfK + r)
  <1> DEFINE n == Cardinality(Chunks)
             S == {RrfK + r : r \in 1 .. n}
  <1>1. n \in Nat /\ RrfK \in Nat
    BY RetrievalAssumption, FS_CardinalityType
  <1>2. S \subseteq Nat \ {0}
    BY <1>1
  <1>3. IsFiniteSet(S)
    <2>1. S \subseteq 0 .. RrfK + n
      BY <1>1
    <2>2. IsFiniteSet(0 .. RrfK + n)
      BY <1>1, FS_Interval
    <2> QED
      BY <2>1, <2>2, FS_Subset
  <1>4. ProductSet(S) \in Nat \ {0} /\ \A x \in S : Multiple(ProductSet(S), x)
    <2> HIDE DEF S
    <2> QED
      BY <1>2, <1>3, ProductDivides
  <1> QED
    BY <1>4 DEF Denominator

\* A quotient without remainder.
LEMMA ExactDivision ==
    ASSUME NEW p \in Nat \ {0}, NEW x \in Nat \ {0}, Multiple(p, x)
    PROVE  p \div x \in Nat \ {0} /\ x * (p \div x) = p
  <1>1. PICK q \in Nat \ {0} : p = x * q
    BY DEF Multiple
  <1> DEFINE w == p \div x
  <1>2. w \in Int /\ x * w <= p /\ p < x * w + x
    BY SMT
  <1>3. w \in Int
    BY <1>2
  <1> HIDE DEF w
  <1>4. x * w <= x * q /\ x * q < x * w + x
    BY <1>1, <1>2
  <1>5. \A a, b \in Int : a < b => x * b >= x * a + x
    OBVIOUS
  <1>6. w = q
    <2>1. CASE w < q
      BY <1>3, <1>4, <1>5, <2>1
    <2>2. CASE q < w
      BY <1>3, <1>4, <1>5, <2>2
    <2> QED
      BY <1>3, <2>1, <2>2
  <1> QED
    BY <1>1, <1>6 DEF w

LEMMA WeightIs ==
    ASSUME NEW s \in Rankings, NEW c
    PROVE  /\ ~Contains(s, c) => Weight(s, c) = 0
           /\ Contains(s, c) => /\ Weight(s, c) \in Nat \ {0} /\ Place(s, c) \in 1 .. Len(s)
                                /\ (RrfK + Place(s, c)) * Weight(s, c) = Denominator
  <1>1. s \in Seq(Chunks) /\ Len(s) \in Nat /\ Len(s) <= Cardinality(Chunks)
    BY RankingsAre
  <1>2. Cardinality(Chunks) \in Nat /\ RrfK \in Nat
    BY RetrievalAssumption, FS_CardinalityType
  <1>3. Weight(s, c) = IF Place(s, c) = 0 THEN 0 ELSE Denominator \div (RrfK + Place(s, c))
    BY DEF Weight, Place, Denominator
  <1>4. CASE ~Contains(s, c)
    BY <1>1, <1>3, <1>4, PlaceIs
  <1>5. CASE Contains(s, c)
    <2>1. Place(s, c) \in 1 .. Len(s)
      BY <1>1, <1>5, PlaceIs
    <2>2. Place(s, c) \in 1 .. Cardinality(Chunks)
      BY <1>1, <1>2, <2>1
    <2>3. Multiple(Denominator, RrfK + Place(s, c)) /\ Denominator \in Nat \ {0}
      BY <2>2, DenominatorDivides
    <2>4. RrfK + Place(s, c) \in Nat \ {0}
      BY <1>2, <2>2
    <2> DEFINE x == RrfK + Place(s, c)
    <2>5. Denominator \div x \in Nat \ {0} /\ x * (Denominator \div x) = Denominator
      <3> HIDE DEF x
      <3>1. x \in Nat \ {0} /\ Multiple(Denominator, x)
        BY <2>3, <2>4 DEF x
      <3> QED
        BY <2>3, <3>1, ExactDivision
    <2>6. Place(s, c) # 0
      BY <2>2
    <2> QED
      BY <1>3, <1>5, <2>1, <2>5, <2>6
  <1> QED
    BY <1>4, <1>5

\* A place nearer the front weighs more.
LEMMA WeightOrder ==
    ASSUME NEW s \in Rankings, NEW a, NEW b, Contains(s, a), Contains(s, b),
           Place(s, b) < Place(s, a)
    PROVE  Weight(s, b) > Weight(s, a)
  <1>1. /\ Weight(s, a) \in Nat \ {0} /\ Place(s, a) \in 1 .. Len(s)
        /\ (RrfK + Place(s, a)) * Weight(s, a) = Denominator
        /\ Weight(s, b) \in Nat \ {0} /\ Place(s, b) \in 1 .. Len(s)
        /\ (RrfK + Place(s, b)) * Weight(s, b) = Denominator
    BY WeightIs
  <1>2. RrfK \in Nat /\ Len(s) \in Nat
    BY RetrievalAssumption, RankingsAre
  <1> DEFINE x == RrfK + Place(s, a)
             y == RrfK + Place(s, b)
             v == Weight(s, a)
             w == Weight(s, b)
  <1>3. x \in Nat /\ y \in Nat /\ y < x /\ v \in Nat \ {0} /\ w \in Nat \ {0} /\ x * v = y * w
    BY <1>1, <1>2
  <1> HIDE DEF x, y, v, w
  <1>4. \A p, q, m \in Nat : p <= q => m * p <= m * q
    OBVIOUS
  <1>5. \A p, q \in Nat, m \in Nat \ {0} : p < q => p * m < q * m
    OBVIOUS
  <1>6. ASSUME w <= v
        PROVE  FALSE
    <2>1. y * w <= y * v
      BY <1>3, <1>4, <1>6
    <2>2. y * v < x * v
      BY <1>3, <1>5
    <2>3. y * w \in Nat /\ y * v \in Nat /\ x * v \in Nat
      BY <1>3
    <2> QED
      BY <1>3, <2>1, <2>2, <2>3
  <1>7. w > v
    BY <1>3, <1>6
  <1> QED
    BY <1>7 DEF w, v

\* The rank that FusedInOrder speaks of.
RankIn(s, c) == IF Contains(s, c) THEN SelectInSeq(s, LAMBDA x : x = c) ELSE HitLimit + 1

LEMMA RankWeighs ==
    ASSUME NEW s \in Rankings, NEW a, NEW b
    PROVE  /\ Weight(s, a) \in Nat /\ Weight(s, b) \in Nat
           /\ RankIn(s, a) \in Nat /\ RankIn(s, b) \in Nat
           /\ RankIn(s, a) >= RankIn(s, b) => Weight(s, b) >= Weight(s, a)
           /\ RankIn(s, a) > RankIn(s, b) => Weight(s, b) > Weight(s, a)
  <1>1. s \in Seq(Chunks) /\ Len(s) \in Nat /\ Len(s) <= HitLimit /\ HitLimit \in Nat
    BY RankingsAre, RetrievalAssumption
  <1>2. /\ ~Contains(s, a) => Weight(s, a) = 0 /\ RankIn(s, a) = HitLimit + 1
        /\ ~Contains(s, b) => Weight(s, b) = 0 /\ RankIn(s, b) = HitLimit + 1
        /\ Contains(s, a) => RankIn(s, a) = Place(s, a)
        /\ Contains(s, b) => RankIn(s, b) = Place(s, b)
    BY WeightIs DEF RankIn, Place
  <1>3. /\ Contains(s, a) => Weight(s, a) \in Nat \ {0} /\ Place(s, a) \in 1 .. Len(s)
        /\ Contains(s, b) => Weight(s, b) \in Nat \ {0} /\ Place(s, b) \in 1 .. Len(s)
    BY WeightIs
  <1>4. CASE Contains(s, a) /\ Contains(s, b)
    <2>1. Place(s, b) < Place(s, a) => Weight(s, b) > Weight(s, a)
      BY <1>4, WeightOrder
    <2>2. Place(s, b) = Place(s, a) => Weight(s, b) = Weight(s, a)
      <3>1. Contains(s, a) => s[Place(s, a)] = a
        BY <1>1, PlaceIs
      <3>2. Contains(s, b) => s[Place(s, b)] = b
        BY <1>1, PlaceIs
      <3> QED
        BY <1>4, <3>1, <3>2
    <2> QED
      BY <1>1, <1>2, <1>3, <1>4, <2>1, <2>2
  <1>5. CASE ~Contains(s, a)
    <2>1. Weight(s, a) = 0 /\ RankIn(s, a) = HitLimit + 1
      BY <1>2, <1>5
    <2>2. CASE Contains(s, b)
      BY <1>1, <1>2, <1>3, <2>1, <2>2
    <2>3. CASE ~Contains(s, b)
      BY <1>1, <1>2, <2>1, <2>3
    <2> QED
      BY <2>2, <2>3
  <1>6. CASE Contains(s, a) /\ ~Contains(s, b)
    BY <1>1, <1>2, <1>3, <1>6
  <1> QED
    BY <1>4, <1>5, <1>6

\* Fused results: no chunk twice, and one that weighs more comes first.
InjectiveOver(s, X) == s \in Seq(X) /\ \A i, j \in 1 .. Len(s) : s[i] = s[j] => i = j

LEMMA FuseIs ==
    ASSUME NEW semantic \in Rankings, NEW lexical \in Rankings
    PROVE  /\ InjectiveOver(Fuse(semantic, lexical), Chunks)
           /\ \A a, b \in ToSet(semantic) \cup ToSet(lexical) :
                 /\ Fused(semantic, lexical, b) > Fused(semantic, lexical, a)
                 /\ Contains(Fuse(semantic, lexical), a)
                 => /\ Contains(Fuse(semantic, lexical), b)
                    /\ RankIn(Fuse(semantic, lexical), b) < RankIn(Fuse(semantic, lexical), a)
  <1> DEFINE S == ToSet(semantic) \cup ToSet(lexical)
             W(c) == Fused(semantic, lexical, c)
             Before(a, b) == \/ W(a) > W(b)
                             \/ W(a) = W(b) /\ a < b
             R == {p \in S \X S : Before(p[1], p[2])}
             t == InOrder(S, Before)
             f == Prefix(t, HitLimit)
  <1>1. f = Fuse(semantic, lexical)
    BY DEF Fuse, InOrder
  <1>2. S \subseteq Chunks /\ Chunks \subseteq Nat /\ IsFiniteSet(S) /\ HitLimit \in Nat
    <2>1. S \subseteq Chunks
      BY RankingsAre DEF ToSet
    <2> HIDE DEF S
    <2> QED
      BY <2>1, RetrievalAssumption, FS_Subset
  <1>3. \A c \in S : W(c) \in Nat
    BY RankWeighs DEF Fused
  <1> HIDE DEF W
  <1>4. \A x, y \in S : <<x, y>> \in R <=> Before(x, y)
    OBVIOUS
  <1> HIDE DEF R, S
  <1>5. Sorts(R, S)
    <2>1. \A x \in S : W(x) \in Nat /\ x \in Nat
      BY <1>2, <1>3
    <2>2. \A x \in S : <<x, x>> \notin R
      BY <1>4, <2>1
    <2>3. \A x, y \in S : x # y => <<x, y>> \in R \/ <<y, x>> \in R
      BY <1>4, <2>1
    <2>4. \A x, y, z \in S : <<x, y>> \in R /\ <<y, z>> \in R => <<x, z>> \in R
      <3>1. \A x, y, z \in S : Before(x, y) /\ Before(y, z) => Before(x, z)
        BY <2>1
      <3> HIDE DEF Before
      <3> QED
        BY <1>4, <3>1
    <2> QED
      BY <2>2, <2>3, <2>4 DEF Sorts
  <1>6. \A x \in S : Below(x, R, S) = {y \in S : Before(y, x)}
    BY <1>4 DEF Below
  <1>7. /\ t \in [1 .. Cardinality(S) -> S]
        /\ \A i \in 1 .. Cardinality(S) : Cardinality(Below(t[i], R, S)) = i - 1
    <2>1. t = [i \in 1 .. Cardinality(S) |->
                  CHOOSE x \in S : Cardinality({y \in S : Before(y, x)}) = i - 1]
      BY DEF InOrder
    <2>2. ASSUME NEW i \in 1 .. Cardinality(S)
          PROVE  /\ t[i] \in S /\ Cardinality({y \in S : Before(y, t[i])}) = i - 1
      <3>1. \E x \in S : Cardinality(Below(x, R, S)) = i - 1
        BY <1>2, <1>5, RankTaken
      <3>2. \E x \in S : Cardinality({y \in S : Before(y, x)}) = i - 1
        BY <1>6, <3>1
      <3>3. t[i] = CHOOSE x \in S : Cardinality({y \in S : Before(y, x)}) = i - 1
        BY <2>1
      <3> HIDE DEF t, Before
      <3> QED
        BY <3>2, <3>3
    <2> HIDE DEF t, Before
    <2> QED
      BY <1>6, <2>1, <2>2
  <1> HIDE DEF t, Before
  <1>8. Ordered(t, R, S)
    <2>1. Ranked(t, R, S)
      BY <1>7 DEF Ranked
    <2> QED
      BY <1>2, <1>5, <2>1, OrderIs
  <1> USE DEF Ordered
  <1>9. /\ f \in Seq(S) /\ Len(f) <= Len(t) /\ Len(f) <= HitLimit /\ Len(f) \in Nat
        /\ \A i \in 1 .. Len(f) : f[i] = t[i]
    BY <1>2, <1>8, PrefixIs
  <1>10. f \in Seq(Chunks)
    <2> HIDE DEF f
    <2>1. f \in Seq(S) /\ Len(f) \in Nat
      BY <1>9
    <2>2. \A i \in 1 .. Len(f) : f[i] \in S
      BY <2>1
    <2>3. \A i \in 1 .. Len(f) : f[i] \in Chunks
      BY <1>2, <2>2
    <2> QED
      BY <2>1, <2>3
  <1> HIDE DEF f
  <1> USE DEF Before
  <1>11. \A i, j \in 1 .. Len(f) : f[i] = f[j] => i = j
    BY <1>8, <1>9
  <1>12. ASSUME NEW a \in S, NEW b \in S, W(b) > W(a), Contains(f, a)
         PROVE  Contains(f, b) /\ RankIn(f, b) < RankIn(f, a)
    <2>1. PICK i \in 1 .. Len(f) : f[i] = a
      BY <1>12 DEF Contains
    <2>2. PICK j \in 1 .. Len(t) : t[j] = b
      BY <1>8
    <2>3. <<b, a>> \in R
      BY <1>4, <1>12
    <2>4. i \in 1 .. Len(t) /\ t[i] = a
      BY <1>8, <1>9, <2>1
    <2>5. j < i
      BY <1>8, <2>2, <2>3, <2>4
    <2>6. j \in 1 .. Len(f) /\ f[j] = b
      BY <1>9, <2>2, <2>5
    <2>7. Contains(f, b)
      BY <2>6 DEF Contains
    <2>8. /\ Place(f, a) \in 1 .. Len(f) /\ f[Place(f, a)] = a
          /\ Place(f, b) \in 1 .. Len(f) /\ f[Place(f, b)] = b
      BY <1>9, <1>12, <2>7, PlaceIs
    <2>9. Place(f, a) = i /\ Place(f, b) = j
      BY <1>11, <2>1, <2>6, <2>8
    <2>10. RankIn(f, a) = Place(f, a) /\ RankIn(f, b) = Place(f, b)
      BY <1>12, <2>7 DEF RankIn, Place
    <2> QED
      BY <2>5, <2>7, <2>9, <2>10
  <1> QED
    BY <1>1, <1>10, <1>11, <1>12 DEF InjectiveOver, S, W

\* FusedInOrder, of any two rankings.
LEMMA FuseOrders ==
    ASSUME NEW semantic \in Rankings, NEW lexical \in Rankings
    PROVE  LET made0 == Fuse(semantic, lexical)
               Behind(a, b) == \A s \in ToSet(<<semantic, lexical>>) : RankIn(s, a) >= RankIn(s, b)
           IN \A a, b \in ToSet(semantic) \cup ToSet(lexical) :
                 Behind(a, b) /\ ~Behind(b, a) /\ Contains(made0, a)
                     => Contains(made0, b) /\ RankIn(made0, b) < RankIn(made0, a)
  <1>1. ToSet(<<semantic, lexical>>) = {semantic, lexical}
    BY DEF ToSet
  <1> SUFFICES ASSUME NEW a \in ToSet(semantic) \cup ToSet(lexical),
                      NEW b \in ToSet(semantic) \cup ToSet(lexical),
                      \A s \in {semantic, lexical} : RankIn(s, a) >= RankIn(s, b),
                      ~(\A s \in {semantic, lexical} : RankIn(s, b) >= RankIn(s, a)),
                      Contains(Fuse(semantic, lexical), a)
               PROVE  /\ Contains(Fuse(semantic, lexical), b)
                      /\ RankIn(Fuse(semantic, lexical), b) < RankIn(Fuse(semantic, lexical), a)
    BY <1>1
  <1>2. \A s \in {semantic, lexical} :
           /\ Weight(s, a) \in Nat /\ Weight(s, b) \in Nat
           /\ RankIn(s, a) \in Nat /\ RankIn(s, b) \in Nat
           /\ RankIn(s, a) >= RankIn(s, b) => Weight(s, b) >= Weight(s, a)
           /\ RankIn(s, a) > RankIn(s, b) => Weight(s, b) > Weight(s, a)
    BY RankWeighs
  <1>3. Fused(semantic, lexical, b) > Fused(semantic, lexical, a)
    BY <1>2 DEF Fused
  <1> QED
    BY <1>3, FuseIs

(***************************************************************************)
(* The merge of two rankings.                                              *)
(***************************************************************************)
Only(s, i) == IF i \in DOMAIN s THEN <<s[i]>> ELSE <<>>

LEMMA AtIs ==
    ASSUME NEW X, NEW s \in Seq(X), NEW i
    PROVE  /\ Only(s, i) \in Seq(X) /\ Len(Only(s, i)) <= 1 /\ Len(Only(s, i)) \in Nat
           /\ i \in 1 .. Len(s) => Len(Only(s, i)) = 1 /\ Only(s, i)[1] = s[i]
  <1>1. DOMAIN s = 1 .. Len(s) /\ Len(s) \in Nat
    OBVIOUS
  <1>2. CASE i \in DOMAIN s
    <2>1. s[i] \in X
      BY <1>1, <1>2
    <2> QED
      BY <1>1, <1>2, <2>1 DEF Only
  <1>3. CASE i \notin DOMAIN s
    BY <1>1, <1>3 DEF Only
  <1> QED
    BY <1>2, <1>3

LEMMA OneBeside ==
    ASSUME NEW X, NEW a \in Seq(X), NEW b \in Seq(X)
    PROVE  /\ Len(a) = 1 => 1 \in 1 .. Len(a \o b) /\ (a \o b)[1] = a[1]
           /\ Len(b) = 1 => Len(a \o b) \in 1 .. Len(a \o b) /\ (a \o b)[Len(a \o b)] = b[1]
  <1>1. Len(a) \in Nat /\ Len(b) \in Nat /\ Len(a \o b) = Len(a) + Len(b)
    OBVIOUS
  <1>2. \A i \in 1 .. Len(a) + Len(b) : (a \o b)[i] = IF i <= Len(a) THEN a[i] ELSE b[i - Len(a)]
    OBVIOUS
  <1> QED
    BY <1>1, <1>2

LEMMA MergedIs ==
    ASSUME NEW one \in Rankings, NEW other \in Rankings
    PROVE  /\ InjectiveOver(Merged(one, other), Chunks)
           /\ \A i \in 1 .. Len(one) : 2 * i <= HitLimit => Contains(Merged(one, other), one[i])
           /\ \A i \in 1 .. Len(other) : 2 * i <= HitLimit => Contains(Merged(one, other), other[i])
  <1> DEFINE longest == IF Len(one) < Len(other) THEN Len(other) ELSE Len(one)
             rows == [i \in 1 .. longest |-> Only(one, i) \o Only(other, i)]
             flat == FlattenSeq(rows)
             m == FirstOnes(flat, HitLimit)
  <1>1. /\ one \in Seq(Chunks) /\ other \in Seq(Chunks)
        /\ Len(one) \in Nat /\ Len(other) \in Nat /\ HitLimit \in Nat
    BY RankingsAre, RetrievalAssumption
  <1>2. longest \in Nat /\ Len(one) <= longest /\ Len(other) <= longest
    BY <1>1
  <1>3. \A i : /\ Only(one, i) \in Seq(Chunks) /\ Len(Only(one, i)) <= 1 /\ Len(Only(one, i)) \in Nat
               /\ i \in 1 .. Len(one) => Len(Only(one, i)) = 1 /\ Only(one, i)[1] = one[i]
    BY <1>1, AtIs
  <1>4. \A i : /\ Only(other, i) \in Seq(Chunks) /\ Len(Only(other, i)) <= 1 /\ Len(Only(other, i)) \in Nat
               /\ i \in 1 .. Len(other) => Len(Only(other, i)) = 1 /\ Only(other, i)[1] = other[i]
    BY <1>1, AtIs
  <1>5. Merged(one, other) = m
    BY DEF Merged, Interleaved, Only
  <1>6. /\ rows \in Seq(Seq(Chunks)) /\ Len(rows) = longest
        /\ \A i \in 1 .. longest : Len(rows[i]) = Len(Only(one, i)) + Len(Only(other, i)) /\ Len(rows[i]) <= 2
    BY <1>2, <1>3, <1>4
  <1>7. \A i \in 1 .. Len(one) : i \in 1 .. longest /\ 1 \in 1 .. Len(rows[i]) /\ rows[i][1] = one[i]
    <2>1. ASSUME NEW i \in 1 .. Len(one)
          PROVE  i \in 1 .. longest /\ 1 \in 1 .. Len(rows[i]) /\ rows[i][1] = one[i]
      <3>1. i \in 1 .. longest
        BY <1>1, <1>2
      <3>2. /\ Only(one, i) \in Seq(Chunks) /\ Only(other, i) \in Seq(Chunks)
            /\ Len(Only(one, i)) = 1 /\ Only(one, i)[1] = one[i] /\ Len(Only(other, i)) \in Nat
        BY <1>3, <1>4
      <3>3. rows[i] = Only(one, i) \o Only(other, i)
        BY <3>1
      <3> HIDE DEF rows, longest
      <3> QED
        BY <3>1, <3>2, <3>3, OneBeside
    <2> QED
      BY <2>1
  <1>8. \A i \in 1 .. Len(other) : i \in 1 .. longest
                                   /\ Len(rows[i]) \in 1 .. Len(rows[i]) /\ rows[i][Len(rows[i])] = other[i]
    <2>1. ASSUME NEW i \in 1 .. Len(other)
          PROVE  i \in 1 .. longest
                 /\ Len(rows[i]) \in 1 .. Len(rows[i]) /\ rows[i][Len(rows[i])] = other[i]
      <3>1. i \in 1 .. longest
        BY <1>1, <1>2
      <3>2. /\ Only(one, i) \in Seq(Chunks) /\ Only(other, i) \in Seq(Chunks)
            /\ Len(Only(one, i)) \in Nat
            /\ Len(Only(other, i)) = 1 /\ Only(other, i)[1] = other[i]
        BY <1>3, <1>4
      <3>3. rows[i] = Only(one, i) \o Only(other, i)
        BY <3>1
      <3> HIDE DEF rows, longest
      <3> QED
        BY <3>1, <3>2, <3>3, OneBeside
    <2> QED
      BY <2>1
  <1> HIDE DEF rows, longest
  <1>9. /\ flat \in Seq(Chunks) /\ Len(flat) \in Nat
        /\ \A i \in 1 .. Len(rows) : \A j \in 1 .. Len(rows[i]) :
              \E q \in 1 .. Len(flat) : q <= 2 * i /\ flat[q] = rows[i][j]
    <2>1. flat \in Seq(Chunks)
      BY <1>6, FlattenIs
    <2>2. \A i \in 1 .. Len(rows) : Len(rows[i]) <= 2
      BY <1>6
    <2>3. \A i \in 1 .. Len(rows) : \A j \in 1 .. Len(rows[i]) :
              \E q \in 1 .. Len(flat) : q <= 2 * i /\ flat[q] = rows[i][j]
      BY <1>6, <2>2, FlattenPairs
    <2>4. Len(flat) \in Nat
      BY <2>1
    <2> HIDE DEF flat
    <2> QED
      BY <2>1, <2>3, <2>4
  <1> HIDE DEF flat
  <1>10. m \in Seq(Chunks) /\ Keeps(m, flat, Len(flat), HitLimit)
    BY <1>1, <1>9, FirstOnesKeep
  <1> HIDE DEF m
  <1>11. InjectiveOver(m, Chunks)
    BY <1>10 DEF Keeps, InjectiveOver
  <1>12. ASSUME NEW q \in 1 .. Len(flat), q <= HitLimit
         PROVE  Contains(m, flat[q])
    BY <1>10, <1>12 DEF Keeps, Contains
  <1>13. ASSUME NEW i \in 1 .. Len(one), 2 * i <= HitLimit
         PROVE  Contains(m, one[i])
    <2>1. PICK q \in 1 .. Len(flat) : q <= 2 * i /\ flat[q] = one[i]
      BY <1>6, <1>7, <1>9
    <2>2. q <= HitLimit
      BY <1>1, <1>9, <1>13, <2>1
    <2> QED
      BY <1>12, <2>1, <2>2
  <1>14. ASSUME NEW i \in 1 .. Len(other), 2 * i <= HitLimit
         PROVE  Contains(m, other[i])
    <2>1. PICK q \in 1 .. Len(flat) : q <= 2 * i /\ flat[q] = other[i]
      BY <1>6, <1>8, <1>9
    <2>2. q <= HitLimit
      BY <1>1, <1>9, <1>14, <2>1
    <2> QED
      BY <1>12, <2>1, <2>2
  <1> QED
    BY <1>5, <1>11, <1>13, <1>14

(***************************************************************************)
(* What is stored.                                                         *)
(***************************************************************************)
OneRef(ps) == \A i, j \in 1 .. Len(ps) : ps[i].ref = ps[j].ref => i = j
InLibrary(ps) == \A i \in 1 .. Len(ps) : \E k \in 1 .. Len(Library) : Library[k] = ps[i]

LEMMA LibraryIs ==
    /\ Library \in Seq(Stored) /\ Len(Library) \in Nat /\ DOMAIN Library = 1 .. Len(Library)
    /\ OneRef(Library)
  <1>1. Library \in Seq(Stored) /\ Len(Library) \in Nat /\ DOMAIN Library = 1 .. Len(Library)
    BY RetrievalAssumption
  <1> QED
    BY <1>1, RetrievalAssumption DEF OneRef

LEMMA StoredInIs ==
    ASSUME NEW chunk
    PROVE  /\ StoredIn(chunk) \in Seq(Stored) /\ OneRef(StoredIn(chunk)) /\ InLibrary(StoredIn(chunk))
           /\ \A i \in 1 .. Len(StoredIn(chunk)) : StoredIn(chunk)[i].chunk = chunk
  <1> DEFINE S == {p \in ToSet(Library) : p.chunk = chunk}
             t == Among(Library, S)
  <1>1. t = StoredIn(chunk)
    BY DEF StoredIn
  <1>2. t \in Seq(Stored) /\ \E pos : Takes(pos, t, Library, Len(Library), S)
    <2> HIDE DEF S
    <2> QED
      BY LibraryIs, AmongTakes
  <1> HIDE DEF t
  <1>3. PICK pos : Takes(pos, t, Library, Len(Library), S)
    BY <1>2
  <1>4. /\ \A i \in 1 .. Len(t) : pos[i] \in 1 .. Len(Library) /\ t[i] = Library[pos[i]] /\ t[i].chunk = chunk
        /\ \A i, j \in 1 .. Len(t) : i < j => pos[i] < pos[j]
    BY <1>3 DEF Takes
  <1>5. OneRef(t)
    <2>1. ASSUME NEW i \in 1 .. Len(t), NEW j \in 1 .. Len(t), t[i].ref = t[j].ref
          PROVE  i = j
      <3>1. pos[i] = pos[j]
        BY <1>4, <2>1, LibraryIs DEF OneRef
      <3>2. ~(i < j) /\ ~(j < i)
        BY <1>4, <3>1, LibraryIs
      <3> QED
        BY <1>2, <3>2
    <2> QED
      BY <2>1 DEF OneRef
  <1> QED
    BY <1>1, <1>2, <1>4, <1>5 DEF InLibrary

LEMMA HydratedIs ==
    ASSUME NEW hits, InjectiveOver(hits, Chunks)
    PROVE  /\ Hydrated(hits) \in Seq(Stored) /\ OneRef(Hydrated(hits)) /\ InLibrary(Hydrated(hits))
           /\ \A i \in 1 .. Len(Hydrated(hits)) : Contains(hits, Hydrated(hits)[i].chunk)
  <1> DEFINE lists == [i \in DOMAIN hits |-> StoredIn(hits[i])]
             h == FlattenSeq(lists)
  <1>1. h = Hydrated(hits)
    BY DEF Hydrated
  <1>2. hits \in Seq(Chunks) /\ DOMAIN hits = 1 .. Len(hits) /\ Len(hits) \in Nat
    BY DEF InjectiveOver
  <1>3. /\ lists \in Seq(Seq(Stored)) /\ Len(lists) = Len(hits)
        /\ \A i \in 1 .. Len(hits) : lists[i] = StoredIn(hits[i])
    BY <1>2, StoredInIs
  <1> HIDE DEF lists
  <1>4. h \in Seq(Stored) /\ \E of, nth : Spreads(of, nth, h, lists, Len(lists))
    BY <1>3, FlattenSpreads
  <1> HIDE DEF h
  <1>5. PICK of, nth : Spreads(of, nth, h, lists, Len(lists))
    BY <1>4
  <1>6. \A q \in 1 .. Len(h) : /\ of[q] \in 1 .. Len(hits) /\ nth[q] \in 1 .. Len(StoredIn(hits[of[q]]))
                               /\ h[q] = StoredIn(hits[of[q]])[nth[q]]
    BY <1>3, <1>5 DEF Spreads
  <1>7. \A q, r \in 1 .. Len(h) : q < r => of[q] < of[r] \/ (of[q] = of[r] /\ nth[q] < nth[r])
    BY <1>5 DEF Spreads
  <1>8. \A q \in 1 .. Len(h) : h[q].chunk = hits[of[q]]
    BY <1>6, StoredInIs
  <1>9. ASSUME NEW q \in 1 .. Len(h)
        PROVE  /\ Contains(hits, h[q].chunk)
               /\ \E k \in 1 .. Len(Library) : Library[k] = h[q]
    <2>1. of[q] \in 1 .. Len(hits) /\ h[q].chunk = hits[of[q]]
      BY <1>6, <1>8
    <2>2. nth[q] \in 1 .. Len(StoredIn(hits[of[q]])) /\ h[q] = StoredIn(hits[of[q]])[nth[q]]
      BY <1>6
    <2>3. InLibrary(StoredIn(hits[of[q]]))
      BY StoredInIs
    <2> QED
      BY <2>1, <2>2, <2>3 DEF Contains, InLibrary
  <1>10. ASSUME NEW q \in 1 .. Len(h), NEW r \in 1 .. Len(h), h[q].ref = h[r].ref
         PROVE  q = r
    <2>1. h[q] = h[r]
      BY <1>9, <1>10, LibraryIs DEF OneRef
    <2>2. of[q] = of[r]
      <3>1. hits[of[q]] = hits[of[r]] /\ of[q] \in 1 .. Len(hits) /\ of[r] \in 1 .. Len(hits)
        BY <1>6, <1>8, <2>1
      <3> QED
        BY <3>1 DEF InjectiveOver
    <2>3. nth[q] = nth[r]
      <3>1. OneRef(StoredIn(hits[of[q]]))
        BY StoredInIs
      <3>2. /\ nth[q] \in 1 .. Len(StoredIn(hits[of[q]])) /\ nth[r] \in 1 .. Len(StoredIn(hits[of[q]]))
            /\ h[q] = StoredIn(hits[of[q]])[nth[q]] /\ h[r] = StoredIn(hits[of[q]])[nth[r]]
        BY <1>6, <2>2
      <3> QED
        BY <1>10, <3>1, <3>2 DEF OneRef
    <2>4. /\ of[q] \in Nat /\ of[r] \in Nat /\ nth[q] \in Nat /\ nth[r] \in Nat
      BY <1>2, <1>6
    <2>5. ~(q < r) /\ ~(r < q)
      BY <1>7, <2>2, <2>3, <2>4
    <2> QED
      BY <1>4, <2>5
  <1> QED
    BY <1>1, <1>4, <1>9, <1>10 DEF OneRef, InLibrary

(***************************************************************************)
(* Choices of paragraphs.                                                  *)
(***************************************************************************)
LEMMA MergedChoiceIs ==
    ASSUME NEW left \in Stored, NEW right \in Stored
    PROVE  /\ MergedChoice(left, right) \in Stored
           /\ MergedChoice(left, right).ref = left.ref
           /\ MergedChoice(left, right).text = right.text
           /\ MergedChoice(left, right).chunk = right.chunk
  <1> DEFINE pages == Distinct(left.pages \o right.pages)
             image == left.image \/ right.image
  <1>1. pages \in Seq(Int)
    <2>1. left.pages \o right.pages \in Seq(Int)
      BY DEF Stored
    <2> QED
      BY <2>1, DistinctIs
  <1>2. image \in BOOLEAN
    OBVIOUS
  <1>3. MergedChoice(left, right) = [right EXCEPT !.ref = left.ref, !.pages = pages, !.image = image]
    BY DEF MergedChoice
  <1> HIDE DEF pages, image
  <1> QED
    BY <1>1, <1>2, <1>3 DEF Stored

\* A text is added, or becomes one with the choice that has it.
LEMMA AddChoiceIs ==
    ASSUME NEW cs \in Seq(Stored), NEW p \in Stored
    PROVE  /\ AddChoice(cs, p) \in Seq(Stored)
           /\ \/ AddChoice(cs, p) = Append(cs, p)
              \/ \E n \in 1 .. Len(cs) : AddChoice(cs, p) = [cs EXCEPT ![n] = MergedChoice(cs[n], p)]
  <1> DEFINE I == {i \in 1 .. Len(cs) : cs[i].text = p.text}
             same == SelectInSeq(cs, LAMBDA c : c.text = p.text)
  <1>1. same = IF I # {} THEN Min(I) ELSE 0
    BY DEF SelectInSeq
  <1>2. AddChoice(cs, p) = IF same = 0 THEN Append(cs, p) ELSE [cs EXCEPT ![same] = MergedChoice(cs[same], p)]
    BY DEF AddChoice
  <1>3. same = 0 \/ same \in 1 .. Len(cs)
    <2>1. I \subseteq Nat
      OBVIOUS
    <2>2. I # {} => Min(I) \in I
      <3> HIDE DEF I
      <3> QED
        BY <2>1, Smallest
    <2> QED
      BY <1>1, <2>2
  <1> HIDE DEF same
  <1>4. CASE same = 0
    BY <1>2, <1>4
  <1>5. CASE same \in 1 .. Len(cs)
    <2>1. cs[same] \in Stored /\ same # 0
      BY <1>5
    <2>2. MergedChoice(cs[same], p) \in Stored
      BY <2>1, MergedChoiceIs
    <2>3. AddChoice(cs, p) = [cs EXCEPT ![same] = MergedChoice(cs[same], p)]
      BY <1>2, <2>1
    <2>4. [cs EXCEPT ![same] = MergedChoice(cs[same], p)] \in Seq(Stored)
      BY <1>5, <2>2
    <2> QED
      BY <1>5, <2>3, <2>4
  <1> QED
    BY <1>3, <1>4, <1>5

ChoicesAlong(g, ps) ==
    /\ g \in [0 .. Len(ps) -> Seq(Stored)]
    /\ g[0] = <<>>
    /\ \A k \in 1 .. Len(ps) : g[k] = AddChoice(g[k - 1], ps[k])
    /\ ParagraphChoices(ps) = g[Len(ps)]

LEMMA ChoiceSteps ==
    ASSUME NEW ps \in Seq(Stored)
    PROVE  \E g : ChoicesAlong(g, ps)
  <1> DEFINE n == Len(ps)
             A == Seq(Stored)
             base == <<>>
             With(a, x) == AddChoice(a, x)
             step == [k \in 1 .. n |-> [a \in A |-> With(a, ps[k])]]
             Solves(it) == it = [t \in SUBSET (1 .. n) |->
                                    IF t = {} THEN base ELSE With(it[t \ {Max(t)}], ps[Max(t)])]
             c == CHOOSE it : Solves(it)
  <1>1. n \in Nat /\ DOMAIN ps = 1 .. n /\ \A k \in 1 .. n : ps[k] \in Stored
    OBVIOUS
  <1>2. base \in A /\ \A a \in A, x \in Stored : With(a, x) \in A
    BY AddChoiceIs
  <1>3. step \in [1 .. n -> [A -> A]]
    BY <1>1, <1>2
  <1>4. \E it : Solves(it)
    <2>1. PICK it : FoldOf(it, A, base, n, step)
      <3> HIDE DEF base, step, n, A, With
      <3> QED
        BY <1>1, <1>2, <1>3, FoldSolution
    <2>2. ASSUME NEW t \in SUBSET (1 .. n), t # {}
          PROVE  it[t] = With(it[t \ {Max(t)}], ps[Max(t)])
      <3>1. Max(t) \in t
        <4>1. t \subseteq 0 .. n
          OBVIOUS
        <4> QED
          BY <1>1, <2>2, <4>1, Greatest
      <3>2. it[t \ {Max(t)}] \in A
        BY <2>1 DEF FoldOf
      <3> QED
        BY <2>1, <2>2, <3>1, <3>2 DEF FoldOf
    <2>3. Solves(it)
      BY <2>1, <2>2 DEF FoldOf
    <2> QED
      BY <2>3
  <1>5. Solves(c)
    <2> HIDE DEF Solves
    <2> QED
      BY <1>4
  <1>6. ParagraphChoices(ps) = c[1 .. n]
    BY <1>1 DEF ParagraphChoices, FoldLeft, MapThenFoldSet
  <1>7. c[{}] = base /\ \A k \in 1 .. n : c[1 .. k] = With(c[1 .. k - 1], ps[k])
    <2>1. c[{}] = base
      BY <1>5
    <2>2. ASSUME NEW k \in 1 .. n
          PROVE  c[1 .. k] = With(c[1 .. k - 1], ps[k])
      <3>1. /\ 1 .. k \in SUBSET (1 .. n) /\ 1 .. k # {}
            /\ Max(1 .. k) = k /\ (1 .. k) \ {k} = 1 .. k - 1
        BY <1>1, LastOfPrefix
      <3> HIDE DEF c
      <3> QED
        BY <1>5, <3>1
    <2> HIDE DEF c
    <2> QED
      BY <2>1, <2>2
  <1>8. Walks(c, A, base, n, step)
    <2> HIDE DEF c
    <2> QED
      BY <1>1, <1>7 DEF Walks
  <1>9. PICK g : Along(g, c, A, base, n, step)
    <2> HIDE DEF c, base, step, n, A, With
    <2> QED
      BY <1>1, <1>2, <1>3, <1>8, FoldAlong
  <1>10. \A k \in 1 .. n : g[k] = With(g[k - 1], ps[k])
    <2> SUFFICES ASSUME NEW k \in 1 .. n
                 PROVE  g[k] = With(g[k - 1], ps[k])
      OBVIOUS
    <2>1. g[k] = step[k][g[k - 1]] /\ g[k - 1] \in A
      <3>1. k - 1 \in 0 .. n
        BY <1>1
      <3> HIDE DEF step, A, n, base
      <3> QED
        BY <1>9, <3>1 DEF Along, Steps
    <2> QED
      BY <2>1
  <1>11. g \in [0 .. n -> A] /\ g[0] = base /\ g[n] = c[1 .. n]
    <2> HIDE DEF step, A, n, base, c
    <2> QED
      BY <1>9 DEF Along, Steps
  <1> HIDE DEF c
  <1> QED
    BY <1>6, <1>10, <1>11 DEF ChoicesAlong

\* What the choices of the first k paragraphs are: each has the reference of one of
\* them, and text and chunk of one.
Choosing(cs, ps, k) ==
    /\ OneRef(cs)
    /\ \A i \in 1 .. Len(cs) : \E j \in 1 .. k : ps[j].ref = cs[i].ref
    /\ \A i \in 1 .. Len(cs) : \E j \in 1 .. k : ps[j].text = cs[i].text /\ ps[j].chunk = cs[i].chunk

LEMMA ChoosingNext ==
    ASSUME NEW ps \in Seq(Stored), OneRef(ps), NEW k \in 1 .. Len(ps), NEW h, h = k - 1,
           NEW cs \in Seq(Stored), Choosing(cs, ps, h)
    PROVE  Choosing(AddChoice(cs, ps[k]), ps, k)
  <1> DEFINE p == ps[k]
             n == Len(cs)
             t == AddChoice(cs, p)
  <1>1. p \in Stored /\ n \in Nat /\ h \in Nat /\ t \in Seq(Stored)
    BY AddChoiceIs
  <1>2. /\ \A i \in 1 .. n : \E j \in 1 .. h : ps[j].ref = cs[i].ref
        /\ \A i \in 1 .. n : \E j \in 1 .. h : ps[j].text = cs[i].text /\ ps[j].chunk = cs[i].chunk
        /\ \A i, j \in 1 .. n : cs[i].ref = cs[j].ref => i = j
    BY DEF Choosing, OneRef
  <1>3. \A j \in 1 .. h : j \in 1 .. k /\ j \in 1 .. Len(ps) /\ j # k
    BY <1>1
  <1>4. \A i \in 1 .. n : cs[i].ref # p.ref
    BY <1>2, <1>3 DEF OneRef
  <1>5. CASE t = Append(cs, p)
    <2>1. Len(t) = n + 1 /\ t[n + 1] = p /\ \A i \in 1 .. n : t[i] = cs[i]
      BY <1>1, <1>5
    <2>2. \A i \in 1 .. Len(t) : i \in 1 .. n \/ i = n + 1
      BY <1>1, <2>1
    <2>3. OneRef(t)
      BY <1>2, <1>4, <2>1, <2>2 DEF OneRef
    <2> HIDE DEF t
    <2>4. ASSUME NEW i \in 1 .. Len(t)
          PROVE  /\ \E j \in 1 .. k : ps[j].ref = t[i].ref
                 /\ \E j \in 1 .. k : ps[j].text = t[i].text /\ ps[j].chunk = t[i].chunk
      <3>1. CASE i \in 1 .. n
        <4>1. t[i] = cs[i]
          BY <2>1, <3>1
        <4>2. PICK j \in 1 .. h : ps[j].ref = cs[i].ref
          BY <1>2, <3>1
        <4>3. PICK l \in 1 .. h : ps[l].text = cs[i].text /\ ps[l].chunk = cs[i].chunk
          BY <1>2, <3>1
        <4>4. j \in 1 .. k /\ l \in 1 .. k
          BY <1>3
        <4> QED
          BY <4>1, <4>2, <4>3, <4>4
      <3>2. CASE i = n + 1
        <4>1. k \in 1 .. k /\ t[i] = ps[k]
          BY <2>1, <3>2
        <4> QED
          BY <4>1
      <3> QED
        BY <2>2, <3>1, <3>2
    <2>6. Choosing(t, ps, k)
      BY <2>3, <2>4 DEF Choosing
    <2> QED
      BY <2>6 DEF t
  <1>6. ASSUME NEW m \in 1 .. n, t = [cs EXCEPT ![m] = MergedChoice(cs[m], p)]
        PROVE  Choosing(t, ps, k)
    <2> DEFINE c == MergedChoice(cs[m], p)
    <2>1. c.ref = cs[m].ref /\ c.text = p.text /\ c.chunk = p.chunk
      BY <1>1, MergedChoiceIs
    <2>2. Len(t) = n /\ t[m] = c /\ \A i \in 1 .. n : i # m => t[i] = cs[i]
      BY <1>1, <1>6
    <2> HIDE DEF c, t
    <2>3. \A i \in 1 .. n : t[i].ref = cs[i].ref
      BY <2>1, <2>2
    <2>4. OneRef(t)
      BY <1>2, <2>2, <2>3 DEF OneRef
    <2>5. \A i \in 1 .. Len(t) : \E j \in 1 .. k : ps[j].ref = t[i].ref
      BY <1>2, <1>3, <2>2, <2>3
    <2>6. \A i \in 1 .. Len(t) : \E j \in 1 .. k : ps[j].text = t[i].text /\ ps[j].chunk = t[i].chunk
      <3> SUFFICES ASSUME NEW i \in 1 .. Len(t)
                   PROVE  \E j \in 1 .. k : ps[j].text = t[i].text /\ ps[j].chunk = t[i].chunk
        OBVIOUS
      <3>1. CASE i = m
        <4>1. k \in 1 .. k
          BY <1>1
        <4> QED
          BY <1>1, <2>1, <2>2, <3>1, <4>1
      <3>2. CASE i # m
        <4>1. t[i] = cs[i] /\ i \in 1 .. n
          BY <2>2, <3>2
        <4>2. PICK l \in 1 .. h : ps[l].text = cs[i].text /\ ps[l].chunk = cs[i].chunk
          BY <1>2, <4>1
        <4>3. l \in 1 .. k
          BY <1>3
        <4> QED
          BY <4>1, <4>2, <4>3
      <3> QED
        BY <3>1, <3>2
    <2> QED
      BY <2>4, <2>5, <2>6 DEF Choosing
  <1>7. t = Append(cs, p) \/ \E m \in 1 .. n : t = [cs EXCEPT ![m] = MergedChoice(cs[m], p)]
    BY <1>1, AddChoiceIs
  <1> QED
    BY <1>5, <1>6, <1>7

LEMMA ChoicesAre ==
    ASSUME NEW ps \in Seq(Stored), OneRef(ps)
    PROVE  ParagraphChoices(ps) \in Seq(Stored) /\ Choosing(ParagraphChoices(ps), ps, Len(ps))
  <1>1. PICK g : ChoicesAlong(g, ps)
    BY ChoiceSteps
  <1> DEFINE T == {k \in 0 .. Len(ps) : Choosing(g[k], ps, k)}
  <1>2. 0 \in T
    <2>1. g[0] = <<>> /\ 0 \in 0 .. Len(ps)
      BY <1>1 DEF ChoicesAlong
    <2>2. Choosing(<<>>, ps, 0)
      BY DEF Choosing, OneRef
    <2> QED
      BY <2>1, <2>2
  <1>3. ASSUME NEW k \in Nat, k < Len(ps), k \in T
        PROVE  k + 1 \in T
    <2>1. /\ k + 1 \in 1 .. Len(ps) /\ k + 1 \in 0 .. Len(ps) /\ k = (k + 1) - 1
          /\ g[k] \in Seq(Stored) /\ Choosing(g[k], ps, k)
      BY <1>1, <1>3 DEF ChoicesAlong
    <2>2. g[k + 1] = AddChoice(g[k + 1 - 1], ps[k + 1])
      BY <1>1, <2>1 DEF ChoicesAlong
    <2>3. Choosing(AddChoice(g[k], ps[k + 1]), ps, k + 1)
      BY <2>1, ChoosingNext
    <2> QED
      BY <2>1, <2>2, <2>3
  <1>4. Len(ps) \in T
    <2>1. Len(ps) \in Nat /\ Len(ps) \in 0 .. Len(ps)
      OBVIOUS
    <2> HIDE DEF T
    <2>2. \A k \in 0 .. Len(ps) : k \in T
      BY <1>2, <1>3, <2>1, UpTo
    <2> QED
      BY <2>1, <2>2
  <1>5. ParagraphChoices(ps) = g[Len(ps)] /\ g[Len(ps)] \in Seq(Stored)
    BY <1>1 DEF ChoicesAlong
  <1> QED
    BY <1>4, <1>5

(***************************************************************************)
(* Words.                                                                  *)
(***************************************************************************)
WordsAlong(g, ps) ==
    /\ g \in [0 .. Len(ps) -> Nat]
    /\ g[0] = 0
    /\ \A k \in 1 .. Len(ps) : g[k] = g[k - 1] + Words[ps[k].text]
    /\ WordCount(ps) = g[Len(ps)]

LEMMA WordSteps ==
    ASSUME NEW ps \in Seq(Stored)
    PROVE  \E g : WordsAlong(g, ps)
  <1> DEFINE n == Len(ps)
             A == Nat
             base == 0
             With(a, x) == a + Words[x.text]
             step == [k \in 1 .. n |-> [a \in A |-> With(a, ps[k])]]
             Solves(it) == it = [t \in SUBSET (1 .. n) |->
                                    IF t = {} THEN base ELSE With(it[t \ {Max(t)}], ps[Max(t)])]
             c == CHOOSE it : Solves(it)
  <1>1. n \in Nat /\ DOMAIN ps = 1 .. n /\ \A k \in 1 .. n : ps[k] \in Stored
    OBVIOUS
  <1>2. base \in A /\ \A a \in A, x \in Stored : With(a, x) \in A
    BY RetrievalAssumption DEF Stored
  <1>3. step \in [1 .. n -> [A -> A]]
    BY <1>1, <1>2
  <1>4. \E it : Solves(it)
    <2>1. PICK it : FoldOf(it, A, base, n, step)
      <3> HIDE DEF base, step, n, A, With
      <3> QED
        BY <1>1, <1>2, <1>3, FoldSolution
    <2>2. ASSUME NEW t \in SUBSET (1 .. n), t # {}
          PROVE  it[t] = With(it[t \ {Max(t)}], ps[Max(t)])
      <3>1. Max(t) \in t
        <4>1. t \subseteq 0 .. n
          OBVIOUS
        <4> QED
          BY <1>1, <2>2, <4>1, Greatest
      <3>2. it[t \ {Max(t)}] \in A
        BY <2>1 DEF FoldOf
      <3> QED
        BY <2>1, <2>2, <3>1, <3>2 DEF FoldOf
    <2>3. Solves(it)
      BY <2>1, <2>2 DEF FoldOf
    <2> QED
      BY <2>3
  <1>5. Solves(c)
    <2> HIDE DEF Solves
    <2> QED
      BY <1>4
  <1>6. WordCount(ps) = c[1 .. n]
    BY <1>1 DEF WordCount, FoldLeft, MapThenFoldSet
  <1>7. c[{}] = base /\ \A k \in 1 .. n : c[1 .. k] = With(c[1 .. k - 1], ps[k])
    <2>1. c[{}] = base
      BY <1>5
    <2>2. ASSUME NEW k \in 1 .. n
          PROVE  c[1 .. k] = With(c[1 .. k - 1], ps[k])
      <3>1. /\ 1 .. k \in SUBSET (1 .. n) /\ 1 .. k # {}
            /\ Max(1 .. k) = k /\ (1 .. k) \ {k} = 1 .. k - 1
        BY <1>1, LastOfPrefix
      <3> HIDE DEF c
      <3> QED
        BY <1>5, <3>1
    <2> HIDE DEF c
    <2> QED
      BY <2>1, <2>2
  <1>8. Walks(c, A, base, n, step)
    <2> HIDE DEF c
    <2> QED
      BY <1>1, <1>7 DEF Walks
  <1>9. PICK g : Along(g, c, A, base, n, step)
    <2> HIDE DEF c, base, step, n, A, With
    <2> QED
      BY <1>1, <1>2, <1>3, <1>8, FoldAlong
  <1>10. \A k \in 1 .. n : g[k] = With(g[k - 1], ps[k])
    <2> SUFFICES ASSUME NEW k \in 1 .. n
                 PROVE  g[k] = With(g[k - 1], ps[k])
      OBVIOUS
    <2>1. g[k] = step[k][g[k - 1]] /\ g[k - 1] \in A
      <3>1. k - 1 \in 0 .. n
        BY <1>1
      <3> HIDE DEF step, A, n, base
      <3> QED
        BY <1>9, <3>1 DEF Along, Steps
    <2> QED
      BY <2>1
  <1>11. g \in [0 .. n -> A] /\ g[0] = base /\ g[n] = c[1 .. n]
    <2> HIDE DEF step, A, n, base, c
    <2> QED
      BY <1>9 DEF Along, Steps
  <1> HIDE DEF c
  <1> QED
    BY <1>6, <1>10, <1>11 DEF WordsAlong

LEMMA KeptFits ==
    ASSUME NEW ps \in Seq(Stored), NEW m \in Nat, NEW tokens \in Nat
    PROVE  /\ Kept(ps, m, tokens) \in Seq(Stored) /\ IsPrefix(Kept(ps, m, tokens), ps)
           /\ WordCount(Kept(ps, m, tokens)) <= tokens
  <1> DEFINE fits == {n \in 0 .. Len(ps) : n <= m /\ WordCount(Prefix(ps, n)) <= tokens}
             last == CHOOSE n \in fits : \A i \in fits : i <= n
  <1>1. Kept(ps, m, tokens) = Prefix(ps, last)
    BY DEF Kept
  <1>2. 0 \in fits
    <2>1. Prefix(ps, 0) \in Seq(Stored) /\ Len(Prefix(ps, 0)) = 0
      BY PrefixIs
    <2>2. PICK g : WordsAlong(g, Prefix(ps, 0))
      BY <2>1, WordSteps
    <2>3. WordCount(Prefix(ps, 0)) = 0
      BY <2>1, <2>2 DEF WordsAlong
    <2> QED
      BY <2>3
  <1>3. \E n \in fits : \A i \in fits : i <= n
    <2>1. fits \subseteq 0 .. Len(ps) /\ fits # {} /\ Len(ps) \in Nat
      BY <1>2
    <2> HIDE DEF fits
    <2> QED
      BY <2>1, Greatest
  <1>4. last \in fits
    <2> HIDE DEF fits
    <2> QED
      BY <1>3
  <1> HIDE DEF last
  <1>5. last \in 0 .. Len(ps) /\ WordCount(Prefix(ps, last)) <= tokens
    BY <1>4
  <1>6. /\ Prefix(ps, last) \in Seq(Stored) /\ Len(Prefix(ps, last)) = last
        /\ \A i \in 1 .. last : Prefix(ps, last)[i] = ps[i]
    BY <1>5, PrefixIs
  <1>7. IsPrefix(Prefix(ps, last), ps)
    <2> DEFINE t == Prefix(ps, last)
    <2>1. SubSeq(t, 1, Len(t)) = SubSeq(ps, 1, Len(t))
      <3> HIDE DEF t
      <3>1. t \in Seq(Stored) /\ Len(t) = last /\ \A i \in 1 .. last : t[i] = ps[i]
        BY <1>6 DEF t
      <3> QED
        BY <1>5, <3>1
    <2> QED
      BY <1>5, <1>6, <2>1 DEF IsPrefix
  <1> QED
    BY <1>1, <1>5, <1>6, <1>7

(***************************************************************************)
(* Selections.                                                             *)
(***************************************************************************)
LEMMA PermutationsAre ==
    ASSUME NEW S, IsFiniteSet(S), NEW s \in SetToAllKPermutations(S)
    PROVE  InjectiveOver(s, S)
  <1>1. PICK T \in SUBSET S : s \in SetToSeqs(T)
    BY DEF SetToAllKPermutations
  <1>2. Cardinality(T) \in Nat
    BY FS_Subset, FS_CardinalityType
  <1>3. /\ s \in [1 .. Cardinality(T) -> T]
        /\ \A i, j \in 1 .. Cardinality(T) : i # j => s[i] # s[j]
    BY <1>1 DEF SetToSeqs
  <1>4. s \in Seq(S) /\ Len(s) = Cardinality(T)
    BY <1>2, <1>3
  <1> QED
    BY <1>3, <1>4 DEF InjectiveOver

\* What a context is that a model has selected, in the scope of its hits.
Selection(picked, hits) ==
    /\ picked.paragraphs \in Seq(Stored)
    /\ picked.roles \in Seq(Seq(Nat)) /\ InjectiveOver(picked.refs, Nat)
    /\ picked.roles = <<>> \/ picked.refs = <<>>
    /\ InScope(picked, hits)
    /\ \A p \in ToSet(picked.paragraphs) :
          \E q \in ToSet(Library) : q.text = p.text /\ q.chunk = p.chunk

LEMMA NoRefs ==
    ToSet(Distinct(FlattenSeq(<<>>))) = {}
  <1>1. <<>> \in Seq(Seq(Nat)) /\ Len(<<>>) = 0
    OBVIOUS
  <1>2. /\ FlattenSeq(<<>>) \in Seq(Nat)
        /\ \A x : x \in ToSet(FlattenSeq(<<>>)) <=> \E i \in 1 .. 0 : x \in ToSet(<<>>[i])
    BY <1>1, FlattenIs
  <1>3. ToSet(FlattenSeq(<<>>)) = {}
    BY <1>2
  <1> QED
    BY <1>2, <1>3, DistinctIs

LEMMA DirectSelection ==
    ASSUME NEW hits, InjectiveOver(hits, Chunks), NEW found, found = Hydrated(hits),
           NEW choices, choices = ParagraphChoices(found),
           NEW keys \in SetToAllKPermutations(DOMAIN choices \cup {Len(choices) + 1}),
           ~ \E i \in DOMAIN keys : keys[i] > Len(choices),
           NEW chosen, chosen = [i \in DOMAIN keys |-> choices[keys[i]]]
    PROVE  Selection(Context(<<>>, chosen, [i \in DOMAIN chosen |-> chosen[i].ref]), hits)
  <1> DEFINE refs == [i \in DOMAIN chosen |-> chosen[i].ref]
             picked == Context(<<>>, chosen, refs)
  <1>1. /\ found \in Seq(Stored) /\ OneRef(found) /\ InLibrary(found)
        /\ \A i \in 1 .. Len(found) : Contains(hits, found[i].chunk)
    BY HydratedIs
  <1>2. choices \in Seq(Stored) /\ Choosing(choices, found, Len(found))
    BY <1>1, ChoicesAre
  <1>3. DOMAIN choices = 1 .. Len(choices) /\ Len(choices) \in Nat
    BY <1>2
  <1>4. InjectiveOver(keys, DOMAIN choices \cup {Len(choices) + 1})
    <2>1. IsFiniteSet(1 .. Len(choices) + 1)
      BY <1>3, FS_Interval
    <2>2. DOMAIN choices \cup {Len(choices) + 1} = 1 .. Len(choices) + 1
      BY <1>3
    <2> QED
      BY <2>1, <2>2, PermutationsAre
  <1>5. /\ DOMAIN keys = 1 .. Len(keys) /\ Len(keys) \in Nat
        /\ \A i \in 1 .. Len(keys) : keys[i] \in 1 .. Len(choices)
        /\ \A i, j \in 1 .. Len(keys) : keys[i] = keys[j] => i = j
    BY <1>3, <1>4 DEF InjectiveOver
  <1>6. /\ chosen \in Seq(Stored) /\ Len(chosen) = Len(keys) /\ DOMAIN chosen = 1 .. Len(keys)
        /\ \A i \in 1 .. Len(keys) : chosen[i] = choices[keys[i]]
    BY <1>2, <1>5
  <1>7. \A i, j \in 1 .. Len(keys) : chosen[i].ref = chosen[j].ref => i = j
    BY <1>2, <1>5, <1>6 DEF OneRef, Choosing
  <1>8. /\ refs \in Seq(Nat) /\ Len(refs) = Len(keys) /\ DOMAIN refs = 1 .. Len(keys)
        /\ \A i \in 1 .. Len(keys) : refs[i] = chosen[i].ref
    BY <1>5, <1>6 DEF Stored
  <1>9. ASSUME NEW i \in 1 .. Len(keys)
        PROVE  /\ \E j \in 1 .. Len(found) : found[j].ref = chosen[i].ref
               /\ \E j \in 1 .. Len(found) : found[j].text = chosen[i].text /\ found[j].chunk = chosen[i].chunk
    BY <1>2, <1>5, <1>6 DEF Choosing
  <1> HIDE DEF refs
  <1>10. InjectiveOver(refs, Nat)
    <2>1. \A i, j \in 1 .. Len(keys) : refs[i] = refs[j] => i = j
      BY <1>7, <1>8
    <2> QED
      BY <1>8, <2>1 DEF InjectiveOver
  <1>11. picked.roles = <<>> /\ picked.paragraphs = chosen /\ picked.refs = refs
    BY DEF Context
  <1> HIDE DEF picked
  <1>12. ToSet(RefsOf(picked)) \subseteq {chosen[i].ref : i \in 1 .. Len(keys)}
    <2>1. CASE refs # <<>>
      <3>1. RefsOf(picked) = refs
        BY <1>11, <2>1 DEF RefsOf
      <3>2. ToSet(refs) = {refs[i] : i \in 1 .. Len(keys)}
        BY <1>8 DEF ToSet
      <3>3. ASSUME NEW x \in ToSet(refs)
            PROVE  x \in {chosen[i].ref : i \in 1 .. Len(keys)}
        <4>1. PICK i \in 1 .. Len(keys) : x = refs[i]
          BY <3>2
        <4> QED
          BY <1>8, <4>1
      <3> QED
        BY <3>1, <3>3
    <2>2. CASE refs = <<>>
      <3>1. RefsOf(picked) = Distinct(FlattenSeq(<<>>))
        BY <1>11, <2>2 DEF RefsOf
      <3> QED
        BY <3>1, NoRefs
    <2> QED
      BY <2>1, <2>2
  <1>13. InScope(picked, hits)
    <2>1. \A i, j \in DOMAIN chosen : chosen[i].ref = chosen[j].ref => i = j
      BY <1>6, <1>7
    <2>2. ASSUME NEW ref \in ToSet(RefsOf(picked))
          PROVE  /\ \E i \in DOMAIN chosen : chosen[i].ref = ref
                 /\ \E p \in ToSet(Hydrated(hits)) : p.ref = ref
      <3>1. PICK i \in 1 .. Len(keys) : ref = chosen[i].ref
        BY <1>12
      <3>2. PICK j \in 1 .. Len(found) : found[j].ref = chosen[i].ref
        BY <1>9
      <3>3. found[j] \in ToSet(Hydrated(hits))
        BY <1>1 DEF ToSet
      <3> QED
        BY <1>6, <3>1, <3>2, <3>3
    <2>3. \A i \in DOMAIN chosen : Contains(hits, chosen[i].chunk)
      BY <1>1, <1>6, <1>9
    <2> QED
      BY <1>11, <2>1, <2>2, <2>3 DEF InScope
  <1>14. ASSUME NEW p \in ToSet(chosen)
         PROVE  \E q \in ToSet(Library) : q.text = p.text /\ q.chunk = p.chunk
    <2>1. PICK i \in 1 .. Len(keys) : p = chosen[i]
      BY <1>6 DEF ToSet
    <2>2. PICK j \in 1 .. Len(found) : found[j].text = chosen[i].text /\ found[j].chunk = chosen[i].chunk
      BY <1>9
    <2>3. PICK k \in 1 .. Len(Library) : Library[k] = found[j]
      BY <1>1 DEF InLibrary
    <2>4. Library[k] \in ToSet(Library)
      BY LibraryIs DEF ToSet
    <2> QED
      BY <2>1, <2>2, <2>3, <2>4
  <1>15. Selection(picked, hits)
    BY <1>6, <1>10, <1>11, <1>13, <1>14 DEF Selection
  <1> QED
    BY <1>15 DEF picked, refs

(***************************************************************************)
(* Selected concepts.                                                      *)
(***************************************************************************)
Rels == [ref : Nat \ {0}, chunk : Nat \ {0}, key : STRING, spelling : STRING, role : STRING]

LEMMA RangeFinite ==
    ASSUME NEW n \in Nat, NEW f, DOMAIN f = 1 .. n
    PROVE  IsFiniteSet({f[i] : i \in 1 .. n})
  <1> DEFINE T == {f[i] : i \in 1 .. n}
             g == [i \in 1 .. n |-> f[i]]
  <1>1. IsFiniteSet(1 .. n)
    BY FS_Interval
  <1>2. g \in Surjection(1 .. n, T)
    BY DEF Surjection
  <1> QED
    BY <1>1, <1>2, FS_Surjection

LEMMA RelationsAre ==
    ASSUME NEW ps \in Seq(Stored)
    PROVE  /\ Relations(ps) \in Seq(Rels)
           /\ \A r \in ToSet(Relations(ps)) : \E i \in 1 .. Len(ps) : ps[i].ref = r.ref
  <1> DEFINE Rel(i, j) == [ref |-> ps[i].ref, chunk |-> ps[i].chunk, key |-> ps[i].facts[j][1],
                           spelling |-> ps[i].facts[j][2], role |-> ps[i].facts[j][3]]
             Of(i) == [j \in DOMAIN ps[i].facts |-> Rel(i, j)]
             lists == [i \in DOMAIN ps |-> Of(i)]
  <1>1. DOMAIN ps = 1 .. Len(ps) /\ Len(ps) \in Nat
    OBVIOUS
  <1>2. ASSUME NEW i \in 1 .. Len(ps), NEW j \in DOMAIN ps[i].facts
        PROVE  Rel(i, j) \in Rels /\ Rel(i, j).ref = ps[i].ref
    <2>1. ps[i].ref \in Nat \ {0} /\ ps[i].chunk \in Nat \ {0} /\ ps[i].facts \in Seq(Facts)
      <3>1. ps[i] \in Stored
        BY <1>1
      <3> QED
        BY <3>1 DEF Stored
    <2>2. ps[i].facts[j] \in [1 .. 3 -> STRING]
      BY <2>1 DEF Facts
    <2>3. ps[i].facts[j][1] \in STRING /\ ps[i].facts[j][2] \in STRING /\ ps[i].facts[j][3] \in STRING
      BY <2>2
    <2> QED
      BY <2>1, <2>3 DEF Rels
  <1>3. ASSUME NEW i \in 1 .. Len(ps)
        PROVE  /\ Of(i) \in Seq(Rels)
               /\ \A r \in ToSet(Of(i)) : r.ref = ps[i].ref
    <2>1. ps[i].facts \in Seq(Facts)
      <3>1. ps[i] \in Stored
        BY <1>1
      <3> QED
        BY <3>1 DEF Stored
    <2>2. DOMAIN ps[i].facts = 1 .. Len(ps[i].facts) /\ Len(ps[i].facts) \in Nat
      BY <2>1
    <2>3. \A j \in DOMAIN ps[i].facts : Rel(i, j) \in Rels /\ Rel(i, j).ref = ps[i].ref
      BY <1>2
    <2> HIDE DEF Rel
    <2>4. Of(i) = [j \in 1 .. Len(ps[i].facts) |-> Rel(i, j)]
      BY <2>2
    <2>5. Of(i) \in Seq(Rels) /\ DOMAIN Of(i) = 1 .. Len(ps[i].facts)
      BY <2>2, <2>3, <2>4
    <2>6. \A j \in DOMAIN Of(i) : Of(i)[j].ref = ps[i].ref
      BY <2>2, <2>3, <2>4
    <2> HIDE DEF Of
    <2> QED
      BY <2>5, <2>6 DEF ToSet
  <1> HIDE DEF Of
  <1>4. lists \in Seq(Seq(Rels)) /\ Len(lists) = Len(ps) /\ \A i \in 1 .. Len(ps) : lists[i] = Of(i)
    BY <1>1, <1>3
  <1>5. Relations(ps) = FlattenSeq(lists)
    BY DEF Relations, Of
  <1> HIDE DEF lists
  <1>6. /\ FlattenSeq(lists) \in Seq(Rels)
        /\ \A x : x \in ToSet(FlattenSeq(lists)) <=> \E i \in 1 .. Len(lists) : x \in ToSet(lists[i])
    BY <1>4, FlattenIs
  <1>7. ASSUME NEW r \in ToSet(Relations(ps))
        PROVE  \E i \in 1 .. Len(ps) : ps[i].ref = r.ref
    <2>1. PICK i \in 1 .. Len(ps) : r \in ToSet(Of(i))
      BY <1>4, <1>5, <1>6
    <2> QED
      BY <1>3, <2>1
  <1> QED
    BY <1>5, <1>6, <1>7

\* The references a selected concept and role stand for; a valid one has some.
LEMMA TraversedIs ==
    ASSUME NEW rels \in Seq(Rels), NEW pick
    PROVE  /\ Traversed(rels, pick) \in Seq(Nat)
           /\ \A ref \in ToSet(Traversed(rels, pick)) : \E r \in ToSet(rels) : r.ref = ref
           /\ (\E r \in ToSet(rels) : IsAbout(r, pick) /\ r.chunk \in pick.item.chunks)
                 => Traversed(rels, pick) # <<>>
  <1> DEFINE S == {r.ref : r \in {x \in ToSet(rels) : IsAbout(x, pick) /\ x.chunk \in pick.item.chunks}}
             R == {p \in S \X S : p[1] < p[2]}
             t == Traversed(rels, pick)
  <1>1. S \subseteq Nat /\ \A ref \in S : \E r \in ToSet(rels) : r.ref = ref
    <2>1. \A r \in ToSet(rels) : r \in Rels
      BY DEF ToSet
    <2>2. \A r \in ToSet(rels) : r.ref \in Nat
      BY <2>1 DEF Rels
    <2> QED
      BY <2>2
  <1>2. IsFiniteSet(S)
    <2>1. DOMAIN rels = 1 .. Len(rels) /\ Len(rels) \in Nat
      OBVIOUS
    <2> DEFINE f == [i \in 1 .. Len(rels) |-> rels[i].ref]
    <2>2. IsFiniteSet({f[i] : i \in 1 .. Len(rels)})
      <3>1. DOMAIN f = 1 .. Len(rels)
        OBVIOUS
      <3> HIDE DEF f
      <3> QED
        BY <2>1, <3>1, RangeFinite
    <2>3. S \subseteq {f[i] : i \in 1 .. Len(rels)}
      BY <2>1 DEF ToSet
    <2> QED
      BY <2>2, <2>3, FS_Subset
  <1>3. (\E r \in ToSet(rels) : IsAbout(r, pick) /\ r.chunk \in pick.item.chunks) => S # {}
    OBVIOUS
  <1>4. t = [i \in 1 .. Cardinality(S) |->
                CHOOSE x \in S : Cardinality({y \in S : y < x}) = i - 1]
    BY DEF Traversed, InOrder
  <1> HIDE DEF S, t
  <1>5. Sorts(R, S)
    BY <1>1 DEF Sorts
  <1>6. \A x \in S : Below(x, R, S) = {y \in S : y < x}
    BY DEF Below
  <1> HIDE DEF R
  <1>7. Cardinality(S) \in Nat
    BY <1>2, FS_CardinalityType
  <1>8. ASSUME NEW i \in 1 .. Cardinality(S)
        PROVE  t[i] \in S
    <2>1. \E x \in S : Cardinality(Below(x, R, S)) = i - 1
      BY <1>2, <1>5, RankTaken
    <2>2. \E x \in S : Cardinality({y \in S : y < x}) = i - 1
      BY <1>6, <2>1
    <2>3. t[i] = CHOOSE x \in S : Cardinality({y \in S : y < x}) = i - 1
      BY <1>4
    <2> QED
      BY <2>2, <2>3
  <1>9. t \in Seq(S) /\ Len(t) = Cardinality(S)
    <2>1. t \in [1 .. Cardinality(S) -> S]
      BY <1>4, <1>8
    <2> QED
      BY <1>7, <2>1
  <1>10. t \in Seq(Nat)
    <2>1. \A i \in 1 .. Len(t) : t[i] \in Nat
      BY <1>1, <1>8, <1>9
    <2> QED
      BY <1>9, <2>1
  <1>11. \A ref \in ToSet(t) : ref \in S
    BY <1>9 DEF ToSet
  <1>12. S # {} => t # <<>>
    <2>1. S # {} => Cardinality(S) # 0
      BY <1>2, FS_EmptySet
    <2> QED
      BY <1>9, <2>1
  <1>13. \A ref \in ToSet(t) : \E r \in ToSet(rels) : r.ref = ref
    BY <1>1, <1>11
  <1> QED
    BY <1>3, <1>10, <1>12, <1>13 DEF t

LEMMA PickStands ==
    ASSUME NEW rels \in Seq(Rels), NEW picks \in Picks(Inventory(rels)), Valid(picks),
           NEW i \in DOMAIN picks
    PROVE  \E r \in ToSet(rels) : IsAbout(r, picks[i]) /\ r.chunk \in picks[i].item.chunks
  <1> DEFINE it == picks[i].item
             role == picks[i].role
  <1>1. it \in Inventory(rels)
    BY DEF Picks
  <1>2. role \in it.roles
    BY DEF Valid
  <1> DEFINE Label(k) == rels[SelectInSeq(rels, LAMBDA r : r.key = k)].spelling
             Item(k) == [key |-> k, label |-> Label(k),
                         roles |-> {r.role : r \in {x \in ToSet(rels) : x.key = k}},
                         chunks |-> {r.chunk : r \in {x \in ToSet(rels) : x.key = k}}]
  <1>6. Inventory(rels) = {Item(k) : k \in {r.key : r \in ToSet(rels)}}
    BY DEF Inventory
  <1> HIDE DEF Label
  <1>3. PICK k \in {r.key : r \in ToSet(rels)} :
           /\ it.key = k
           /\ it.roles = {r.role : r \in {x \in ToSet(rels) : x.key = k}}
           /\ it.chunks = {r.chunk : r \in {x \in ToSet(rels) : x.key = k}}
    <2>1. PICK k \in {r.key : r \in ToSet(rels)} : it = Item(k)
      <3> HIDE DEF Item, it
      <3> QED
        BY <1>1, <1>6
    <2> QED
      BY <2>1
  <1>4. PICK r \in ToSet(rels) : r.key = k /\ r.role = role
    BY <1>2, <1>3
  <1>5. r.chunk \in it.chunks
    BY <1>3, <1>4
  <1> QED
    BY <1>3, <1>4, <1>5 DEF IsAbout

LEMMA ByRefIs ==
    ASSUME NEW ps \in Seq(Stored), NEW ref, \E i \in 1 .. Len(ps) : ps[i].ref = ref
    PROVE  \E i \in 1 .. Len(ps) : ByRef(ps, ref) = ps[i] /\ ps[i].ref = ref
  <1> DEFINE I == {i \in 1 .. Len(ps) : ps[i].ref = ref}
             n == SelectInSeq(ps, LAMBDA p : p.ref = ref)
  <1>1. n = IF I # {} THEN Min(I) ELSE 0
    BY DEF SelectInSeq
  <1>2. I \subseteq Nat /\ I # {}
    OBVIOUS
  <1>3. Min(I) \in I
    <2> HIDE DEF I
    <2> QED
      BY <1>2, Smallest
  <1>4. n \in 1 .. Len(ps) /\ ps[n].ref = ref
    BY <1>1, <1>2, <1>3
  <1>5. ByRef(ps, ref) = ps[n]
    BY DEF ByRef
  <1> HIDE DEF n
  <1> QED
    BY <1>4, <1>5

\* The elements of a sequence are elements of another.
Within(ps, all) == \A i \in 1 .. Len(ps) : \E k \in 1 .. Len(all) : all[k] = ps[i]

\* The images are added to what is selected, none twice.
LEMMA WithImagesIs ==
    ASSUME NEW ps \in Seq(Stored), NEW all \in Seq(Stored), OneRef(ps), OneRef(all),
           Within(ps, all), NEW wanted
    PROVE  /\ WithImages(ps, all, wanted) \in Seq(Stored) /\ OneRef(WithImages(ps, all, wanted))
           /\ Within(WithImages(ps, all, wanted), all)
           /\ Within(ps, WithImages(ps, all, wanted))
  <1> DEFINE chunks == {ps[i].chunk : i \in DOMAIN ps}
             S == {p \in ToSet(all) : p.chunk \in chunks /\ p.image /\ ~Contains(ps, p)}
             more == Among(all, S)
             t == ps \o more
  <1>1. WithImages(ps, all, wanted) = IF ~wanted THEN ps ELSE t
    BY DEF WithImages
  <1>2. CASE ~wanted
    <2>1. WithImages(ps, all, wanted) = ps
      BY <1>1, <1>2
    <2> QED
      BY <2>1 DEF Within
  <1>3. CASE wanted
    <2>1. WithImages(ps, all, wanted) = t
      BY <1>1, <1>3
    <2>2. \A p \in S : ~Contains(ps, p)
      OBVIOUS
    <2> HIDE DEF S
    <2>3. more \in Seq(Stored) /\ \E pos : Takes(pos, more, all, Len(all), S)
      BY AmongTakes
    <2> HIDE DEF more
    <2>4. PICK pos : Takes(pos, more, all, Len(all), S)
      BY <2>3
    <2>5. /\ \A i \in 1 .. Len(more) : /\ pos[i] \in 1 .. Len(all) /\ more[i] = all[pos[i]]
                                       /\ more[i] \in S
          /\ \A i, j \in 1 .. Len(more) : i < j => pos[i] < pos[j]
      BY <2>4 DEF Takes
    <2>6. \A i, j \in 1 .. Len(more) : more[i].ref = more[j].ref => i = j
      <3>1. ASSUME NEW i \in 1 .. Len(more), NEW j \in 1 .. Len(more), more[i].ref = more[j].ref
            PROVE  i = j
        <4>1. pos[i] = pos[j]
          BY <2>5, <3>1 DEF OneRef
        <4>2. ~(i < j) /\ ~(j < i)
          BY <2>5, <4>1
        <4> QED
          BY <2>3, <4>2
      <3> QED
        BY <3>1
    <2>7. ASSUME NEW i \in 1 .. Len(ps), NEW j \in 1 .. Len(more), ps[i].ref = more[j].ref
          PROVE  FALSE
      <3>1. PICK k \in 1 .. Len(all) : all[k] = ps[i]
        BY DEF Within
      <3>2. k = pos[j]
        BY <2>5, <2>7, <3>1 DEF OneRef
      <3>3. more[j] = ps[i]
        BY <2>5, <3>1, <3>2
      <3>4. Contains(ps, more[j])
        BY <3>3 DEF Contains
      <3> QED
        BY <2>2, <2>5, <3>4
    <2>8. /\ t \in Seq(Stored) /\ Len(t) = Len(ps) + Len(more) /\ Len(ps) \in Nat /\ Len(more) \in Nat
          /\ \A i \in 1 .. Len(ps) : t[i] = ps[i]
          /\ \A i \in 1 .. Len(more) : t[Len(ps) + i] = more[i]
      BY <2>3
    <2> HIDE DEF t
    <2>9. \A i \in 1 .. Len(t) : i \in 1 .. Len(ps) \/ (i - Len(ps) \in 1 .. Len(more) /\ t[i] = more[i - Len(ps)])
      <3>1. ASSUME NEW i \in 1 .. Len(t), i \notin 1 .. Len(ps)
            PROVE  i - Len(ps) \in 1 .. Len(more) /\ t[i] = more[i - Len(ps)]
        <4>1. i - Len(ps) \in 1 .. Len(more) /\ Len(ps) + (i - Len(ps)) = i
          BY <2>8, <3>1
        <4> QED
          BY <2>8, <4>1
      <3> QED
        BY <3>1
    <2>10. OneRef(t)
      <3>1. ASSUME NEW i \in 1 .. Len(t), NEW j \in 1 .. Len(t), t[i].ref = t[j].ref
            PROVE  i = j
        <4>1. CASE i \in 1 .. Len(ps) /\ j \in 1 .. Len(ps)
          BY <2>8, <3>1, <4>1 DEF OneRef
        <4>2. CASE i \in 1 .. Len(ps) /\ j \notin 1 .. Len(ps)
          BY <2>7, <2>8, <2>9, <3>1, <4>2
        <4>3. CASE i \notin 1 .. Len(ps) /\ j \in 1 .. Len(ps)
          BY <2>7, <2>8, <2>9, <3>1, <4>3
        <4>4. CASE i \notin 1 .. Len(ps) /\ j \notin 1 .. Len(ps)
          <5>1. i - Len(ps) = j - Len(ps)
            BY <2>6, <2>9, <3>1, <4>4
          <5> QED
            BY <2>8, <5>1
        <4> QED
          BY <4>1, <4>2, <4>3, <4>4
      <3> QED
        BY <3>1 DEF OneRef
    <2>11. ASSUME NEW i \in 1 .. Len(t)
           PROVE  \E k \in 1 .. Len(all) : all[k] = t[i]
      <3>1. CASE i \in 1 .. Len(ps)
        BY <2>8, <3>1 DEF Within
      <3>2. CASE i \notin 1 .. Len(ps)
        BY <2>5, <2>9, <3>2
      <3> QED
        BY <3>1, <3>2
    <2>12. \A i \in 1 .. Len(ps) : i \in 1 .. Len(t) /\ t[i] = ps[i]
      BY <2>8
    <2> QED
      BY <2>1, <2>8, <2>10, <2>11, <2>12 DEF Within
  <1> QED
    BY <1>2, <1>3

\* The bindings of SelectConcepts.
ConceptsChosen(found, rels, picks, refs, seen, chosen) ==
    /\ rels = Relations(found) /\ picks \in Picks(Inventory(rels)) /\ Valid(picks)
    /\ refs = [i \in DOMAIN picks |-> Traversed(rels, picks[i])]
    /\ seen = Distinct(FlattenSeq(refs))
    /\ chosen = [i \in DOMAIN seen |-> ByRef(found, seen[i])]

LEMMA ConceptSelection ==
    ASSUME NEW hits, InjectiveOver(hits, Chunks), NEW found, found = Hydrated(hits),
           NEW rels, NEW picks, NEW wanted, NEW refs, NEW seen, NEW chosen,
           ConceptsChosen(found, rels, picks, refs, seen, chosen)
    PROVE  /\ \A i \in DOMAIN refs : refs[i] # <<>>
           /\ Selection(Context(refs, WithImages(chosen, found, wanted), <<>>), hits)
  <1> DEFINE ps == WithImages(chosen, found, wanted)
             picked == Context(refs, ps, <<>>)
  <1>1. /\ found \in Seq(Stored) /\ OneRef(found) /\ InLibrary(found) /\ Len(found) \in Nat
        /\ \A i \in 1 .. Len(found) : Contains(hits, found[i].chunk)
    BY HydratedIs
  <1>2. /\ rels \in Seq(Rels)
        /\ \A r \in ToSet(rels) : \E i \in 1 .. Len(found) : found[i].ref = r.ref
    BY <1>1, RelationsAre DEF ConceptsChosen
  <1>3. PICK n \in 1 .. 2 : DOMAIN picks = 1 .. n
    BY DEF ConceptsChosen, Picks
  <1>4. \A i \in 1 .. n : /\ refs[i] = Traversed(rels, picks[i])
                          /\ refs[i] \in Seq(Nat) /\ refs[i] # <<>>
                          /\ \A ref \in ToSet(refs[i]) : \E r \in ToSet(rels) : r.ref = ref
    <2>1. ASSUME NEW i \in 1 .. n
          PROVE  \E r \in ToSet(rels) : IsAbout(r, picks[i]) /\ r.chunk \in picks[i].item.chunks
      <3>1. picks \in Picks(Inventory(rels)) /\ Valid(picks) /\ i \in DOMAIN picks
        BY <1>3 DEF ConceptsChosen
      <3> QED
        BY <1>2, <3>1, PickStands
    <2>2. \A i \in 1 .. n : refs[i] = Traversed(rels, picks[i])
      BY <1>3 DEF ConceptsChosen
    <2>3. ASSUME NEW i \in 1 .. n
          PROVE  /\ refs[i] = Traversed(rels, picks[i])
                 /\ refs[i] \in Seq(Nat) /\ refs[i] # <<>>
                 /\ \A ref \in ToSet(refs[i]) : \E r \in ToSet(rels) : r.ref = ref
      <3>1. refs[i] = Traversed(rels, picks[i])
        BY <2>2
      <3>2. Traversed(rels, picks[i]) # <<>>
        BY <1>2, <2>1, TraversedIs
      <3> QED
        BY <1>2, <3>1, <3>2, TraversedIs
    <2> QED
      BY <2>3
  <1>5. refs \in Seq(Seq(Nat)) /\ Len(refs) = n /\ DOMAIN refs = 1 .. n
    <2>1. DOMAIN refs = 1 .. n /\ refs = [i \in 1 .. n |-> refs[i]]
      BY <1>3 DEF ConceptsChosen
    <2> QED
      BY <1>4, <2>1
  <1>6. /\ FlattenSeq(refs) \in Seq(Nat)
        /\ \A x : x \in ToSet(FlattenSeq(refs)) <=> \E i \in 1 .. n : x \in ToSet(refs[i])
    BY <1>5, FlattenIs
  <1>7. /\ seen \in Seq(Nat) /\ ToSet(seen) = ToSet(FlattenSeq(refs))
        /\ \A i, j \in 1 .. Len(seen) : seen[i] = seen[j] => i = j
        /\ DOMAIN seen = 1 .. Len(seen) /\ Len(seen) \in Nat
    <2>1. seen = Distinct(FlattenSeq(refs))
      BY DEF ConceptsChosen
    <2>2. /\ seen \in Seq(Nat) /\ ToSet(seen) = ToSet(FlattenSeq(refs))
          /\ \A i, j \in 1 .. Len(seen) : seen[i] = seen[j] => i = j
      BY <1>6, <2>1, DistinctIs
    <2> QED
      BY <2>2
  <1>8. ASSUME NEW i \in 1 .. Len(seen)
        PROVE  \E k \in 1 .. Len(found) : found[k].ref = seen[i]
    <2>1. seen[i] \in ToSet(seen)
      BY <1>7 DEF ToSet
    <2>2. PICK m \in 1 .. n : seen[i] \in ToSet(refs[m])
      BY <1>6, <1>7, <2>1
    <2>3. PICK r \in ToSet(rels) : r.ref = seen[i]
      BY <1>4, <2>2
    <2> QED
      BY <1>2, <2>3
  <1>9. ASSUME NEW i \in 1 .. Len(seen)
        PROVE  \E k \in 1 .. Len(found) : chosen[i] = found[k] /\ found[k].ref = seen[i]
    <2>1. chosen[i] = ByRef(found, seen[i])
      BY <1>7 DEF ConceptsChosen
    <2>2. \E k \in 1 .. Len(found) : found[k].ref = seen[i]
      BY <1>8
    <2> QED
      BY <1>1, <2>1, <2>2, ByRefIs
  <1>10. /\ chosen \in Seq(Stored) /\ Len(chosen) = Len(seen) /\ DOMAIN chosen = 1 .. Len(seen)
         /\ \A i \in 1 .. Len(seen) : chosen[i].ref = seen[i]
    <2>1. \A i \in 1 .. Len(seen) : chosen[i] \in Stored /\ chosen[i].ref = seen[i]
      BY <1>1, <1>9
    <2>2. DOMAIN chosen = 1 .. Len(seen) /\ chosen = [i \in 1 .. Len(seen) |-> chosen[i]]
      BY <1>7 DEF ConceptsChosen
    <2>3. chosen \in [1 .. Len(seen) -> Stored]
      BY <2>1, <2>2
    <2> QED
      BY <1>7, <2>1, <2>2, <2>3
  <1>11. OneRef(chosen)
    BY <1>7, <1>10 DEF OneRef
  <1>12. /\ ps \in Seq(Stored) /\ OneRef(ps)
         /\ \A i \in 1 .. Len(ps) : \E k \in 1 .. Len(found) : found[k] = ps[i]
         /\ \A i \in 1 .. Len(seen) : \E k \in 1 .. Len(ps) : ps[k] = chosen[i]
    <2>1. Within(chosen, found)
      BY <1>9, <1>10 DEF Within
    <2>2. ps \in Seq(Stored) /\ OneRef(ps) /\ Within(ps, found) /\ Within(chosen, ps)
      BY <1>1, <1>10, <1>11, <2>1, WithImagesIs
    <2> QED
      BY <1>10, <2>2 DEF Within
  <1> HIDE DEF ps
  <1>13. picked.roles = refs /\ picked.paragraphs = ps /\ picked.refs = <<>>
    BY DEF Context
  <1> HIDE DEF picked
  <1>14. DOMAIN ps = 1 .. Len(ps)
    BY <1>12
  <1>15. InScope(picked, hits)
    <2>1. \A i, j \in DOMAIN ps : ps[i].ref = ps[j].ref => i = j
      BY <1>12, <1>14 DEF OneRef
    <2>2. ToSet(RefsOf(picked)) = {seen[i] : i \in 1 .. Len(seen)}
      <3>1. RefsOf(picked) = seen
        BY <1>13 DEF RefsOf, ConceptsChosen
      <3> QED
        BY <1>7, <3>1 DEF ToSet
    <2>3. ASSUME NEW ref \in ToSet(RefsOf(picked))
          PROVE  /\ \E i \in DOMAIN ps : ps[i].ref = ref
                 /\ \E p \in ToSet(Hydrated(hits)) : p.ref = ref
      <3>1. PICK i \in 1 .. Len(seen) : ref = seen[i]
        BY <2>2, <2>3
      <3>2. PICK k \in 1 .. Len(ps) : ps[k] = chosen[i]
        BY <1>12
      <3>3. PICK m \in 1 .. Len(found) : found[m].ref = seen[i]
        BY <1>8
      <3>4. found[m] \in ToSet(Hydrated(hits))
        BY <1>1 DEF ToSet
      <3> QED
        BY <1>10, <1>14, <3>1, <3>2, <3>3, <3>4
    <2>4. \A i \in DOMAIN ps : Contains(hits, ps[i].chunk)
      BY <1>1, <1>12, <1>14
    <2> QED
      BY <1>13, <2>1, <2>3, <2>4 DEF InScope
  <1>16. ASSUME NEW p \in ToSet(ps)
         PROVE  \E q \in ToSet(Library) : q.text = p.text /\ q.chunk = p.chunk
    <2>1. PICK i \in 1 .. Len(ps) : p = ps[i]
      BY <1>14 DEF ToSet
    <2>2. PICK k \in 1 .. Len(found) : found[k] = ps[i]
      BY <1>12
    <2>3. PICK m \in 1 .. Len(Library) : Library[m] = found[k]
      BY <1>1 DEF InLibrary
    <2>4. Library[m] \in ToSet(Library)
      BY LibraryIs DEF ToSet
    <2> QED
      BY <2>1, <2>2, <2>3, <2>4
  <1>17. InjectiveOver(<<>>, Nat)
    BY DEF InjectiveOver
  <1>18. Selection(picked, hits)
    BY <1>5, <1>12, <1>13, <1>15, <1>16, <1>17 DEF Selection
  <1> QED
    BY <1>4, <1>5, <1>18 DEF picked, ps

(***************************************************************************)
(* Limits, labels and sources.                                             *)
(***************************************************************************)
\* What is taken of a sequence without repetitions keeps its order.
LEMMA AmongOrdered ==
    ASSUME NEW X, NEW s, InjectiveOver(s, X), NEW S
    PROVE  /\ InjectiveOver(Among(s, S), X)
           /\ \A i, j \in 1 .. Len(Among(s, S)) :
                 i < j => Place(s, Among(s, S)[i]) < Place(s, Among(s, S)[j])
  <1> DEFINE t == Among(s, S)
  <1>1. /\ s \in Seq(X) /\ Len(s) \in Nat
        /\ \A i, j \in 1 .. Len(s) : s[i] = s[j] => i = j
    BY DEF InjectiveOver
  <1>2. t \in Seq(X) /\ \E pos : Takes(pos, t, s, Len(s), S)
    BY <1>1, AmongTakes
  <1> HIDE DEF t
  <1>3. PICK pos : Takes(pos, t, s, Len(s), S)
    BY <1>2
  <1>4. /\ \A i \in 1 .. Len(t) : pos[i] \in 1 .. Len(s) /\ t[i] = s[pos[i]]
        /\ \A i, j \in 1 .. Len(t) : i < j => pos[i] < pos[j]
    BY <1>3 DEF Takes
  <1>5. ASSUME NEW i \in 1 .. Len(t)
        PROVE  Place(s, t[i]) = pos[i]
    <2>1. Contains(s, t[i])
      BY <1>4 DEF Contains
    <2>2. Place(s, t[i]) \in 1 .. Len(s) /\ s[Place(s, t[i])] = t[i]
      BY <1>1, <2>1, PlaceIs
    <2> QED
      BY <1>1, <1>4, <2>2
  <1>6. ASSUME NEW i \in 1 .. Len(t), NEW j \in 1 .. Len(t), t[i] = t[j]
        PROVE  i = j
    <2>1. pos[i] = pos[j]
      BY <1>1, <1>4, <1>6
    <2>2. ~(i < j) /\ ~(j < i)
      BY <1>1, <1>4, <2>1
    <2> QED
      BY <1>2, <2>2
  <1>7. InjectiveOver(t, X)
    BY <1>2, <1>6 DEF InjectiveOver
  <1>8. \A i, j \in 1 .. Len(t) : i < j => Place(s, t[i]) < Place(s, t[j])
    BY <1>4, <1>5
  <1> QED
    BY <1>7, <1>8 DEF t

LEMMA LimitedIs ==
    ASSUME NEW picked, NEW hits, Selection(picked, hits), NEW kept \in Seq(Stored)
    PROVE  LET limited == Limited(picked, kept)
               labels == RefsOf(limited)
           IN /\ limited.paragraphs = kept
              /\ InjectiveOver(labels, Nat)
              /\ \A ref \in UNION {ToSet(refs) : refs \in ToSet(limited.roles)} : Contains(labels, ref)
              /\ \A ref \in ToSet(labels) : \E i \in DOMAIN kept : kept[i].ref = ref
  <1> DEFINE S == {kept[i].ref : i \in DOMAIN kept}
             known == [i \in DOMAIN picked.roles |-> Among(picked.roles[i], S)]
             roles == Among(known, ToSet(known) \ {<<>>})
             refs == Among(picked.refs, S)
             limited == Limited(picked, kept)
             labels == RefsOf(limited)
  <1>1. limited.roles = roles /\ limited.paragraphs = kept /\ limited.refs = refs
    BY DEF Limited, Context
  <1> HIDE DEF limited
  <1>2. /\ picked.roles \in Seq(Seq(Nat)) /\ InjectiveOver(picked.refs, Nat)
        /\ picked.roles = <<>> \/ picked.refs = <<>>
    BY DEF Selection
  <1>3. picked.refs \in Seq(Nat)
    BY <1>2 DEF InjectiveOver
  <1>4. ToSet(refs) = ToSet(picked.refs) \cap S /\ Len(refs) <= Len(picked.refs) /\ refs \in Seq(Nat)
    <2> HIDE DEF S
    <2> QED
      BY <1>3, AmongIs
  <1>5. InjectiveOver(refs, Nat)
    <2> HIDE DEF S
    <2> QED
      BY <1>2, AmongOrdered
  <1>6. \A i \in 1 .. Len(picked.roles) : /\ Among(picked.roles[i], S) \in Seq(Nat)
                                           /\ ToSet(Among(picked.roles[i], S)) \subseteq S
    <2> HIDE DEF S
    <2>1. \A i \in 1 .. Len(picked.roles) : picked.roles[i] \in Seq(Nat)
      BY <1>2
    <2> QED
      BY <2>1, AmongIs
  <1>7. /\ known \in Seq(Seq(Nat)) /\ Len(known) = Len(picked.roles) /\ DOMAIN known = 1 .. Len(known)
        /\ \A i \in 1 .. Len(known) : ToSet(known[i]) \subseteq S
    <2> HIDE DEF S
    <2>1. DOMAIN picked.roles = 1 .. Len(picked.roles) /\ Len(picked.roles) \in Nat
      BY <1>2
    <2>2. \A i \in 1 .. Len(picked.roles) : known[i] = Among(picked.roles[i], S)
      BY <2>1
    <2>3. known \in Seq(Seq(Nat)) /\ Len(known) = Len(picked.roles) /\ DOMAIN known = 1 .. Len(known)
      BY <1>6, <2>1
    <2> HIDE DEF known
    <2> QED
      BY <1>6, <2>2, <2>3
  <1>8. \A ref \in S : \E i \in DOMAIN kept : kept[i].ref = ref
    OBVIOUS
  <1> HIDE DEF S, known, refs
  <1>9. /\ roles \in Seq(Seq(Nat)) /\ ToSet(roles) \subseteq ToSet(known) /\ Len(roles) <= Len(known)
    BY <1>7, AmongIs
  <1> HIDE DEF roles
  <1>10. \A rs \in ToSet(roles) : ToSet(rs) \subseteq S
    BY <1>7, <1>9 DEF ToSet
  <1> DEFINE Labelled == /\ InjectiveOver(labels, Nat)
                         /\ \A ref \in UNION {ToSet(rs) : rs \in ToSet(roles)} : Contains(labels, ref)
                         /\ \A ref \in ToSet(labels) : \E i \in DOMAIN kept : kept[i].ref = ref
  <1>11. ASSUME refs # <<>> PROVE Labelled
    <2>1. labels = refs
      BY <1>1, <1>11 DEF RefsOf
    <2>2. picked.refs # <<>>
      <3>1. Len(refs) \in Nat \ {0}
        BY <1>4, <1>11
      <3> QED
        BY <1>3, <1>4, <3>1
    <2>3. Len(roles) = 0 /\ Len(roles) \in Nat
      BY <1>2, <1>7, <1>9, <2>2
    <2>4. ToSet(roles) = {}
      BY <1>9, <2>3 DEF ToSet
    <2>5. \A ref \in ToSet(labels) : \E i \in DOMAIN kept : kept[i].ref = ref
      BY <1>4, <1>8, <2>1
    <2>6. UNION {ToSet(rs) : rs \in ToSet(roles)} = {}
      BY <2>4
    <2> QED
      BY <1>5, <2>1, <2>5, <2>6
  <1>12. ASSUME refs = <<>> PROVE Labelled
    <2> DEFINE flat == FlattenSeq(roles)
    <2>1. labels = Distinct(flat)
      BY <1>1, <1>12 DEF RefsOf
    <2>2. /\ flat \in Seq(Nat)
          /\ \A x : x \in ToSet(flat) <=> \E i \in 1 .. Len(roles) : x \in ToSet(roles[i])
      BY <1>9, FlattenIs
    <2> HIDE DEF flat
    <2>3. /\ labels \in Seq(Nat) /\ ToSet(labels) = ToSet(flat)
          /\ \A i, j \in 1 .. Len(labels) : labels[i] = labels[j] => i = j
      BY <2>1, <2>2, DistinctIs
    <2> HIDE DEF labels
    <2>4. InjectiveOver(labels, Nat)
      BY <2>3 DEF InjectiveOver
    <2>5. DOMAIN roles = 1 .. Len(roles) /\ DOMAIN labels = 1 .. Len(labels)
      BY <1>9, <2>3
    <2>6. \A x : x \in ToSet(labels) <=> \E rs \in ToSet(roles) : x \in ToSet(rs)
      <3>1. ToSet(roles) = {roles[i] : i \in 1 .. Len(roles)}
        BY <2>5 DEF ToSet
      <3> QED
        BY <2>2, <2>3, <3>1
    <2>7. \A x : x \in ToSet(labels) => Contains(labels, x)
      BY <2>5 DEF ToSet, Contains
    <2>8. \A ref \in UNION {ToSet(rs) : rs \in ToSet(roles)} : Contains(labels, ref)
      BY <2>6, <2>7
    <2>9. \A ref \in ToSet(labels) : \E i \in DOMAIN kept : kept[i].ref = ref
      BY <1>8, <1>10, <2>6
    <2> QED
      BY <2>4, <2>8, <2>9 DEF labels
  <1>13. /\ limited.paragraphs = kept
         /\ InjectiveOver(labels, Nat)
         /\ \A ref \in UNION {ToSet(rs) : rs \in ToSet(limited.roles)} : Contains(labels, ref)
         /\ \A ref \in ToSet(labels) : \E i \in DOMAIN kept : kept[i].ref = ref
    <2>1. Labelled
      BY <1>11, <1>12
    <2> HIDE DEF labels
    <2> QED
      BY <1>1, <2>1
  <1> QED
    BY <1>13 DEF limited

(***************************************************************************)
(* Citations.                                                              *)
(***************************************************************************)
LEMMA CitesAre ==
    ASSUME NEW offer, offer.size \in Nat, NEW output \in Outputs(offer), Accepted(output, offer)
    PROVE  /\ DOMAIN output.cites = 1 .. Len(output.cites) /\ Len(output.cites) \in 0 .. 2
           /\ \A i, j \in DOMAIN output.cites : output.cites[i][2] = output.cites[j][2] => i = j
           /\ output.marks \in Seq(Nat)
  <1> DEFINE ids == 1 .. (offer.size + 1)
             cs == output.cites
  <1>1. /\ \/ cs = <<>> \/ \E c \in ids \X (1 .. 3) : cs = <<c>>
           \/ \E c, d \in ids \X (1 .. 3) : cs = <<c, d>>
        /\ output.marks \in {<<>>, <<1>>, <<2>>, <<3>>, <<1, 2>>, <<2, 1>>, <<2, 1, 2>>, <<3, 2>>}
    BY DEF Outputs
  <1>2. output.marks \in Seq(Nat)
    <2>1. <<>> \in Seq(Nat) /\ <<1>> \in Seq(Nat) /\ <<2>> \in Seq(Nat) /\ <<3>> \in Seq(Nat)
      OBVIOUS
    <2>2. <<1, 2>> \in Seq(Nat) /\ <<2, 1>> \in Seq(Nat) /\ <<3, 2>> \in Seq(Nat)
      OBVIOUS
    <2>3. <<2, 1, 2>> \in Seq(Nat)
      OBVIOUS
    <2> QED
      BY <1>1, <2>1, <2>2, <2>3
  <1> HIDE DEF cs, ids
  <1>3. Cardinality({cs[i][2] : i \in DOMAIN cs}) = Len(cs)
    BY DEF Accepted, CitedLabels, cs
  <1>4. DOMAIN cs = 1 .. Len(cs) /\ Len(cs) \in 0 .. 2
    BY <1>1
  <1>5. ASSUME NEW i \in DOMAIN cs, NEW j \in DOMAIN cs, cs[i][2] = cs[j][2], i # j
        PROVE  FALSE
    <2>1. Len(cs) = 2 /\ DOMAIN cs = {1, 2}
      BY <1>4, <1>5
    <2>2. {cs[k][2] : k \in DOMAIN cs} = {cs[1][2]}
      BY <1>5, <2>1
    <2>3. Cardinality({cs[1][2]}) = 1
      BY FS_Singleton
    <2> QED
      BY <1>3, <2>1, <2>2, <2>3
  <1> QED
    BY <1>2, <1>4, <1>5 DEF cs

LEMMA LabelIndexIs ==
    ASSUME NEW output, DOMAIN output.cites = 1 .. Len(output.cites), Len(output.cites) \in Nat,
           NEW label, label \in CitedLabels(output)
    PROVE  /\ LabelIndex(output, label) \in DOMAIN output.cites
           /\ output.cites[LabelIndex(output, label)][2] = label
  <1> DEFINE I == {i \in 1 .. Len(output.cites) : output.cites[i][2] = label}
  <1>1. LabelIndex(output, label) = IF I # {} THEN Min(I) ELSE 0
    BY DEF LabelIndex, SelectInSeq
  <1>2. I \subseteq Nat /\ I # {}
    BY DEF CitedLabels
  <1>3. Min(I) \in I
    <2> HIDE DEF I
    <2> QED
      BY <1>2, Smallest
  <1> QED
    BY <1>1, <1>2, <1>3

\* CitationsKept, of any answer that is accepted.
LEMMA CitationsAre ==
    ASSUME NEW offer, offer.size \in Nat, offer.images \subseteq 1 .. offer.size,
           NEW output \in Outputs(offer), Accepted(output, offer), NEW marks, marks = Renumbered(output)
    PROVE  /\ \A i \in DOMAIN marks :
                 /\ marks[i] \in DOMAIN output.cites
                 /\ \E c \in ToSet(output.cites) :
                       c[2] = output.marks[i] /\ output.cites[marks[i]][1] = c[1]
           /\ ToSet(marks) = DOMAIN output.cites
           /\ CitedIds(output) \cup output.images \cup offer.images \subseteq 1 .. offer.size
  <1>1. /\ DOMAIN output.cites = 1 .. Len(output.cites) /\ Len(output.cites) \in Nat
        /\ \A i, j \in DOMAIN output.cites : output.cites[i][2] = output.cites[j][2] => i = j
        /\ output.marks \in Seq(Nat)
    BY CitesAre
  <1>2. /\ ToSet(output.marks) = CitedLabels(output)
        /\ CitedIds(output) \subseteq 1 .. offer.size
        /\ output.images \subseteq offer.images
    BY DEF Accepted
  <1>3. DOMAIN marks = DOMAIN output.marks
        /\ \A i \in DOMAIN output.marks : marks[i] = LabelIndex(output, output.marks[i])
    BY DEF Renumbered
  <1>4. \A i \in DOMAIN output.marks : output.marks[i] \in CitedLabels(output)
    BY <1>2 DEF ToSet
  <1>5. \A i \in DOMAIN marks : /\ marks[i] \in DOMAIN output.cites
                                /\ output.cites[marks[i]][2] = output.marks[i]
    BY <1>1, <1>3, <1>4, LabelIndexIs
  <1>6. ASSUME NEW i \in DOMAIN marks
        PROVE  \E c \in ToSet(output.cites) :
                  c[2] = output.marks[i] /\ output.cites[marks[i]][1] = c[1]
    <2>1. output.cites[marks[i]] \in ToSet(output.cites)
      BY <1>5 DEF ToSet
    <2> QED
      BY <1>5, <2>1
  <1>7. ASSUME NEW j \in DOMAIN output.cites
        PROVE  j \in ToSet(marks)
    <2>1. output.cites[j][2] \in ToSet(output.marks)
      BY <1>2 DEF CitedLabels
    <2>2. PICK i \in DOMAIN output.marks : output.marks[i] = output.cites[j][2]
      BY <2>1 DEF ToSet
    <2>3. marks[i] = j
      BY <1>1, <1>3, <1>5, <2>2
    <2> QED
      BY <1>3, <2>3 DEF ToSet
  <1>8. ToSet(marks) = DOMAIN output.cites
    BY <1>5, <1>7 DEF ToSet
  <1> QED
    BY <1>2, <1>5, <1>6, <1>8

(***************************************************************************)
(* The inductive invariant: next to the properties, what a stage keeps for *)
(* those that follow it.                                                   *)
(***************************************************************************)
RetrievalInv ==
    /\ EvidenceExact
    /\ stage \in {"fused", "merged"} => InjectiveOver(made, Chunks)
    /\ stage = "found" => InjectiveOver(given, Chunks) /\ made = Hydrated(given)
    /\ stage = "selected" => Selection(made, given)
    /\ stage = "rendered" => InjectiveOver(made.labels, Nat)
    /\ stage = "ledger" => made.size \in Nat /\ made.images \subseteq 1 .. made.size

\* The two properties about positions, in the words of the lemmas.
FusedPlaces ==
    stage = "fused" =>
        LET Behind(a, b) == \A s \in ToSet(given) : RankIn(s, a) >= RankIn(s, b)
        IN \A a, b \in ToSet(given[1]) \cup ToSet(given[2]) :
              Behind(a, b) /\ ~Behind(b, a) /\ Contains(made, a)
                  => Contains(made, b) /\ RankIn(made, b) < RankIn(made, a)
GroundedPlaces ==
    stage = "grounded" =>
        /\ ToSet(made.sources) = ToSet(given.refs) \cap ToSet(given.labels)
        /\ \A i, j \in DOMAIN made.sources :
              i < j => Place(given.labels, made.sources[i]) < Place(given.labels, made.sources[j])

LEMMA FusedRead == FusedInOrder <=> FusedPlaces
  BY DEF FusedInOrder, FusedPlaces, RankIn, SelectInSeq
LEMMA GroundedRead == GroundedInOrder <=> GroundedPlaces
  BY DEF GroundedInOrder, GroundedPlaces, Place, SelectInSeq
LEMMA FusedReadNext == FusedInOrder' <=> FusedPlaces'
  BY FusedRead, PTL
LEMMA GroundedReadNext == GroundedInOrder' <=> GroundedPlaces'
  BY GroundedRead, PTL

\* Where nothing is said of the stage that is reached, nothing is to be shown.
Plain == {"asked", "bundled", "answered", "refused"}

LEMMA PlainKeeps ==
    ASSUME stage' \in Plain, made' # "no paragraph"
    PROVE  RetrievalInv'
  <1>1. /\ stage' # "fused" /\ stage' # "merged" /\ stage' # "found" /\ stage' # "selected"
        /\ stage' # "rendered" /\ stage' # "ledger" /\ stage' # "grounded" /\ stage' # "cited"
    BY DEF Plain
  <1> QED
    BY <1>1 DEF RetrievalInv, EvidenceExact, FusedInOrder, NothingCrowdedOut, SelectionHolds,
                RenderedWhole, GroundedInOrder, CitationsKept

LEMMA SearchFusedKeeps ==
    ASSUME SearchFused
    PROVE  RetrievalInv'
  <1>1. PICK semantic \in Rankings, lexical \in Rankings :
           stage' = "fused" /\ given' = <<semantic, lexical>> /\ made' = Fuse(semantic, lexical)
    BY DEF SearchFused, Pass
  <1>2. InjectiveOver(made', Chunks)
    BY <1>1, FuseIs
  <1>3. FusedInOrder'
    <2>1. LET Behind(a, b) == \A s \in ToSet(given') : RankIn(s, a) >= RankIn(s, b)
          IN \A a, b \in ToSet(given'[1]) \cup ToSet(given'[2]) :
                Behind(a, b) /\ ~Behind(b, a) /\ Contains(made', a)
                    => Contains(made', b) /\ RankIn(made', b) < RankIn(made', a)
      BY <1>1, FuseOrders
    <2> QED
      BY <2>1, FusedReadNext DEF FusedPlaces
  <1>4. /\ stage' # "merged" /\ stage' # "found" /\ stage' # "selected" /\ stage' # "refused"
        /\ stage' # "rendered" /\ stage' # "ledger" /\ stage' # "grounded" /\ stage' # "cited"
    BY <1>1
  <1> QED
    BY <1>2, <1>3, <1>4 DEF RetrievalInv, EvidenceExact, NothingCrowdedOut, SelectionHolds,
                RenderedWhole, GroundedInOrder, CitationsKept

LEMMA SearchTwoLanguagesKeeps ==
    ASSUME SearchTwoLanguages
    PROVE  RetrievalInv'
  <1>1. PICK one \in Rankings, other \in Rankings :
           stage' = "merged" /\ given' = <<one, other>> /\ made' = Merged(one, other)
    BY DEF SearchTwoLanguages, Pass
  <1>2. /\ InjectiveOver(made', Chunks)
        /\ \A i \in 1 .. Len(one) : 2 * i <= HitLimit => Contains(made', one[i])
        /\ \A i \in 1 .. Len(other) : 2 * i <= HitLimit => Contains(made', other[i])
    BY <1>1, MergedIs
  <1>3. DOMAIN one = 1 .. Len(one) /\ DOMAIN other = 1 .. Len(other)
    BY RankingsAre
  <1>4. \A q \in 1 .. 2 : q = 1 \/ q = 2
    OBVIOUS
  <1>5. NothingCrowdedOut'
    BY <1>1, <1>2, <1>3, <1>4 DEF NothingCrowdedOut
  <1>6. /\ stage' # "fused" /\ stage' # "found" /\ stage' # "selected" /\ stage' # "refused"
        /\ stage' # "rendered" /\ stage' # "ledger" /\ stage' # "grounded" /\ stage' # "cited"
    BY <1>1
  <1> QED
    BY <1>2, <1>5, <1>6 DEF RetrievalInv, EvidenceExact, FusedInOrder, SelectionHolds,
                RenderedWhole, GroundedInOrder, CitationsKept

LEMMA LoadForHitsKeeps ==
    ASSUME RetrievalInv, LoadForHits
    PROVE  RetrievalInv'
  <1>1. InjectiveOver(made, Chunks)
    BY DEF RetrievalInv, LoadForHits
  <1>2. CASE StatusOf(made) = "ready"
    <2>1. stage' = "found" /\ given' = made /\ made' = Hydrated(made)
      BY <1>2 DEF LoadForHits, Pass
    <2>2. /\ stage' # "fused" /\ stage' # "merged" /\ stage' # "selected" /\ stage' # "refused"
          /\ stage' # "rendered" /\ stage' # "ledger" /\ stage' # "grounded" /\ stage' # "cited"
      BY <2>1
    <2> QED
      BY <1>1, <2>1, <2>2 DEF RetrievalInv, EvidenceExact, FusedInOrder, NothingCrowdedOut, SelectionHolds,
                  RenderedWhole, GroundedInOrder, CitationsKept
  <1>3. CASE StatusOf(made) # "ready"
    <2>1. stage' = "answered" /\ made' = StatusOf(made)
      BY <1>3 DEF LoadForHits, Pass
    <2>2. StatusOf(made) # "no paragraph"
      BY DEF StatusOf
    <2> QED
      BY <2>1, <2>2, PlainKeeps DEF Plain
  <1> QED
    BY <1>2, <1>3

LEMMA BundleEvidenceKeeps ==
    ASSUME BundleEvidence
    PROVE  RetrievalInv'
  <1>1. stage' = "bundled"
    BY DEF BundleEvidence, Pass
  <1>2. /\ stage' # "fused" /\ stage' # "merged" /\ stage' # "found" /\ stage' # "selected"
        /\ stage' # "rendered" /\ stage' # "ledger" /\ stage' # "grounded" /\ stage' # "cited"
        /\ stage' # "refused"
    BY <1>1
  <1> QED
    BY <1>2 DEF RetrievalInv, EvidenceExact, FusedInOrder, NothingCrowdedOut, SelectionHolds,
                RenderedWhole, GroundedInOrder, CitationsKept

\* A selection is all that is to be shown of its stage.
LEMMA SelectedKeeps ==
    ASSUME NEW picked, Selection(picked, given), Pass("selected", given, picked)
    PROVE  RetrievalInv'
  <1>1. stage' = "selected" /\ given' = given /\ made' = picked
    BY DEF Pass
  <1>2. Selection(made', given')
    BY <1>1
  <1>3. InScope(made', given')
        /\ \A p \in ToSet(made'.paragraphs) : \E q \in ToSet(Library) : q.text = p.text /\ q.chunk = p.chunk
    BY <1>2 DEF Selection
  <1>4. SelectionHolds'
    BY <1>1, <1>3 DEF SelectionHolds
  <1>5. /\ stage' # "fused" /\ stage' # "merged" /\ stage' # "found"
        /\ stage' # "rendered" /\ stage' # "ledger" /\ stage' # "grounded" /\ stage' # "cited"
    BY <1>1
  <1> QED
    BY <1>2, <1>4, <1>5 DEF RetrievalInv, EvidenceExact, FusedInOrder, NothingCrowdedOut,
                RenderedWhole, GroundedInOrder, CitationsKept

LEMMA RefusedKeeps ==
    ASSUME NEW error, error # "no paragraph", Refuse(given, error)
    PROVE  RetrievalInv'
  <1>1. stage' = "refused" /\ made' = error
    BY DEF Refuse, Pass
  <1> QED
    BY <1>1, PlainKeeps DEF Plain

LEMMA SelectDirectKeeps ==
    ASSUME RetrievalInv, SelectDirect
    PROVE  RetrievalInv'
  <1>1. InjectiveOver(given, Chunks) /\ made = Hydrated(given)
    BY DEF RetrievalInv, SelectDirect
  <1> DEFINE choices == ParagraphChoices(made)
  <1>2. PICK keys \in SetToAllKPermutations(DOMAIN choices \cup {Len(choices) + 1}) :
           IF \E i \in DOMAIN keys : keys[i] > Len(choices)
           THEN Refuse(given, "unknown key")
           ELSE LET chosen == [i \in DOMAIN keys |-> choices[keys[i]]] IN
                Pass("selected", given, Context(<<>>, chosen, [i \in DOMAIN chosen |-> chosen[i].ref]))
    BY DEF SelectDirect
  <1>3. CASE \E i \in DOMAIN keys : keys[i] > Len(choices)
    <2>1. Refuse(given, "unknown key")
      BY <1>2, <1>3
    <2>2. "unknown key" # "no paragraph"
      OBVIOUS
    <2> QED
      BY <2>1, <2>2, RefusedKeeps
  <1>4. CASE ~ \E i \in DOMAIN keys : keys[i] > Len(choices)
    <2> DEFINE chosen == [i \in DOMAIN keys |-> choices[keys[i]]]
               picked == Context(<<>>, chosen, [i \in DOMAIN chosen |-> chosen[i].ref])
    <2>1. Pass("selected", given, picked)
      BY <1>2, <1>4
    <2>2. Selection(picked, given)
      <3>1. choices = ParagraphChoices(made)
        OBVIOUS
      <3>2. chosen = [i \in DOMAIN keys |-> choices[keys[i]]]
        OBVIOUS
      <3> HIDE DEF choices, chosen
      <3> QED
        BY <1>1, <1>2, <1>4, <3>1, <3>2, DirectSelection
    <2> HIDE DEF picked
    <2> QED
      BY <2>1, <2>2, SelectedKeeps
  <1> QED
    BY <1>3, <1>4

LEMMA SelectConceptsKeeps ==
    ASSUME RetrievalInv, SelectConcepts
    PROVE  RetrievalInv'
  <1>1. InjectiveOver(given, Chunks) /\ made = Hydrated(given)
    BY DEF RetrievalInv, SelectConcepts
  <1> DEFINE rels == Relations(made)
  <1>2. CASE rels = <<>>
    <2> DEFINE picked == Context(<<>>, <<>>, <<>>)
    <2>1. Pass("selected", given, picked)
      BY <1>2 DEF SelectConcepts
    <2>2. picked.roles = <<>> /\ picked.paragraphs = <<>> /\ picked.refs = <<>>
      BY DEF Context
    <2> HIDE DEF picked
    <2>3. ToSet(RefsOf(picked)) = {}
      BY <2>2, NoRefs DEF RefsOf
    <2>4. InScope(picked, given)
      BY <2>2, <2>3 DEF InScope
    <2>5. ToSet(<<>>) = {} /\ <<>> \in Seq(Stored) /\ <<>> \in Seq(Seq(Nat))
      BY DEF ToSet
    <2>6. InjectiveOver(<<>>, Nat)
      BY DEF InjectiveOver
    <2>7. Selection(picked, given)
      BY <2>2, <2>4, <2>5, <2>6 DEF Selection
    <2> QED
      BY <2>1, <2>7, SelectedKeeps
  <1>3. CASE rels # <<>>
    <2>1. PICK picks \in {p \in Picks(Inventory(rels)) : Valid(p)}, wanted \in BOOLEAN :
             LET refs == [i \in DOMAIN picks |-> Traversed(rels, picks[i])]
                 seen == Distinct(FlattenSeq(refs))
                 chosen == [i \in DOMAIN seen |-> ByRef(made, seen[i])]
             IN IF \E i \in DOMAIN refs : refs[i] = <<>>
                THEN Refuse(given, "no paragraph")
                ELSE Pass("selected", given, Context(refs, WithImages(chosen, made, wanted), <<>>))
      BY <1>3 DEF SelectConcepts
    <2> DEFINE refs == [i \in DOMAIN picks |-> Traversed(rels, picks[i])]
               seen == Distinct(FlattenSeq(refs))
               chosen == [i \in DOMAIN seen |-> ByRef(made, seen[i])]
               picked == Context(refs, WithImages(chosen, made, wanted), <<>>)
    <2>2. ConceptsChosen(made, rels, picks, refs, seen, chosen)
      BY DEF ConceptsChosen
    <2>3. IF \E i \in DOMAIN refs : refs[i] = <<>>
          THEN Refuse(given, "no paragraph") ELSE Pass("selected", given, picked)
      BY <2>1
    <2>4. (\A i \in DOMAIN refs : refs[i] # <<>>) /\ Selection(picked, given)
      <3> HIDE DEF rels, refs, seen, chosen
      <3> QED
        BY <1>1, <2>2, ConceptSelection
    <2> HIDE DEF picked, refs
    <2>5. Pass("selected", given, picked)
      BY <2>3, <2>4
    <2> QED
      BY <2>4, <2>5, SelectedKeeps
  <1> QED
    BY <1>2, <1>3

LEMMA LimitAndRenderKeeps ==
    ASSUME RetrievalInv, LimitAndRender
    PROVE  RetrievalInv'
  <1>1. Selection(made, given)
    BY DEF RetrievalInv, LimitAndRender
  <1>2. CASE RefsOf(made) = <<>>
    <2>1. stage' = "answered" /\ made' = "nothing relevant"
      BY <1>2 DEF LimitAndRender, Pass
    <2> QED
      BY <2>1, PlainKeeps DEF Plain
  <1>3. CASE RefsOf(made) # <<>>
    <2>1. PICK maxParagraphs \in 1 .. 3, maxTokens \in 1 .. MaxWords :
             LET kept == Kept(made.paragraphs, maxParagraphs, maxTokens)
                 limited == Limited(made, kept)
             IN IF kept = <<>> THEN Refuse(given, "first paragraph exceeds token limit")
                ELSE Pass("rendered", [context |-> made, tokens |-> maxTokens],
                          [context |-> limited, labels |-> RefsOf(limited)])
      BY <1>3 DEF LimitAndRender
    <2> DEFINE kept == Kept(made.paragraphs, maxParagraphs, maxTokens)
               limited == Limited(made, kept)
               labels == RefsOf(limited)
    <2>2. CASE kept = <<>>
      <3>1. Refuse(given, "first paragraph exceeds token limit")
        BY <2>1, <2>2
      <3>2. "first paragraph exceeds token limit" # "no paragraph"
        OBVIOUS
      <3> QED
        BY <3>1, <3>2, RefusedKeeps
    <2>3. CASE kept # <<>>
      <3>1. /\ stage' = "rendered" /\ given' = [context |-> made, tokens |-> maxTokens]
            /\ made' = [context |-> limited, labels |-> labels]
        BY <2>1, <2>3 DEF Pass
      <3>2. made.paragraphs \in Seq(Stored) /\ maxParagraphs \in Nat /\ maxTokens \in Nat
        BY <1>1, RetrievalAssumption DEF Selection
      <3>3. /\ kept \in Seq(Stored) /\ IsPrefix(kept, made.paragraphs) /\ WordCount(kept) <= maxTokens
        BY <3>2, KeptFits
      <3> HIDE DEF kept
      <3>4. /\ limited.paragraphs = kept
            /\ InjectiveOver(labels, Nat)
            /\ \A ref \in UNION {ToSet(refs) : refs \in ToSet(limited.roles)} : Contains(labels, ref)
            /\ \A ref \in ToSet(labels) : \E i \in DOMAIN kept : kept[i].ref = ref
        BY <1>1, <3>3, LimitedIs
      <3> HIDE DEF limited, labels
      <3>5. /\ given'.context = made /\ given'.tokens = maxTokens
            /\ made'.context = limited /\ made'.labels = labels
        BY <3>1
      <3>6. RenderedWhole'
        BY <3>3, <3>4, <3>5 DEF RenderedWhole
      <3>7. /\ stage' # "fused" /\ stage' # "merged" /\ stage' # "found" /\ stage' # "selected"
            /\ stage' # "refused" /\ stage' # "ledger" /\ stage' # "grounded" /\ stage' # "cited"
        BY <3>1
      <3> QED
        BY <3>4, <3>5, <3>6, <3>7 DEF RetrievalInv, EvidenceExact, FusedInOrder, NothingCrowdedOut,
                    SelectionHolds, GroundedInOrder, CitationsKept
    <2> QED
      BY <2>2, <2>3
  <1> QED
    BY <1>2, <1>3

LEMMA AnswerGroundedKeeps ==
    ASSUME RetrievalInv, AnswerGrounded
    PROVE  RetrievalInv'
  <1> DEFINE shown == made.context.paragraphs
             labels == made.labels
  <1>1. InjectiveOver(labels, Nat)
    BY DEF RetrievalInv, AnswerGrounded
  <1>2. PICK names \in Names, captioned \in BOOLEAN :
           LET refs == [i \in DOMAIN names |-> Named(labels, names[i])]
               sources == Among(labels, ToSet(refs))
               images == {r \in ToSet(sources) : ByRef(shown, r).image}
           IN IF \/ Distinct(refs) # refs
                 \/ \E i \in DOMAIN refs : \A j \in DOMAIN shown : shown[j].ref # refs[i]
              THEN Refuse(given, "used paragraph refs")
              ELSE \E missing \in SUBSET images :
                      IF captioned /\ missing # {} THEN Refuse(given, "image captions")
                      ELSE Pass("grounded", [refs |-> refs, labels |-> labels],
                                [sources |-> sources, images |-> images \ missing])
    BY DEF AnswerGrounded
  <1> DEFINE refs == [i \in DOMAIN names |-> Named(labels, names[i])]
             sources == Among(labels, ToSet(refs))
             images == {r \in ToSet(sources) : ByRef(shown, r).image}
             Right(missing) == Pass("grounded", [refs |-> refs, labels |-> labels],
                                    [sources |-> sources, images |-> images \ missing])
  <1>3. \/ Refuse(given, "used paragraph refs")
        \/ Refuse(given, "image captions")
        \/ \E missing \in SUBSET images : Right(missing)
    BY <1>2
  <1>4. CASE Refuse(given, "used paragraph refs")
    <2>1. "used paragraph refs" # "no paragraph"
      OBVIOUS
    <2> QED
      BY <1>4, <2>1, RefusedKeeps
  <1>5. CASE Refuse(given, "image captions")
    <2>1. "image captions" # "no paragraph"
      OBVIOUS
    <2> QED
      BY <1>5, <2>1, RefusedKeeps
  <1>6. ASSUME NEW missing, Right(missing)
        PROVE  RetrievalInv'
    <2> HIDE DEF refs, images
    <2>1. stage' = "grounded" /\ given'.refs = refs /\ given'.labels = labels /\ made'.sources = sources
      BY <1>6 DEF Pass
    <2>2. labels \in Seq(Nat)
      BY <1>1 DEF InjectiveOver
    <2>3. ToSet(sources) = ToSet(refs) \cap ToSet(labels)
      <3>1. ToSet(sources) = ToSet(labels) \cap ToSet(refs)
        BY <2>2, AmongIs
      <3> QED
        BY <3>1
    <2>4. /\ sources \in Seq(Nat)
          /\ \A i, j \in 1 .. Len(sources) : i < j => Place(labels, sources[i]) < Place(labels, sources[j])
      BY <1>1, AmongOrdered DEF InjectiveOver
    <2> HIDE DEF sources, labels
    <2>5. DOMAIN sources = 1 .. Len(sources)
      BY <2>4
    <2>6. GroundedInOrder'
      <3>1. GroundedPlaces'
        BY <2>1, <2>3, <2>4, <2>5 DEF GroundedPlaces
      <3> QED
        BY <3>1, GroundedReadNext
    <2>7. /\ stage' # "fused" /\ stage' # "merged" /\ stage' # "found" /\ stage' # "selected"
          /\ stage' # "refused" /\ stage' # "ledger" /\ stage' # "rendered" /\ stage' # "cited"
      BY <2>1
    <2> QED
      BY <2>6, <2>7 DEF RetrievalInv, EvidenceExact, FusedInOrder, NothingCrowdedOut,
                  SelectionHolds, RenderedWhole, CitationsKept
  <1> QED
    BY <1>3, <1>4, <1>5, <1>6

LEMMA BuildLedgerKeeps ==
    ASSUME RetrievalInv, BuildLedger
    PROVE  RetrievalInv'
  <1>1. made.paragraphs \in Seq(Stored)
    BY DEF RetrievalInv, BuildLedger, Selection
  <1> DEFINE cited == Among(made.paragraphs, {p \in ToSet(made.paragraphs) : Citable(p)})
             offer(web) == [size |-> Len(cited) + Len(web), images |-> {i \in DOMAIN cited : cited[i].image}]
  <1>2. PICK web \in {<<>>, <<"a">>, <<"a", "b">>, <<"a", "a">>} :
           IF Distinct(web) # web THEN Refuse(given, "evidence IDs must be unique")
           ELSE Pass("ledger", [paragraphs |-> Len(made.paragraphs)], offer(web))
    BY DEF BuildLedger
  <1>3. CASE Distinct(web) # web
    <2>1. Refuse(given, "evidence IDs must be unique")
      BY <1>2, <1>3
    <2>2. "evidence IDs must be unique" # "no paragraph"
      OBVIOUS
    <2> QED
      BY <2>1, <2>2, RefusedKeeps
  <1>4. CASE Distinct(web) = web
    <2>1. stage' = "ledger" /\ made' = offer(web)
      BY <1>2, <1>4 DEF Pass
    <2>2. cited \in Seq(Stored)
      BY <1>1, AmongIs
    <2> HIDE DEF cited
    <2>3. Len(web) \in Nat
      <3>1. Len(<<>>) = 0 /\ Len(<<"a">>) = 1 /\ Len(<<"a", "b">>) = 2 /\ Len(<<"a", "a">>) = 2
        OBVIOUS
      <3>2. web = <<>> \/ web = <<"a">> \/ web = <<"a", "b">> \/ web = <<"a", "a">>
        OBVIOUS
      <3>3. Len(web) = 0 \/ Len(web) = 1 \/ Len(web) = 2
        BY <3>1, <3>2, Zenon
      <3> QED
        BY <3>3
    <2>4. made'.size = Len(cited) + Len(web) /\ made'.images \subseteq 1 .. Len(cited)
      BY <2>1, <2>2
    <2>5. made'.size \in Nat /\ made'.images \subseteq 1 .. made'.size
      BY <2>2, <2>3, <2>4
    <2>6. /\ stage' # "fused" /\ stage' # "merged" /\ stage' # "found" /\ stage' # "selected"
          /\ stage' # "refused" /\ stage' # "grounded" /\ stage' # "rendered" /\ stage' # "cited"
      BY <2>1
    <2> QED
      BY <2>5, <2>6 DEF RetrievalInv, EvidenceExact, FusedInOrder, NothingCrowdedOut,
                  SelectionHolds, RenderedWhole, GroundedInOrder, CitationsKept
  <1> QED
    BY <1>3, <1>4

LEMMA SynthesizeCitedKeeps ==
    ASSUME RetrievalInv, SynthesizeCited
    PROVE  RetrievalInv'
  <1>1. made.size \in Nat /\ made.images \subseteq 1 .. made.size
    BY DEF RetrievalInv, SynthesizeCited
  <1>2. PICK output \in Outputs(made), wanted \in BOOLEAN :
          LET shown == output.images \cup IF wanted /\ output.enough THEN made.images ELSE {}
          IN IF ~Accepted(output, made) THEN Refuse(given, "synthesis")
             ELSE Pass("cited", [output |-> output, ledger |-> made],
                       [marks |-> Renumbered(output), images |-> shown,
                        used |-> CitedIds(output) \cup IF wanted /\ output.enough THEN made.images ELSE {}])
    BY DEF SynthesizeCited
  <1>3. CASE ~Accepted(output, made)
    <2>1. Refuse(given, "synthesis")
      BY <1>2, <1>3
    <2>2. "synthesis" # "no paragraph"
      OBVIOUS
    <2> QED
      BY <2>1, <2>2, RefusedKeeps
  <1>4. CASE Accepted(output, made)
    <2> DEFINE marks == Renumbered(output)
               added == IF wanted /\ output.enough THEN made.images ELSE {}
    <2>1. /\ stage' = "cited" /\ given' = [output |-> output, ledger |-> made]
          /\ made' = [marks |-> marks, images |-> output.images \cup added, used |-> CitedIds(output) \cup added]
      BY <1>2, <1>4 DEF Pass
    <2>2. /\ \A i \in DOMAIN marks :
                /\ marks[i] \in DOMAIN output.cites
                /\ \E c \in ToSet(output.cites) :
                      c[2] = output.marks[i] /\ output.cites[marks[i]][1] = c[1]
          /\ ToSet(marks) = DOMAIN output.cites
          /\ CitedIds(output) \cup output.images \cup made.images \subseteq 1 .. made.size
      BY <1>1, <1>4, CitationsAre
    <2>3. added \subseteq made.images
      OBVIOUS
    <2> HIDE DEF marks, added
    <2>4. /\ given'.output = output /\ given'.ledger = made /\ made'.marks = marks
          /\ made'.images = output.images \cup added /\ made'.used = CitedIds(output) \cup added
      BY <2>1
    <2>5. made'.used \cup made'.images \subseteq 1 .. made.size
      BY <2>2, <2>3, <2>4
    <2>6. CitationsKept'
      BY <2>2, <2>4, <2>5 DEF CitationsKept
    <2>7. /\ stage' # "fused" /\ stage' # "merged" /\ stage' # "found" /\ stage' # "selected"
          /\ stage' # "refused" /\ stage' # "grounded" /\ stage' # "rendered" /\ stage' # "ledger"
      BY <2>1
    <2> QED
      BY <2>6, <2>7 DEF RetrievalInv, EvidenceExact, FusedInOrder, NothingCrowdedOut,
                  SelectionHolds, RenderedWhole, GroundedInOrder
  <1> QED
    BY <1>3, <1>4

LEMMA RetrievalKeeps ==
    /\ RetrievalInit => RetrievalInv
    /\ RetrievalInv /\ [RetrievalNext]_retrievalVars => RetrievalInv'
  <1>1. RetrievalInit => RetrievalInv
    BY DEF RetrievalInit, RetrievalInv, EvidenceExact, FusedInOrder, NothingCrowdedOut,
           SelectionHolds, RenderedWhole, GroundedInOrder, CitationsKept
  <1>2. ASSUME RetrievalInv, UNCHANGED retrievalVars
        PROVE  RetrievalInv'
    <2>1. stage' = stage /\ given' = given /\ made' = made
      BY <1>2 DEF retrievalVars
    <2>2. FusedInOrder' /\ GroundedInOrder'
      <3>1. FusedPlaces /\ GroundedPlaces
        BY <1>2, FusedRead, GroundedRead DEF RetrievalInv, EvidenceExact
      <3>2. FusedPlaces'
        BY <2>1, <3>1 DEF FusedPlaces
      <3>3. GroundedPlaces'
        BY <2>1, <3>1 DEF GroundedPlaces
      <3> QED
        BY <3>2, <3>3, FusedReadNext, GroundedReadNext
    <2>3. NothingCrowdedOut' /\ SelectionHolds' /\ RenderedWhole' /\ CitationsKept'
      BY <1>2, <2>1 DEF RetrievalInv, EvidenceExact, NothingCrowdedOut, SelectionHolds, RenderedWhole,
                        CitationsKept
    <2> QED
      BY <1>2, <2>1, <2>2, <2>3 DEF RetrievalInv, EvidenceExact
  <1>3. ASSUME RetrievalInv, RetrievalNext
        PROVE  RetrievalInv'
    BY <1>3, SearchFusedKeeps, SearchTwoLanguagesKeeps, LoadForHitsKeeps, BundleEvidenceKeeps,
       SelectDirectKeeps, SelectConceptsKeeps, LimitAndRenderKeeps, AnswerGroundedKeeps,
       BuildLedgerKeeps, SynthesizeCitedKeeps DEF RetrievalNext
  <1> QED
    BY <1>1, <1>2, <1>3

\* What is found, selected, shown and cited is what was stored and named, for any library,
\* rankings, limits and answers of the models (retrieval, evidence_selection, synthesis).
THEOREM EvidenceIsExact == RetrievalSpec => []EvidenceExact
  <1>1. RetrievalInv => EvidenceExact
    BY DEF RetrievalInv
  <1> QED
    BY <1>1, RetrievalKeeps, PTL DEF RetrievalSpec
================================================================================
