----------------------- MODULE QueryStatementsProofs -----------------------
(***************************************************************************)
(* What holds of QueryStatements for every plan, every result and every    *)
(* limit.                                                                  *)
(***************************************************************************)
EXTENDS QueryStatements, SequenceTheorems, FiniteSetTheorems, WellFoundedInduction, TLAPS

-----------------------------------------------------------------------------
(* Sums of sequences.                                                      *)

(* A non-empty set of naturals has a least member.                         *)
LEMMA LeastNatural ==
    ASSUME NEW S \in SUBSET Nat, S # {}
    PROVE  \E n \in S : \A m \in S : n <= m
<1> DEFINE Less == OpToRel(<, Nat)
<1>1. \A m, n \in Nat : m < n => <<m, n>> \in Less
  BY DEF OpToRel
<1>2. IsWellFoundedOn(Less, Nat)
  BY NatLessThanWellFounded
<1> HIDE DEF Less
<1>3. PICK n \in S : \A m \in S : <<m, n>> \notin Less
  BY <1>2, WFMin
<1>4. ASSUME NEW m \in S
      PROVE  n <= m
  <2>1. m \in Nat /\ n \in Nat
    OBVIOUS
  <2>2. <<m, n>> \notin Less
    BY <1>3
  <2>3. ~(m < n)
    BY <1>1, <2>1, <2>2
  <2> QED
    BY <2>1, <2>3
<1> QED
  BY <1>4

(* The partial sums of the first n terms of s.                             *)
Sums(s, n, f) ==
    /\ f \in [0..n -> Nat] /\ f[0] = 0
    /\ \A k \in 1..n : f[k] = f[k - 1] + s[k]

(* There are partial sums.                                                 *)
LEMMA SumsExist ==
    ASSUME NEW s, NEW N \in Nat, \A i \in 1..N : s[i] \in Nat
    PROVE  \E f : Sums(s, N, f)
<1> DEFINE Bad == {n \in 0..N : ~\E f : Sums(s, n, f)}
<1> SUFFICES Bad = {}
  OBVIOUS
<1>1. SUFFICES ASSUME Bad # {}
               PROVE  FALSE
  OBVIOUS
<1>0. Bad \in SUBSET Nat
  OBVIOUS
<1>2. PICK n \in Bad : \A m \in Bad : n <= m
  <2> HIDE DEF Bad
  <2> QED
    BY <1>0, <1>1, LeastNatural
<1>3. n # 0
  <2>1. Sums(s, 0, [k \in 0..0 |-> 0])
    BY DEF Sums
  <2> QED
    BY <2>1
<1>4. PICK f : Sums(s, n - 1, f)
  BY <1>2, <1>3
<1> DEFINE g == [k \in 0..n |-> IF k = n THEN f[n - 1] + s[n] ELSE f[k]]
<1>5. Sums(s, n, g)
  <2>1. f \in [0..(n - 1) -> Nat] /\ f[0] = 0 /\ \A k \in 1..(n - 1) : f[k] = f[k - 1] + s[k]
    BY <1>4 DEF Sums
  <2>2. n \in 1..N /\ s[n] \in Nat
    BY <1>3
  <2>3. g \in [0..n -> Nat] /\ g[0] = 0
    BY <2>1, <2>2
  <2>4. ASSUME NEW k \in 1..n
        PROVE  g[k] = g[k - 1] + s[k]
    <3>1. g[k - 1] = f[k - 1]
      BY <2>2
    <3>2. CASE k = n
      BY <3>1, <3>2, <2>2
    <3>3. CASE k # n
      <4>1. k \in 1..(n - 1)
        BY <3>3, <2>2
      <4> QED
        BY <4>1, <3>1, <3>3, <2>1, <2>2
    <3> QED
      BY <3>2, <3>3
  <2> QED
    BY <2>3, <2>4 DEF Sums
<1> QED
  BY <1>5

(* Partial sums agree as far as the terms do.                              *)
LEMMA SumsAgree ==
    ASSUME NEW s, NEW t, NEW f, NEW g, NEW M \in Nat, NEW N \in Nat,
           Sums(s, M, f), Sums(t, N, g),
           NEW n \in Nat, n <= M, n <= N, \A i \in 1..n : s[i] = t[i]
    PROVE  f[n] = g[n]
<1> DEFINE Bad == {k \in 0..n : f[k] # g[k]}
<1> SUFFICES Bad = {}
  OBVIOUS
<1>1. SUFFICES ASSUME Bad # {}
               PROVE  FALSE
  OBVIOUS
<1>0. Bad \in SUBSET Nat
  OBVIOUS
<1>2. PICK k \in Bad : \A m \in Bad : k <= m
  <2> HIDE DEF Bad
  <2> QED
    BY <1>0, <1>1, LeastNatural
<1>3. k # 0
  BY DEF Sums
<1>4. f[k - 1] = g[k - 1]
  BY <1>2, <1>3
<1>5. f[k] = f[k - 1] + s[k] /\ g[k] = g[k - 1] + t[k] /\ s[k] = t[k]
  BY <1>3 DEF Sums
<1> QED
  BY <1>4, <1>5

(* Total is the last partial sum.                                          *)
LEMMA TotalIsSum ==
    ASSUME NEW s \in Seq(Nat)
    PROVE  \E f : Sums(s, Len(s), f) /\ Total(s) = f[Len(s)]
<1> DEFINE N == Len(s)
           IsSum(h) == h = [n \in 0..N |-> IF n = 0 THEN 0 ELSE h[n - 1] + s[n]]
           sum == CHOOSE h : IsSum(h)
<1>1. N \in Nat /\ \A i \in 1..N : s[i] \in Nat
  BY LenProperties
<1>2. PICK f : Sums(s, N, f)
  BY <1>1, SumsExist
<1>3. IsSum(f)
  BY <1>2, <1>1 DEF Sums
<1>4. IsSum(sum)
  BY <1>3
<1>5. Total(s) = sum[N]
  BY DEF Total
<1> HIDE DEF N, sum
<1>6. Sums(s, N, sum)
  <2>1. DOMAIN sum = 0..N /\ sum[0] = 0
    BY <1>4, <1>1
  <2>2. \A k \in 1..N : sum[k] = sum[k - 1] + s[k]
    BY <1>4, <1>1
  <2>3. \A k \in 0..N : sum[k] = f[k]
    <3> DEFINE Bad == {k \in 0..N : sum[k] # f[k]}
    <3> SUFFICES ASSUME Bad # {}
                 PROVE  FALSE
      OBVIOUS
    <3>0. Bad \in SUBSET Nat
      BY <1>1
    <3>1. PICK k \in Bad : \A m \in Bad : k <= m
      <4> HIDE DEF Bad
      <4> QED
        BY <3>0, LeastNatural
    <3>2. k # 0
      BY <2>1, <1>2 DEF Sums
    <3>3. sum[k - 1] = f[k - 1]
      BY <3>1, <3>2, <1>1
    <3> QED
      BY <3>2, <3>3, <2>2, <1>2, <1>1 DEF Sums
  <2>4. sum = [k \in 0..N |-> sum[k]]
    BY <2>1, <1>4
  <2>5. sum \in [0..N -> Nat]
    BY <2>3, <2>4, <1>2 DEF Sums
  <2> QED
    BY <2>1, <2>2, <2>5 DEF Sums
<1> QED
  BY <1>5, <1>6 DEF N

(* A row adds its size and, but for the first, a comma.                    *)
LEMMA BytesOfAppend ==
    ASSUME NEW s \in Seq(Nat), NEW row \in Nat
    PROVE  /\ ArrayBytes(s) \in Nat
           /\ ArrayBytes(Append(s, row)) = ArrayBytes(s) + (IF s = <<>> THEN 0 ELSE 1) + row
<1> DEFINE t == Append(s, row)
           N == Len(s)
<1>1. t \in Seq(Nat) /\ Len(t) = N + 1 /\ N \in Nat /\ t # <<>>
      /\ (\A i \in 1..N : t[i] = s[i]) /\ t[N + 1] = row
  BY AppendProperties, LenProperties
<1>2. PICK f : Sums(s, N, f) /\ Total(s) = f[N]
  BY TotalIsSum
<1>3. PICK g : Sums(t, N + 1, g) /\ Total(t) = g[N + 1]
  BY <1>1, TotalIsSum
<1>4. s = <<>> <=> N = 0
  BY EmptySeq, LenProperties
<1>5. ArrayBytes(s) = 2 + Total(s) + (IF s = <<>> THEN 0 ELSE N - 1)
  BY DEF ArrayBytes
<1>6. ArrayBytes(t) = 2 + Total(t) + N
  BY <1>1 DEF ArrayBytes
<1> HIDE DEF t, N
<1>7. f[N] \in Nat
  BY <1>1, <1>2 DEF Sums
<1>8. f[N] = g[N]
  BY <1>1, <1>2, <1>3, SumsAgree
<1>9. g[N + 1] = g[N] + row
  <2>1. g[N + 1] = g[(N + 1) - 1] + t[N + 1]
    BY <1>1, <1>3 DEF Sums
  <2> QED
    BY <2>1, <1>1
<1>10. ArrayBytes(s) \in Nat
  BY <1>1, <1>2, <1>4, <1>5, <1>7
<1>11. ArrayBytes(t) = ArrayBytes(s) + (IF s = <<>> THEN 0 ELSE 1) + row
  <2>1. CASE s = <<>>
    BY <2>1, <1>1, <1>2, <1>3, <1>4, <1>5, <1>6, <1>7, <1>8, <1>9
  <2>2. CASE s # <<>>
    BY <2>2, <1>1, <1>2, <1>3, <1>4, <1>5, <1>6, <1>7, <1>8, <1>9
  <2> QED
    BY <2>1, <2>2
<1> QED
  BY <1>10, <1>11 DEF t

-----------------------------------------------------------------------------
(* The fetch loop.                                                         *)

Row == RowSizes \union {Unencodable}

\* Before the user's SQL runs, and from then on.
Early == {"session", "functions", "operators", "explain", "summarize", "execute", "describe"}
Late == {"describe", "fetching", "encoding", "commit", "ok"}

FetchTypes ==
    /\ table \in Seq(Row) /\ batch \in Seq(Row) /\ rows \in Seq(RowSizes)
    /\ handed \in Nat /\ bytes \in Nat /\ truncated \in BOOLEAN
    /\ budget \in [rows : Nat, bytes : Nat]

Unstarted == status \in Early => rows = <<>> /\ batch = <<>> /\ handed = 0 /\ ~truncated

(* What was handed out is the response, then the batch in work.            *)
Window ==
    /\ batch # <<>> => status = "fetching" /\ ~truncated
    /\ status = "fetching" /\ ~truncated => handed = Len(rows) + Len(batch)
    /\ \A i \in 1..Len(batch) : batch[i] = table[Len(rows) + i]
    /\ Len(rows) <= budget.rows /\ Len(rows) <= handed /\ handed <= Len(table)
    /\ FetchIsBounded

(* The response is a prefix of the table within the limits.                *)
Delivered ==
    /\ \A i \in 1..Len(rows) : rows[i] = table[i] /\ rows[i] # Unencodable
    /\ bytes = ArrayBytes(rows)
    /\ status \in Late => bytes <= budget.bytes

(* The loop stops at the row limit, at the byte limit, or at the end.      *)
Stopped ==
    /\ truncated =>
        /\ Len(rows) < handed
        /\ \/ Len(rows) = budget.rows
           \/ /\ table[Len(rows) + 1] \in RowSizes
              /\ Added(table[Len(rows) + 1]) > budget.bytes
    /\ status \in {"commit", "ok"} => batch = <<>> /\ (truncated \/ Len(rows) = Len(table))
    /\ status = "encoding" =>
        Len(rows) < budget.rows /\ Len(rows) < Len(table) /\ table[Len(rows) + 1] = Unencodable

FetchInv == FetchTypes /\ Unstarted /\ Window /\ Delivered /\ Stopped

LEMMA NoBytes == <<>> \in Seq(Nat) /\ ArrayBytes(<<>>) = 2
<1>1. <<>> \in Seq(Nat) /\ Len(<<>>) = 0
  BY EmptySeq
<1>2. PICK f : Sums(<<>>, 0, f) /\ Total(<<>>) = f[0]
  BY <1>1, TotalIsSum
<1> QED
  BY <1>1, <1>2 DEF Sums, ArrayBytes

LEMMA FetchInit ==
    ASSUME Init
    PROVE  FetchInv
<1>1. FetchTypes
  BY EmptySeq DEF Init, FetchTypes, NoBudget
<1>2. Unstarted /\ Stopped
  BY DEF Init, Unstarted, Stopped
<1>3. Window
  BY FetchAssumption, EmptySeq DEF Init, Window, FetchIsBounded, NoBudget
<1>4. Delivered
  BY NoBytes, EmptySeq DEF Init, Delivered, Late
<1> QED
  BY <1>1, <1>2, <1>3, <1>4 DEF FetchInv

(* The steps that leave the rows alone.                                    *)
LEMMA QuietStep ==
    ASSUME FetchInv, UNCHANGED fetchVars,
           status' \in Early => status \in Early,
           batch # <<>> => status' = status,
           status' = "fetching" => status = "fetching" \/ status = "describe",
           status' \in Late => status \in Late,
           status' \in {"commit", "ok"} =>
               \/ status \in {"commit", "ok"}
               \/ status = "fetching" /\ batch = <<>> /\ (truncated \/ handed = Len(table)),
           status' = "encoding" => status = "encoding"
    PROVE  FetchInv'
<1> USE DEF FetchInv, fetchVars
<1>1. FetchTypes'
  BY DEF FetchTypes
<1>2. Unstarted'
  BY DEF Unstarted
<1>3. Window'
  <2>1. status' = "fetching" /\ ~truncated => handed = Len(rows) + Len(batch)
    <3>1. CASE status = "describe"
      BY <3>1, EmptySeq DEF Unstarted, Early
    <3> QED
      BY <3>1 DEF Window
  <2> QED
    BY <2>1 DEF Window, FetchIsBounded
<1>4. Delivered'
  BY DEF Delivered
<1>5. Stopped'
  <2>1. Len(rows) \in Nat
    BY LenProperties DEF FetchTypes
  <2>2. status = "fetching" /\ batch = <<>> /\ ~truncated => handed = Len(rows)
    BY <2>1, EmptySeq DEF Window
  <2> QED
    BY <2>2 DEF Stopped, Window, Added
<1> QED
  BY <1>1, <1>2, <1>3, <1>4, <1>5

LEMMA QuietActions ==
    ASSUME FetchInv,
           \/ StatementFails \/ CheckSession \/ ResolveFunctions \/ ResolveOperators
           \/ UserSqlFails \/ Explain \/ Visit \/ Judge \/ Describe \/ Commit \/ UNCHANGED vars
    PROVE  FetchInv'
<1> USE DEF Early, Late, fetchVars
<1>1. batch # <<>> => status = "fetching"
  BY DEF FetchInv, Window
<1>2. CASE StatementFails
  BY <1>1, <1>2, QuietStep DEF StatementFails
<1>3. CASE CheckSession
  <2>1. status' \in {"functions", "policy"} /\ status = "session" /\ UNCHANGED fetchVars
    BY <1>3 DEF CheckSession
  <2> QED
    BY <1>1, <2>1, QuietStep
<1>4. CASE ResolveFunctions \/ ResolveOperators
  <2>1. status \in Early /\ status' \in {"operators", "explain", "unsafe"}
        /\ status # "fetching" /\ UNCHANGED fetchVars
    BY <1>4 DEF ResolveFunctions, ResolveOperators, Resolve
  <2> QED
    BY <1>1, <2>1, QuietStep
<1>5. CASE UserSqlFails
  BY <1>1, <1>5, QuietStep DEF UserSqlFails
<1>6. CASE Explain
  <2>1. status = "explain" /\ status' \in {"malformed", "summarize"} /\ UNCHANGED fetchVars
    BY <1>6 DEF Explain
  <2> QED
    BY <1>1, <2>1, QuietStep
<1>7. CASE Visit
  <2>1. status = "summarize" /\ status' \in {"malformed", "summarize"} /\ UNCHANGED fetchVars
    BY <1>7 DEF Visit
  <2> QED
    BY <1>1, <2>1, QuietStep
<1>8. CASE Judge
  <2>1. status = "summarize" /\ status' \in {"cost", "rows", "nodes", "execute"} /\ UNCHANGED fetchVars
    BY <1>8 DEF Judge, Verdict
  <2> QED
    BY <1>1, <2>1, QuietStep
<1>9. CASE Describe
  <2>1. status = "describe" /\ status' \in {"columns", "duplicate", "fetching"} /\ UNCHANGED fetchVars
    BY <1>9 DEF Describe
  <2> QED
    BY <1>1, <2>1, QuietStep
<1>10. CASE Commit
  BY <1>1, <1>10, QuietStep DEF Commit
<1>11. CASE UNCHANGED vars
  BY <1>1, <1>11, QuietStep DEF vars
<1> QED
  BY <1>2, <1>3, <1>4, <1>5, <1>6, <1>7, <1>8, <1>9, <1>10, <1>11

(* The lengths, as numbers.                                                *)
LEMMA Lengths ==
    ASSUME FetchTypes
    PROVE  Len(rows) \in Nat /\ Len(batch) \in Nat /\ Len(table) \in Nat
  BY LenProperties DEF FetchTypes

(* A fetch always asks for a row, and for one beyond the limit at most.    *)
LEMMA WantIsBounded ==
    ASSUME FetchTypes, Len(rows) <= budget.rows
    PROVE  Want \in 1..Batch /\ Len(rows) + Want <= budget.rows + 1
<1>1. Len(rows) \in Nat /\ budget.rows \in Nat /\ Batch \in Nat \ {0}
  BY Lengths, FetchAssumption DEF FetchTypes
<1> DEFINE n == Len(rows)
           r == budget.rows
<1>2. Want = IF Batch < r - n + 1 THEN Batch ELSE r - n + 1
  BY DEF Want
<1> HIDE DEF n, r
<1> QED
  BY <1>1, <1>2 DEF n, r

LEMMA FetchedStep ==
    ASSUME FetchInv, Fetched
    PROVE  FetchInv'
<1>1. Want > 0
  BY WantIsBounded, FetchAssumption DEF FetchInv, Window
<1>2. /\ status = "fetching" /\ batch = <<>> /\ status' = "commit"
      /\ truncated \/ handed = Len(table)
      /\ UNCHANGED fetchVars
  BY <1>1 DEF Fetched
<1> QED
  BY <1>2, QuietStep DEF Early, Late

LEMMA ExecuteStep ==
    ASSUME FetchInv, Execute
    PROVE  FetchInv'
<1> USE DEF FetchInv
<1>1. /\ rows = <<>> /\ batch = <<>> /\ handed = 0 /\ ~truncated
      /\ status = "execute" /\ status' = "describe"
      /\ UNCHANGED <<handed, batch, rows, bytes, truncated>>
      /\ budget' \in [rows : RowLimits, bytes : ByteLimits]
  BY DEF Execute, Unstarted, Early
<1>2. table' \in Seq(Row)
  <2>1. table' \in BoundedSeq(Row, MaxTable)
    BY DEF Execute, Row
  <2>2. PICK n \in 0..MaxTable : table' \in [1..n -> Row]
    BY <2>1 DEF BoundedSeq, SeqOf
  <2> QED
    BY <2>2, SeqDef, FetchAssumption
<1>3. budget'.rows \in Nat /\ budget'.bytes \in Nat /\ budget'.bytes >= 2
  <2>1. budget'.rows \in RowLimits /\ budget'.bytes \in ByteLimits
    BY <1>1
  <2>2. budget'.bytes \in Nat /\ budget'.bytes # 0 /\ budget'.bytes # 1
    BY <2>1, FetchAssumption
  <2>3. budget'.bytes >= 2
    BY <2>2
  <2> QED
    BY <2>1, <2>2, <2>3, FetchAssumption
<1>4. FetchTypes'
  BY <1>1, <1>2, FetchAssumption DEF FetchTypes
<1>5. Len(table') \in Nat
  BY <1>2, LenProperties
<1>6. Unstarted'
  BY <1>1 DEF Unstarted
<1>7. Window'
  BY <1>1, <1>3, <1>5, EmptySeq, FetchAssumption DEF Window, FetchIsBounded
<1>8. Delivered'
  BY <1>1, <1>3, NoBytes, EmptySeq DEF Delivered
<1>9. Stopped'
  BY <1>1 DEF Stopped
<1> QED
  BY <1>4, <1>6, <1>7, <1>8, <1>9

LEMMA FetchStep ==
    ASSUME FetchInv, Fetch
    PROVE  FetchInv'
<1> DEFINE n == Len(rows)
           N == Len(table)
           top == IF handed + Want < N THEN handed + Want ELSE N
<1> USE DEF FetchInv
<1>1. /\ status = "fetching" /\ batch = <<>> /\ ~truncated
      /\ handed < N
      /\ batch' = SubSeq(table, handed + 1, top)
      /\ handed' = handed + Len(batch')
      /\ UNCHANGED <<status, budget, table, rows, bytes, truncated>>
  BY DEF Fetch
<1>2. /\ n \in Nat /\ N \in Nat /\ handed \in Nat /\ budget.rows \in Nat
      /\ table \in Seq(Row) /\ \A i \in 1..N : table[i] \in Row
  BY Lengths, LenProperties DEF FetchTypes
<1>3. handed = n /\ n <= budget.rows
  BY <1>1, <1>2, EmptySeq DEF Window
<1>4. Want \in 1..Batch /\ n + Want <= budget.rows + 1 /\ Batch \in Nat
  BY <1>3, WantIsBounded, FetchAssumption
<1> HIDE DEF n, N
<1>5. top \in Nat /\ handed + 1 <= top /\ top <= N /\ top <= handed + Want
  BY <1>1, <1>2, <1>4
<1> HIDE DEF top
<1>6. /\ batch' \in Seq(Row) /\ Len(batch') = top - handed
      /\ \A i \in 1..(top - handed) : batch'[i] = table[handed + i]
  <2>1. \A i \in (handed + 1)..top : table[i] \in Row
    BY <1>2, <1>5
  <2>2. /\ SubSeq(table, handed + 1, top) \in Seq(Row)
        /\ Len(SubSeq(table, handed + 1, top)) =
              IF handed + 1 <= top THEN top - (handed + 1) + 1 ELSE 0
        /\ \A i \in 1..(top - (handed + 1) + 1) :
              SubSeq(table, handed + 1, top)[i] = table[(handed + 1) + i - 1]
    BY <1>2, <1>5, <2>1, SubSeqProperties
  <2>3. top - (handed + 1) + 1 = top - handed
    BY <1>2, <1>5
  <2>4. \A i \in 1..(top - handed) : (handed + 1) + i - 1 = handed + i
    BY <1>2, <1>5
  <2> QED
    BY <1>1, <1>5, <2>2, <2>3, <2>4
<1>7. handed' = top
  BY <1>1, <1>2, <1>5, <1>6
<1>8. FetchTypes'
  BY <1>1, <1>5, <1>6, <1>7 DEF FetchTypes
<1>9. Unstarted' /\ Delivered' /\ Stopped'
  BY <1>1 DEF Unstarted, Early, Delivered, Stopped
<1>10. Window'
  <2>1. status' = "fetching" /\ ~truncated'
    BY <1>1
  <2>2. handed' = n + Len(batch') /\ n <= handed' /\ handed' <= N
    BY <1>2, <1>3, <1>5, <1>6, <1>7
  <2>3. \A i \in 1..Len(batch') : batch'[i] = table[n + i]
    BY <1>3, <1>6
  <2>4. handed' <= budget.rows + 1 /\ handed' - n <= Batch
    BY <1>2, <1>3, <1>4, <1>5, <1>7
  <2> QED
    BY <1>1, <1>3, <2>1, <2>2, <2>3, <2>4 DEF Window, FetchIsBounded, n, N
<1> QED
  BY <1>8, <1>9, <1>10

(* The row that is looked at is the next one of the table.                 *)
LEMMA NextRow ==
    ASSUME FetchInv, batch # <<>>
    PROVE  /\ status = "fetching" /\ ~truncated
           /\ Head(batch) = table[Len(rows) + 1] /\ Head(batch) \in Row
           /\ Len(rows) < handed /\ Len(rows) < Len(table)
           /\ handed = Len(rows) + Len(batch)
<1> USE DEF FetchInv
<1>1. Len(batch) \in Nat \ {0}
  BY EmptySeq DEF FetchTypes
<1>2. Head(batch) = batch[1]
  OBVIOUS
<1>3. Head(batch) \in Row
  BY HeadTailProperties DEF FetchTypes
<1>4. batch[1] = table[Len(rows) + 1]
  BY <1>1 DEF Window
<1>5. Len(rows) \in Nat /\ Len(table) \in Nat /\ handed \in Nat
  BY Lengths DEF FetchTypes
<1>6. status = "fetching" /\ ~truncated /\ handed = Len(rows) + Len(batch) /\ handed <= Len(table)
  BY DEF Window
<1>7. Len(rows) < handed /\ Len(rows) < Len(table)
  BY <1>1, <1>5, <1>6
<1> QED
  BY <1>2, <1>3, <1>4, <1>6, <1>7

LEMMA TruncateStep ==
    ASSUME FetchInv, Truncate
    PROVE  FetchInv'
<1> USE DEF FetchInv
<1>1. /\ batch # <<>> /\ batch' = <<>> /\ truncated' = TRUE
      /\ AtRowLimit \/ (Head(batch) # Unencodable /\ Overflows(Head(batch)))
      /\ UNCHANGED <<status, budget, table, handed, rows, bytes>>
  BY DEF Truncate
<1>2. /\ status = "fetching" /\ Head(batch) = table[Len(rows) + 1] /\ Head(batch) \in Row
      /\ Len(rows) < handed
  BY <1>1, NextRow
<1>3. FetchTypes'
  BY <1>1, EmptySeq DEF FetchTypes
<1>4. Unstarted' /\ Delivered'
  BY <1>1, <1>2 DEF Unstarted, Early, Delivered
<1>5. Window'
  BY <1>1, EmptySeq DEF Window, FetchIsBounded
<1>6. Stopped'
  <2>1. Len(rows) \in Nat /\ budget.rows \in Nat
    BY Lengths DEF FetchTypes
  <2>2. AtRowLimit => Len(rows) = budget.rows
    BY <2>1 DEF AtRowLimit, Window
  <2>3. Head(batch) # Unencodable => Head(batch) \in RowSizes
    BY <1>2 DEF Row
  <2>4. Overflows(Head(batch)) => Added(table[Len(rows) + 1]) > budget.bytes
    BY <1>2 DEF Overflows
  <2>5. \/ Len(rows) = budget.rows
        \/ table[Len(rows) + 1] \in RowSizes /\ Added(table[Len(rows) + 1]) > budget.bytes
    BY <1>1, <1>2, <2>2, <2>3, <2>4
  <2> QED
    BY <1>1, <1>2, <2>5 DEF Stopped, Added
<1> QED
  BY <1>3, <1>4, <1>5, <1>6

LEMMA EncodeFailsStep ==
    ASSUME FetchInv, EncodeFails
    PROVE  FetchInv'
<1> USE DEF FetchInv
<1>1. /\ batch # <<>> /\ batch' = <<>> /\ status' = "encoding" /\ Raises(Head(batch))
      /\ UNCHANGED <<budget, table, handed, rows, bytes, truncated>>
  BY DEF EncodeFails
<1>2. /\ status = "fetching" /\ ~truncated /\ Head(batch) = table[Len(rows) + 1]
      /\ Len(rows) < Len(table)
  BY <1>1, NextRow
<1>3. FetchTypes'
  BY <1>1, EmptySeq DEF FetchTypes
<1>4. Unstarted' /\ Delivered'
  BY <1>1, <1>2 DEF Unstarted, Early, Delivered, Late
<1>5. Window'
  BY <1>1, EmptySeq DEF Window, FetchIsBounded
<1>6. Stopped'
  <2>1. Len(rows) \in Nat /\ budget.rows \in Nat
    BY Lengths DEF FetchTypes
  <2>2. Len(rows) < budget.rows /\ table[Len(rows) + 1] = Unencodable
    BY <1>1, <1>2, <2>1 DEF Raises, AtRowLimit
  <2> QED
    BY <1>1, <1>2, <2>2 DEF Stopped
<1> QED
  BY <1>3, <1>4, <1>5, <1>6

LEMMA KeepStep ==
    ASSUME FetchInv, Keep
    PROVE  FetchInv'
<1> DEFINE n == Len(rows)
           b == Len(batch)
           row == Head(batch)
<1> USE DEF FetchInv
<1>1. /\ batch # <<>> /\ row # Unencodable /\ ~AtRowLimit /\ ~Overflows(row)
      /\ rows' = Append(rows, row) /\ bytes' = Added(row) /\ batch' = Tail(batch)
      /\ UNCHANGED <<status, budget, table, handed, truncated>>
  BY DEF Keep
<1>2. /\ status = "fetching" /\ ~truncated
      /\ row = table[n + 1] /\ row \in Row
      /\ n < handed /\ n < Len(table) /\ handed = n + b
  BY <1>1, NextRow
<1>3. row \in RowSizes /\ row \in Nat
  BY <1>1, <1>2, FetchAssumption DEF Row
<1>4. /\ n \in Nat /\ b \in Nat /\ Len(table) \in Nat /\ handed \in Nat
      /\ budget.rows \in Nat /\ budget.bytes \in Nat /\ bytes \in Nat
  BY Lengths DEF FetchTypes
<1>5. /\ rows' \in Seq(RowSizes) /\ Len(rows') = n + 1 /\ rows' # <<>>
      /\ (\A i \in 1..n : rows'[i] = rows[i]) /\ rows'[n + 1] = row
  BY <1>1, <1>3, AppendProperties DEF FetchTypes
<1>6. /\ batch' \in Seq(Row) /\ Len(batch') = b - 1
      /\ \A i \in 1..(b - 1) : batch'[i] = batch[i + 1]
  BY <1>1, HeadTailProperties DEF FetchTypes
<1>7. bytes' \in Nat /\ bytes' <= budget.bytes /\ bytes' = ArrayBytes(rows')
  <2>1. rows \in Seq(Nat)
    BY SeqMonotonic, FetchAssumption DEF FetchTypes
  <2>2. bytes' = bytes + (IF rows = <<>> THEN 0 ELSE 1) + row
    BY <1>1 DEF Added
  <2>3. bytes = ArrayBytes(rows)
    BY DEF Delivered
  <2>4. bytes' = ArrayBytes(rows')
    BY <1>1, <1>3, <2>1, <2>2, <2>3, BytesOfAppend
  <2>5. bytes' \in Nat
    BY <1>3, <1>4, <2>2
  <2> QED
    BY <1>1, <1>4, <2>4, <2>5 DEF Overflows
<1>8. FetchTypes'
  BY <1>1, <1>5, <1>6, <1>7 DEF FetchTypes
<1>9. Unstarted' /\ Stopped'
  BY <1>1, <1>2 DEF Unstarted, Early, Stopped
<1>10. Delivered'
  <2>1. \A i \in 1..n : rows[i] = table[i] /\ rows[i] # Unencodable
    BY DEF Delivered
  <2>2. ASSUME NEW i \in 1..(n + 1)
        PROVE  rows'[i] = table[i] /\ rows'[i] # Unencodable
    <3>1. i \in 1..n \/ i = n + 1
      BY <1>4
    <3> QED
      BY <1>1, <1>2, <1>5, <2>1, <3>1
  <2> QED
    BY <1>1, <1>5, <1>7, <2>2 DEF Delivered
<1>11. Window'
  <2>1. \A i \in 1..b : batch[i] = table[n + i]
    BY DEF Window
  <2>2. ASSUME NEW i \in 1..(b - 1)
        PROVE  batch'[i] = table[(n + 1) + i]
    <3>1. i + 1 \in 1..b /\ n + (i + 1) = (n + 1) + i
      BY <1>4
    <3> QED
      BY <1>6, <2>1, <3>1
  <2>3. handed <= budget.rows + 1 /\ handed - n <= Batch /\ handed <= Len(table)
    BY DEF Window, FetchIsBounded
  <2>4. n < budget.rows
    BY <1>1, <1>4 DEF AtRowLimit
  <2> HIDE DEF n, b
  <2>5. /\ handed = (n + 1) + (b - 1) /\ n + 1 <= budget.rows /\ n + 1 <= handed
        /\ handed - (n + 1) <= Batch
    BY <1>2, <1>4, <2>3, <2>4, FetchAssumption
  <2> QED
    BY <1>1, <1>2, <1>5, <1>6, <2>2, <2>3, <2>5 DEF Window, FetchIsBounded
<1> QED
  BY <1>8, <1>9, <1>10, <1>11

LEMMA FetchNext ==
    ASSUME FetchInv, [Next]_vars
    PROVE  FetchInv'
<1>1. CASE \/ StatementFails \/ CheckSession \/ ResolveFunctions \/ ResolveOperators
           \/ UserSqlFails \/ Explain \/ Visit \/ Judge \/ Describe \/ Commit \/ UNCHANGED vars
  BY <1>1, QuietActions
<1>2. CASE Execute
  BY <1>2, ExecuteStep
<1>3. CASE Fetch
  BY <1>3, FetchStep
<1>4. CASE Truncate
  BY <1>4, TruncateStep
<1>5. CASE EncodeFails
  BY <1>5, EncodeFailsStep
<1>6. CASE Keep
  BY <1>6, KeepStep
<1>7. CASE Fetched
  BY <1>7, FetchedStep
<1> QED
  BY <1>1, <1>2, <1>3, <1>4, <1>5, <1>6, <1>7 DEF Next

THEOREM FetchInvariance == Spec => []FetchInv
<1>1. Init => FetchInv
  BY FetchInit
<1>2. FetchInv /\ [Next]_vars => FetchInv'
  BY FetchNext
<1> QED
  BY <1>1, <1>2, PTL DEF Spec

(* The response is the prefix of the result it claims to be.               *)
LEMMA RowsArePrefix ==
    ASSUME FetchInv
    PROVE  /\ rows \in Seq(Row) /\ Len(rows) \in Nat /\ Len(rows) <= Len(table)
           /\ rows = Prefix(Len(rows))
           /\ \A i \in 1..Len(rows) : table[i] # Unencodable
<1> USE DEF FetchInv
<1>1. rows \in Seq(Row)
  BY SeqMonotonic DEF FetchTypes, Row
<1>2. /\ Len(rows) \in Nat /\ Len(table) \in Nat /\ handed \in Nat
      /\ Len(rows) <= handed /\ handed <= Len(table)
  BY Lengths DEF FetchTypes, Window
<1>3. Len(rows) <= Len(table)
  BY <1>2
<1> DEFINE n == Len(rows)
<1>4. /\ Prefix(n) \in Seq(Row) /\ Len(Prefix(n)) = n
      /\ \A i \in 1..n : Prefix(n)[i] = table[i]
  <2>1. \A i \in 1..n : table[i] \in Row
    BY <1>2, <1>3, LenProperties DEF FetchTypes
  <2> HIDE DEF n
  <2>2. /\ SubSeq(table, 1, n) \in Seq(Row)
        /\ Len(SubSeq(table, 1, n)) = IF 1 <= n THEN n - 1 + 1 ELSE 0
        /\ \A i \in 1..(n - 1 + 1) : SubSeq(table, 1, n)[i] = table[1 + i - 1]
    BY <1>2, <2>1, SubSeqProperties DEF n
  <2>3. n \in Nat
    BY <1>2 DEF n
  <2>4. n - 1 + 1 = n /\ \A i \in 1..n : 1 + i - 1 = i
    BY <2>3
  <2>5. Len(SubSeq(table, 1, n)) = n
    BY <2>2, <2>3
  <2> QED
    BY <2>2, <2>4, <2>5 DEF Prefix
<1>5. \A i \in 1..n : rows[i] = table[i] /\ rows[i] # Unencodable
  BY DEF Delivered
<1>6. rows = Prefix(n)
  BY <1>1, <1>4, <1>5, SeqEqual
<1> QED
  BY <1>1, <1>2, <1>3, <1>5, <1>6

(* One row more is what the code adds up before it looks at the limit.     *)
LEMMA NextPrefix ==
    ASSUME FetchInv, Len(rows) < Len(table), table[Len(rows) + 1] \in RowSizes
    PROVE  ArrayBytes(Prefix(Len(rows) + 1)) = Added(table[Len(rows) + 1])
<1> DEFINE n == Len(rows)
           row == table[n + 1]
<1>1. n \in Nat /\ Len(table) \in Nat /\ n + 1 \in 1..Len(table)
  BY RowsArePrefix, Lengths DEF FetchInv
<1>2. rows \in Seq(Nat) /\ row \in Nat /\ bytes = ArrayBytes(rows)
  BY SeqMonotonic, FetchAssumption DEF FetchInv, FetchTypes, Delivered
<1>3. Prefix(n + 1) = Append(rows, row)
  <2>1. table \in Seq(Row) /\ row \in Row /\ 1 \in 1..Len(table) /\ n + 1 \in 1..Len(table)
    BY <1>1 DEF FetchInv, FetchTypes, Row
  <2>2. SubSeq(table, 1, n + 1) = SubSeq(table, 1, (n + 1) - 1) \o <<row>>
    BY <1>1, <2>1, SubSeqRecursiveSecond
  <2>3. (n + 1) - 1 = n
    BY <1>1
  <2>4. Append(rows, row) = rows \o <<row>>
    BY <2>1, RowsArePrefix, AppendIsConcat
  <2> QED
    BY <2>2, <2>3, <2>4, RowsArePrefix DEF Prefix
<1>4. ArrayBytes(Append(rows, row)) = ArrayBytes(rows) + (IF rows = <<>> THEN 0 ELSE 1) + row
  BY <1>2, BytesOfAppend
<1> QED
  BY <1>2, <1>3, <1>4 DEF Added

(* FetchIsBounded, the hand-out of the cursor in _execute_connection: one  *)
(* row beyond the row limit at most, and one batch in memory.              *)
THEOREM FetchesAreBounded == Spec => []FetchIsBounded
<1>1. FetchInv => FetchIsBounded
  BY DEF FetchInv, Window
<1> QED
  BY <1>1, FetchInvariance, PTL

(* DeliversWhatFits, the row loop of _execute_connection: the bytes are    *)
(* exact, the response is the longest prefix within the limits, truncated  *)
(* says whether it is the whole result.                                    *)
THEOREM ResponsesAreExact == Spec => []DeliversWhatFits
<1>1. FetchInv => DeliversWhatFits
  <2> SUFFICES ASSUME FetchInv
               PROVE  DeliversWhatFits
    OBVIOUS
  <2>1. bytes = ArrayBytes(rows)
    BY DEF FetchInv, Delivered
  <2> SUFFICES ASSUME status = "ok"
               PROVE  /\ rows = Prefix(Len(rows)) /\ Fits(Len(rows))
                      /\ truncated <=> Len(rows) < Len(table)
                      /\ truncated => \/ Len(rows) = budget.rows
                                      \/ ArrayBytes(Prefix(Len(rows) + 1)) > budget.bytes
    BY <2>1 DEF DeliversWhatFits
  <2>2. rows = Prefix(Len(rows)) /\ \A i \in 1..Len(rows) : table[i] # Unencodable
    BY RowsArePrefix
  <2>3. Fits(Len(rows))
    <3>1. Len(rows) <= budget.rows /\ bytes <= budget.bytes
      BY DEF FetchInv, Window, Delivered, Late
    <3> QED
      BY <2>1, <2>2, <3>1 DEF Fits
  <2>4. truncated => Len(rows) < Len(table)
    BY Lengths DEF FetchInv, FetchTypes, Stopped, Window
  <2>5. ~truncated => Len(rows) = Len(table)
    BY DEF FetchInv, Stopped
  <2>6. truncated => \/ Len(rows) = budget.rows
                     \/ ArrayBytes(Prefix(Len(rows) + 1)) > budget.bytes
    BY <2>4, NextPrefix DEF FetchInv, Stopped
  <2>7. Len(rows) \in Nat
    BY RowsArePrefix
  <2> QED
    BY <2>2, <2>3, <2>4, <2>5, <2>6, <2>7
<1> QED
  BY <1>1, FetchInvariance, PTL

(* FailsForItsRows, encode_result_value in the row loop: an encoding error *)
(* comes from the row right after what fits, within the row limit; the     *)
(* byte limit plays no part.                                               *)
THEOREM EncodingErrorsFollowWhatFits == Spec => []FailsForItsRows
<1>1. FetchInv => FailsForItsRows
  <2> SUFFICES ASSUME FetchInv, status = "encoding"
               PROVE  \E n \in 1..Len(table) :
                        n <= budget.rows /\ table[n] = Unencodable /\ Fits(n - 1)
    BY DEF FailsForItsRows
  <2> DEFINE n == Len(rows)
  <2>1. n < budget.rows /\ n < Len(table) /\ table[n + 1] = Unencodable
    BY DEF FetchInv, Stopped
  <2>2. n \in Nat /\ Len(table) \in Nat /\ budget.rows \in Nat
    BY Lengths DEF FetchInv, FetchTypes
  <2>3. n + 1 \in 1..Len(table) /\ n + 1 <= budget.rows /\ (n + 1) - 1 = n
    BY <2>1, <2>2
  <2>4. Fits(n)
    <3>1. n <= budget.rows /\ bytes <= budget.bytes /\ bytes = ArrayBytes(rows)
      BY DEF FetchInv, Window, Delivered, Late
    <3> QED
      BY <3>1, RowsArePrefix DEF Fits
  <2> QED
    BY <2>1, <2>3, <2>4
<1> QED
  BY <1>1, FetchInvariance, PTL

-----------------------------------------------------------------------------
(* Sequences without repetition.                                           *)

(* SetToSeq lists a finite set, each member once.                          *)
LEMMA Listing ==
    ASSUME NEW S, IsFiniteSet(S)
    PROVE  /\ SetToSeq(S) \in Seq(S) /\ IsInjective(SetToSeq(S))
           /\ Range(SetToSeq(S)) = S
<1> DEFINE n == Cardinality(S)
<1>1. n \in Nat /\ ExistsBijection(1..n, S)
  BY FS_CardinalityType
<1>2. PICK f \in Bijection(1..n, S) : TRUE
  BY <1>1 DEF ExistsBijection
<1>3. f \in [1..n -> S] /\ IsInjective(f)
  BY <1>2 DEF Bijection, Injection, IsInjective
<1> HIDE DEF n
<1>4. SetToSeq(S) \in [1..n -> S] /\ IsInjective(SetToSeq(S))
  BY <1>3 DEF SetToSeq, n
<1> DEFINE g == SetToSeq(S)
<1>5. g \in Seq(S)
  BY <1>1, <1>4, SeqDef
<1> HIDE DEF g
<1>6. IsFiniteSet(1..n) /\ Cardinality(1..n) = n
  BY <1>1, FS_Interval
<1>7. Range(g) = S
  <2>1. g \in Surjection(1..n, Range(g)) /\ g \in Injection(1..n, Range(g))
    BY <1>4 DEF Surjection, Injection, Range, g, IsInjective
  <2>2. IsFiniteSet(Range(g)) /\ Cardinality(Range(g)) = n
    BY <1>6, <2>1, FS_Surjection
  <2>3. Range(g) \in SUBSET S
    BY <1>4 DEF Range, g
  <2> QED
    BY <2>2, <2>3, FS_Subset DEF n
<1> QED
  BY <1>4, <1>5, <1>7 DEF g

(* The last member and what is before it.                                  *)
LEMMA FrontAndLast ==
    ASSUME NEW S, NEW s \in Seq(S), IsInjective(s), s # <<>>
    PROVE  /\ Last(s) \in S /\ Front(s) \in Seq(S) /\ IsInjective(Front(s))
           /\ Last(s) \notin Range(Front(s))
           /\ Range(s) = Range(Front(s)) \union {Last(s)}
<1> DEFINE n == Len(s)
<1>1. n \in Nat \ {0} /\ DOMAIN s = 1..n /\ \A i \in 1..n : s[i] \in S
  BY EmptySeq, LenProperties
<1> HIDE DEF n
<1>2. /\ SubSeq(s, 1, n - 1) \in Seq(S) /\ Len(SubSeq(s, 1, n - 1)) = n - 1
      /\ \A i \in 1..(n - 1) : SubSeq(s, 1, n - 1)[i] = s[i]
  <2>1. \A i \in 1..(n - 1) : s[i] \in S
    BY <1>1
  <2>2. /\ SubSeq(s, 1, n - 1) \in Seq(S)
        /\ Len(SubSeq(s, 1, n - 1)) = IF 1 <= n - 1 THEN (n - 1) - 1 + 1 ELSE 0
        /\ \A i \in 1..((n - 1) - 1 + 1) : SubSeq(s, 1, n - 1)[i] = s[1 + i - 1]
    BY <1>1, <2>1, SubSeqProperties
  <2>3. (n - 1) - 1 + 1 = n - 1 /\ \A i \in 1..(n - 1) : 1 + i - 1 = i
    BY <1>1
  <2>4. Len(SubSeq(s, 1, n - 1)) = n - 1
    BY <1>1, <2>2
  <2> QED
    BY <2>2, <2>3, <2>4
<1> DEFINE f == SubSeq(s, 1, n - 1)
<1>3. f \in Seq(S) /\ DOMAIN f = 1..(n - 1) /\ \A i \in 1..(n - 1) : f[i] = s[i]
  BY <1>1, <1>2, LenProperties
<1>4. Front(s) = f /\ Last(s) = s[n]
  BY DEF Front, Last, n
<1> HIDE DEF f
<1>5. IsInjective(f)
  BY <1>1, <1>3 DEF IsInjective
<1>6. s[n] \notin Range(f)
  BY <1>1, <1>3 DEF IsInjective, Range
<1>7. Range(s) = Range(f) \union {s[n]}
  <2>1. 1..n = (1..(n - 1)) \union {n}
    BY <1>1
  <2> QED
    BY <1>1, <1>3, <2>1 DEF Range
<1> QED
  BY <1>1, <1>3, <1>4, <1>5, <1>6, <1>7

(* Two lists with nothing in common make one.                              *)
LEMMA Joined ==
    ASSUME NEW S, NEW s \in Seq(S), NEW t \in Seq(S), IsInjective(s), IsInjective(t),
           Range(s) \intersect Range(t) = {}
    PROVE  s \o t \in Seq(S) /\ IsInjective(s \o t) /\ Range(s \o t) = Range(s) \union Range(t)
<1> DEFINE m == Len(s)
           n == Len(t)
           u == s \o t
<1>1. /\ m \in Nat /\ n \in Nat /\ DOMAIN s = 1..m /\ DOMAIN t = 1..n
      /\ u \in Seq(S) /\ DOMAIN u = 1..(m + n)
      /\ \A i \in 1..(m + n) : u[i] = IF i <= m THEN s[i] ELSE t[i - m]
  BY LenProperties, ConcatProperties
<1>2. Range(u) = Range(s) \union Range(t)
  BY RangeConcatenation
<1> HIDE DEF m, n, u
<1>3. ASSUME NEW a \in 1..(m + n), NEW b \in 1..(m + n), u[a] = u[b]
      PROVE  a = b
  <2> DEFINE R == Range(s)
             T == Range(t)
  <2>0. (\A i \in 1..m : s[i] \in R) /\ (\A i \in 1..n : t[i] \in T)
    BY <1>1 DEF Range
  <2> HIDE DEF R, T
  <2>1. \A i \in 1..(m + n) : i > m => i - m \in 1..n /\ u[i] = t[i - m] /\ u[i] \in T
    <3> SUFFICES ASSUME NEW i \in 1..(m + n), i > m
                 PROVE  i - m \in 1..n /\ u[i] = t[i - m] /\ u[i] \in T
      OBVIOUS
    <3>1. i - m \in 1..n /\ ~(i <= m)
      BY <1>1
    <3>2. u[i] = t[i - m]
      BY <1>1, <3>1
    <3> QED
      BY <2>0, <3>1, <3>2
  <2>2. \A i \in 1..(m + n) : i <= m => i \in 1..m /\ u[i] = s[i] /\ u[i] \in R
    <3> SUFFICES ASSUME NEW i \in 1..(m + n), i <= m
                 PROVE  i \in 1..m /\ u[i] = s[i] /\ u[i] \in R
      OBVIOUS
    <3>1. i \in 1..m
      BY <1>1
    <3>2. u[i] = s[i]
      BY <1>1
    <3> QED
      BY <2>0, <3>1, <3>2
  <2>3. CASE a <= m /\ b <= m
    BY <2>2, <2>3, <1>1, <1>3 DEF IsInjective
  <2>4. CASE a > m /\ b > m
    <3>1. t[a - m] = t[b - m] /\ a - m \in 1..n /\ b - m \in 1..n
      BY <2>1, <2>4, <1>3
    <3>2. a - m = b - m
      BY <3>1, <1>1 DEF IsInjective
    <3> QED
      BY <3>2, <1>1
  <2>5. (a <= m /\ b <= m) \/ (a > m /\ b > m)
    <3>1. R \intersect T = {}
      BY DEF R, T
    <3> QED
      BY <2>1, <2>2, <1>1, <1>3, <3>1
  <2> QED
    BY <2>3, <2>4, <2>5, <1>1
<1>4. IsInjective(u)
  BY <1>1, <1>3 DEF IsInjective
<1> QED
  BY <1>1, <1>2, <1>4 DEF u

-----------------------------------------------------------------------------
(* The gates before the user's SQL.                                        *)

Passed == {"functions", "operators"} \union Explained

Gated ==
    /\ status = "session" => gates = [session |-> "unknown", unsafe |-> {}]
    /\ status \in Passed => gates = [session |-> SessionFacts, unsafe |-> {}]

(* A plan of N nodes.                                                      *)
IsTree(N) ==
    /\ N \in Nat \ {0} /\ plan.parent \in [1..N -> 0..(N - 1)]
    /\ plan.parent[1] = 0 /\ \A i \in 2..N : plan.parent[i] \in 1..(i - 1)
    /\ plan.rows \in [1..N -> Nat] /\ plan.cost \in Nat /\ plan.malformed \subseteq 1..N

(* The walk has been at the nodes of V, and the worklist holds those of    *)
(* their children where it has not been, once each.                        *)
Visited(V, N) ==
    /\ V \subseteq 1..N /\ V \intersect plan.malformed = {}
    /\ node_count = Cardinality(V)
    /\ max_rows \in Nat /\ \A n \in V : plan.rows[n] <= max_rows
    /\ max_rows = 0 \/ \E n \in V : plan.rows[n] = max_rows
    /\ pending \in Seq(1..N) /\ IsInjective(pending) /\ Range(pending) \intersect V = {}
    /\ 1 \in V \union Range(pending)
    /\ \A m \in 1..N : plan.parent[m] \in V => m \in V \union Range(pending)
    /\ \A m \in V \union Range(pending) : m = 1 \/ plan.parent[m] \in V

Walk ==
    /\ status \in {"session", "functions", "operators", "explain"} => node_count = 0 /\ max_rows = 0
    /\ status = "summarize" => \E N : IsTree(N) /\ \E V : Visited(V, N)
    /\ status = "execute" => PlanWithin
    /\ status \in {"cost", "rows", "nodes"} => ~PlanWithin

GateInv == Gated /\ Walk

LEMMA GateInit ==
    ASSUME Init
    PROVE  GateInv
  BY DEF Init, GateInv, Gated, Walk, Passed, Explained

(* The first step of the walk: the root is on the worklist.                *)
LEMMA ExplainStep ==
    ASSUME GateInv, Explain
    PROVE  GateInv'
<1>1. status = "explain" /\ gates' = gates /\ status' \in {"malformed", "summarize"}
      /\ node_count' = 0 /\ max_rows' = 0
  BY DEF Explain, GateInv, Walk
<1>2. Gated'
  BY <1>1 DEF GateInv, Gated, Passed, Explained
<1>3. CASE status' = "malformed"
  BY <1>1, <1>2, <1>3 DEF GateInv, Walk
<1>4. CASE status' = "summarize"
  <2>1. PICK tree \in Trees : plan' \in Plans(tree)
    BY <1>4 DEF Explain
  <2>2. PICK N \in 1..MaxNodes :
          tree \in [1..N -> 0..(N - 1)] /\ tree[1] = 0 /\ \A i \in 2..N : tree[i] \in 1..(i - 1)
    BY DEF Trees
  <2>3. pending' = <<1>>
    BY <1>4 DEF Explain
  <2>4. /\ plan'.parent = tree /\ plan'.rows \in [DOMAIN tree -> Estimates]
        /\ plan'.cost \in Estimates
        /\ plan'.malformed \in {{}} \union {{n} : n \in DOMAIN tree}
    BY <2>1 DEF Plans
  <2>5. N \in Nat \ {0} /\ DOMAIN tree = 1..N
    BY <2>2, PlanAssumption
  <2>6. IsTree(N)'
    <3>1. plan'.rows \in [1..N -> Nat] /\ plan'.cost \in Nat
      BY <2>4, <2>5, PlanAssumption
    <3>2. plan'.malformed \subseteq 1..N
      BY <2>4, <2>5
    <3> QED
      BY <2>2, <2>4, <2>5, <3>1, <3>2 DEF IsTree
  <2>7. Visited({}, N)'
    <3>1. <<1>> \in Seq(1..N) /\ IsInjective(<<1>>) /\ Range(<<1>>) = {1}
      BY <2>5 DEF IsInjective, Range
    <3> QED
      BY <1>1, <2>3, <3>1, FS_EmptySet DEF Visited
  <2>8. Walk'
    BY <1>4, <2>6, <2>7 DEF Walk
  <2> QED
    BY <1>2, <2>8 DEF GateInv
<1> QED
  BY <1>1, <1>3, <1>4

(* The children of a node, none of which has been met.                     *)
LEMMA NewChildren ==
    ASSUME NEW N, IsTree(N), NEW V, Visited(V, N), NEW n \in Range(pending)
    PROVE  /\ Children(n) \in Seq(1..N) /\ IsInjective(Children(n))
           /\ Range(Children(n)) = {m \in 1..N : plan.parent[m] = n}
           /\ Range(Children(n)) \intersect (V \union Range(pending)) = {}
<1> DEFINE C == {m \in 1..N : plan.parent[m] = n}
<1>1. IsFiniteSet(C) /\ C \in SUBSET (1..N)
  <2>1. IsFiniteSet(1..N)
    BY FS_Interval DEF IsTree
  <2> QED
    BY <2>1, FS_Subset
<1>2. Children(n) = SetToSeq(C)
  BY DEF Children, IsTree
<1> HIDE DEF C
<1>3. /\ SetToSeq(C) \in Seq(C) /\ IsInjective(SetToSeq(C)) /\ Range(SetToSeq(C)) = C
      /\ SetToSeq(C) \in Seq(1..N)
  BY <1>1, Listing, SeqMonotonic
<1>4. n \in 1..N
  BY RangeOfSeq DEF Visited
<1>5. ASSUME NEW m \in C, m \in V \union Range(pending)
      PROVE  FALSE
  <2>1. plan.parent[m] = n
    BY DEF C
  <2>2. m # 1
    BY <1>4, <2>1 DEF IsTree
  <2>3. plan.parent[m] \in V
    BY <1>5, <2>2 DEF Visited
  <2> QED
    BY <2>1, <2>3 DEF Visited
<1> QED
  BY <1>2, <1>3, <1>5 DEF C

LEMMA VisitStep ==
    ASSUME GateInv, Visit
    PROVE  GateInv'
<1>0. PICK n : n = Last(pending)
  OBVIOUS
<1>1. /\ status = "summarize" /\ pending # <<>> /\ node_count' = node_count + 1
      /\ gates' = gates /\ plan' = plan
      /\ IF n \in plan.malformed
           THEN status' = "malformed" /\ UNCHANGED <<pending, max_rows>>
           ELSE /\ max_rows' = Highest(n)
                /\ pending' = Extended(Front(pending), n)
                /\ UNCHANGED status
  BY <1>0 DEF Visit, gateVars
<1>2. CASE n \in plan.malformed
  BY <1>1, <1>2 DEF GateInv, Gated, Passed, Explained, Walk
<1>3. CASE n \notin plan.malformed
  <2>1. max_rows' = Highest(n) /\ pending' = Extended(Front(pending), n) /\ status' = status
    BY <1>1, <1>3
  <2>2. PICK N : IsTree(N) /\ \E V : Visited(V, N)
    BY <1>1 DEF GateInv, Walk
  <2>3. PICK V : Visited(V, N)
    BY <2>2
  <2> DEFINE P == Range(pending)
             F == Range(Front(pending))
             C == Range(Children(n))
             W == V \union {n}
  <2>4. /\ n \in 1..N /\ Front(pending) \in Seq(1..N) /\ IsInjective(Front(pending))
        /\ n \notin F /\ P = F \union {n}
    BY <1>0, <1>1, <2>3, FrontAndLast DEF Visited
  <2>5. /\ Children(n) \in Seq(1..N) /\ IsInjective(Children(n))
        /\ C = {m \in 1..N : plan.parent[m] = n}
        /\ C \intersect (V \union P) = {}
    <3>1. n \in Range(pending)
      BY <2>4
    <3> QED
      BY <3>1, <2>2, <2>3, NewChildren
  <2>6. pending' \in Seq(1..N) /\ IsInjective(pending') /\ Range(pending') = F \union C
    <3>1. F \intersect C = {}
      BY <2>4, <2>5
    <3> QED
      BY <2>1, <2>4, <2>5, <3>1, Joined DEF Extended
  <2> HIDE DEF F, C
  <2>7. V \subseteq 1..N /\ IsFiniteSet(V) /\ n \notin V
    <3>1. V \in SUBSET (1..N) /\ P \intersect V = {}
      BY <2>3 DEF Visited
    <3>2. N \in Int
      BY <2>2 DEF IsTree
    <3>3. IsFiniteSet(1..N)
      BY <3>2, FS_Interval
    <3> QED
      BY <2>4, <3>1, <3>3, FS_Subset
  <2>8. node_count' = Cardinality(W)
    BY <1>1, <2>3, <2>7, FS_AddElement DEF Visited
  <2>9. /\ max_rows' \in Nat /\ \A m \in W : plan.rows[m] <= max_rows'
        /\ max_rows' = 0 \/ \E m \in W : plan.rows[m] = max_rows'
    <3>1. /\ max_rows \in Nat /\ \A m \in V : plan.rows[m] <= max_rows
          /\ max_rows = 0 \/ \E m \in V : plan.rows[m] = max_rows
      BY <2>3 DEF Visited
    <3>2. plan.rows[n] \in Nat /\ \A m \in V : plan.rows[m] \in Nat
      BY <2>2, <2>4, <2>7 DEF IsTree
    <3>3. CASE plan.rows[n] > max_rows
      <4>1. max_rows' = plan.rows[n]
        BY <3>3, <2>1 DEF Highest
      <4> QED
        BY <3>1, <3>2, <3>3, <4>1
    <3>4. CASE ~(plan.rows[n] > max_rows)
      <4>1. max_rows' = max_rows
        BY <3>4, <2>1 DEF Highest
      <4> QED
        BY <3>1, <3>2, <3>4, <4>1
    <3> QED
      BY <3>3, <3>4
  <2>10. W \subseteq 1..N /\ W \intersect plan.malformed = {}
    BY <1>3, <2>3, <2>4, <2>7 DEF Visited
  <2>11. (F \union C) \intersect W = {}
    <3>1. P \intersect V = {}
      BY <2>3 DEF Visited
    <3> QED
      BY <2>4, <2>5, <3>1
  <2>12. /\ 1 \in W \union (F \union C)
         /\ \A m \in 1..N : plan.parent[m] \in W => m \in W \union (F \union C)
         /\ \A m \in W \union (F \union C) : m = 1 \/ plan.parent[m] \in W
    <3>1. /\ 1 \in V \union P
          /\ \A m \in 1..N : plan.parent[m] \in V => m \in V \union P
          /\ \A m \in V \union P : m = 1 \/ plan.parent[m] \in V
      BY <2>3 DEF Visited
    <3>2. W \union (F \union C) = (V \union P) \union C
      BY <2>4
    <3>3. \A m \in C : plan.parent[m] = n
      BY <2>5
    <3> QED
      BY <2>5, <3>1, <3>2, <3>3
  <2>13. Visited(W, N)'
    BY <1>1, <2>6, <2>8, <2>9, <2>10, <2>11, <2>12 DEF Visited
  <2>14. IsTree(N)'
    BY <1>1, <2>2 DEF IsTree
  <2>15. Walk'
    BY <1>1, <2>1, <2>13, <2>14 DEF Walk
  <2> QED
    BY <1>1, <2>1, <2>15 DEF GateInv, Gated
<1> QED
  BY <1>2, <1>3

(* A walk with nothing left to do has been everywhere.                     *)
LEMMA WalkIsComplete ==
    ASSUME NEW N, IsTree(N), NEW V, Visited(V, N), pending = <<>>
    PROVE  V = 1..N
<1> DEFINE Bad == (1..N) \ V
<1>1. Range(pending) = {}
  <2>1. DOMAIN pending = {}
    BY EmptySeq, LenProperties DEF Visited
  <2> QED
    BY <2>1 DEF Range
<1>2. V \subseteq 1..N /\ 1 \in V /\ \A m \in 1..N : plan.parent[m] \in V => m \in V
  BY <1>1 DEF Visited
<1>3. SUFFICES ASSUME Bad # {}
               PROVE  FALSE
  BY <1>2
<1>4. Bad \in SUBSET Nat
  BY DEF IsTree
<1>5. PICK m \in Bad : \A k \in Bad : m <= k
  <2> HIDE DEF Bad
  <2> QED
    BY <1>3, <1>4, LeastNatural
<1>6. m \in 2..N
  BY <1>2 DEF IsTree
<1>7. plan.parent[m] \in 1..(m - 1)
  BY <1>6 DEF IsTree
<1>8. plan.parent[m] \in V
  BY <1>5, <1>6, <1>7 DEF IsTree
<1> QED
  BY <1>2, <1>5, <1>6, <1>8

LEMMA JudgeStep ==
    ASSUME GateInv, Judge
    PROVE  GateInv'
<1>1. /\ status = "summarize" /\ pending = <<>> /\ status' = Verdict
      /\ gates' = gates /\ plan' = plan /\ node_count' = node_count /\ max_rows' = max_rows
  BY DEF Judge, gateVars, planVars
<1>2. PICK N : IsTree(N) /\ \E V : Visited(V, N)
  BY <1>1 DEF GateInv, Walk
<1>3. Visited(1..N, N)
  BY <1>1, <1>2, WalkIsComplete
<1>4. N \in Nat /\ Len(plan.parent) = N /\ DOMAIN plan.parent = 1..N
  <2>1. N \in Nat /\ plan.parent \in [1..N -> 0..(N - 1)]
    BY <1>2 DEF IsTree
  <2>2. plan.parent \in Seq(0..(N - 1))
    BY <2>1, SeqDef
  <2> QED
    BY <2>1, <2>2, LenProperties
<1>5. node_count = N
  BY <1>3, <1>4, FS_Interval DEF Visited
<1>6. plan.malformed = {}
  BY <1>2, <1>3 DEF Visited, IsTree
<1>7. /\ max_rows \in Nat /\ \A n \in 1..N : plan.rows[n] <= max_rows /\ plan.rows[n] \in Nat
      /\ max_rows = 0 \/ \E n \in 1..N : plan.rows[n] = max_rows
  BY <1>2, <1>3 DEF Visited, IsTree
<1>8. plan.cost \in Nat /\ CostLimit \in Nat /\ RowLimit \in Nat \ {0} /\ NodeLimit \in Nat
  BY <1>2, PlanAssumption DEF IsTree
<1>9. PlanWithin <=> plan.cost <= CostLimit /\ max_rows <= RowLimit /\ node_count <= NodeLimit
  <2>1. (\A n \in 1..N : plan.rows[n] <= RowLimit) <=> max_rows <= RowLimit
    BY <1>7, <1>8
  <2> QED
    BY <1>4, <1>5, <1>6, <2>1 DEF PlanWithin
<1>10. Verdict \in {"cost", "rows", "nodes", "execute"} /\ (Verdict = "execute" <=> PlanWithin)
  <2>1. CASE plan.cost > CostLimit
    BY <2>1, <1>8, <1>9 DEF Verdict
  <2>2. CASE plan.cost <= CostLimit /\ max_rows > RowLimit
    BY <2>2, <1>7, <1>8, <1>9 DEF Verdict
  <2>3. CASE plan.cost <= CostLimit /\ max_rows <= RowLimit
    BY <2>3, <1>4, <1>5, <1>7, <1>8, <1>9 DEF Verdict
  <2> QED
    BY <2>1, <2>2, <2>3, <1>7, <1>8
<1>11. PlanWithin' = PlanWithin
  BY <1>1 DEF PlanWithin
<1>12. Walk'
  BY <1>1, <1>10, <1>11 DEF Walk
<1>13. Gated'
  BY <1>1, <1>10 DEF GateInv, Gated, Passed, Explained
<1> QED
  BY <1>12, <1>13 DEF GateInv

(* A gate that lets the query on has found nothing.                        *)
LEMMA ResolveStep ==
    ASSUME GateInv, NEW kind, NEW names, NEW next, Resolve(kind, names, next),
           <<kind, next>> \in {<<"functions", "operators">>, <<"operators", "explain">>}
    PROVE  GateInv'
<1>1. PICK safe \in SUBSET (names \intersect uses) :
        /\ status' = IF Resolved(names \intersect uses, safe) THEN next ELSE "unsafe"
        /\ gates' = [gates EXCEPT !.unsafe = @ \union ((names \intersect uses) \ safe)]
  BY DEF Resolve
<1>2. status = kind /\ UNCHANGED planVars
  BY DEF Resolve
<1>3. kind \in {"functions", "operators"} /\ next \in {"operators", "explain"}
  OBVIOUS
<1>4. gates = [session |-> SessionFacts, unsafe |-> {}]
  BY <1>2, <1>3 DEF GateInv, Gated, Passed, Explained
<1>5. Walk'
  BY <1>1, <1>2, <1>3 DEF GateInv, Walk, planVars
<1>6. CASE Resolved(names \intersect uses, safe)
  <2>1. status' = next /\ (names \intersect uses) \ safe = {}
    BY <1>1, <1>6 DEF Resolved
  <2>2. gates' = gates
    BY <1>1, <1>4, <2>1
  <2> QED
    BY <1>3, <1>4, <1>5, <2>1, <2>2 DEF GateInv, Gated
<1>7. CASE ~Resolved(names \intersect uses, safe)
  BY <1>1, <1>5, <1>7 DEF GateInv, Gated, Passed, Explained
<1> QED
  BY <1>6, <1>7

(* The steps between two statuses leave the gates and the plan alone.      *)
LEMMA GateStays ==
    ASSUME GateInv, status' = status, UNCHANGED <<gates, planVars>>
    PROVE  GateInv'
<1>1. Gated'
  BY DEF GateInv, Gated
<1>2. PlanWithin' = PlanWithin
  BY DEF PlanWithin, planVars
<1>3. (\E N : IsTree(N) /\ \E V : Visited(V, N)) => (\E N : IsTree(N) /\ \E V : Visited(V, N))'
  BY DEF IsTree, Visited, planVars
<1>4. Walk'
  BY <1>2, <1>3 DEF GateInv, Walk, planVars
<1> QED
  BY <1>1, <1>4 DEF GateInv

LEMMA GateNext ==
    ASSUME GateInv, FetchInv, [Next]_vars
    PROVE  GateInv'
<1> USE DEF GateInv, Gated, Passed, Explained, Walk
<1>1. CASE CheckSession
  <2>1. PICK session \in Sessions :
          /\ status' = IF SessionMatches(session) THEN "functions" ELSE "policy"
          /\ gates' = [gates EXCEPT !.session = session]
    BY <1>1 DEF CheckSession
  <2>2. /\ status = "session" /\ gates = [session |-> "unknown", unsafe |-> {}]
        /\ UNCHANGED planVars
    BY <1>1 DEF CheckSession
  <2>3. gates' = [session |-> session, unsafe |-> {}]
    BY <2>1, <2>2
  <2>4. CASE SessionMatches(session)
    BY <2>1, <2>2, <2>3, <2>4 DEF SessionMatches, planVars
  <2>5. CASE ~SessionMatches(session)
    BY <2>1, <2>2, <2>5 DEF planVars
  <2> QED
    BY <2>4, <2>5
<1>2. CASE ResolveFunctions
  BY <1>2, ResolveStep DEF ResolveFunctions
<1>3. CASE ResolveOperators
  BY <1>3, ResolveStep DEF ResolveOperators
<1>4. CASE Explain
  BY <1>4, ExplainStep
<1>5. CASE Visit
  BY <1>5, VisitStep
<1>6. CASE Judge
  BY <1>6, JudgeStep
<1>7. CASE StatementFails \/ UserSqlFails
  BY <1>7 DEF StatementFails, UserSqlFails, gateVars, planVars
<1>8. CASE Execute
  BY <1>8 DEF Execute, gateVars
<1>9. CASE Describe
  <2>1. status = "describe" /\ status' \in {"columns", "duplicate", "fetching"}
        /\ UNCHANGED <<gateVars, planVars>>
    BY <1>9 DEF Describe
  <2> QED
    BY <2>1 DEF gateVars, planVars
<1>10. CASE Fetch \/ Truncate \/ Keep
  BY <1>10, GateStays DEF Fetch, Truncate, Keep, gateVars
<1>11. CASE EncodeFails \/ Fetched \/ Commit
  <2>1. batch # <<>> => status = "fetching"
    BY DEF FetchInv, Window
  <2>2. status \in {"fetching", "commit"} /\ status' \in {"encoding", "commit", "ok"}
        /\ UNCHANGED <<gateVars, planVars>>
    BY <1>11, <2>1 DEF EncodeFails, Fetched, Commit
  <2> QED
    BY <2>2 DEF gateVars, planVars
<1>12. CASE UNCHANGED vars
  BY <1>12, GateStays DEF vars, gateVars
<1> QED
  BY <1>1, <1>2, <1>3, <1>4, <1>5, <1>6, <1>7, <1>8, <1>9, <1>10, <1>11, <1>12 DEF Next

THEOREM GateInvariance == Spec => []GateInv
<1>1. Init => GateInv
  BY GateInit
<1>2. GateInv /\ FetchInv /\ [Next]_vars => GateInv'
  BY GateNext
<1> QED
  BY <1>1, <1>2, FetchInvariance, PTL DEF Spec

(* UserSqlIsGated, the statements before EXPLAIN and the cursor: the       *)
(* user's SQL is explained and run behind all gates, and the cost gate errs on neither side, for  *)
(* a plan of any shape.                                                    *)
THEOREM GatesHold == Spec => []UserSqlIsGated
<1>1. GateInv => UserSqlIsGated
  BY DEF GateInv, Gated, Walk, Passed, Explained, UserSqlIsGated
<1> QED
  BY <1>1, GateInvariance, PTL

=============================================================================
