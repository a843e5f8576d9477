----------------------------- MODULE UploadProofs -----------------------------
(***************************************************************************)
(* Proofs about UploadService for any number of uploads and documents, any *)
(* size of the queue, any number of retries and restarts and any faults.   *)
(*                                                                         *)
(* Most of the service is cleanup, eviction and journalling, in helpers    *)
(* that may fail half way.  Near(s) is the set of states that any of them  *)
(* may lead to from s: each helper is shown once to stay in it, loops of   *)
(* helpers stay in it too, and the invariant is shown once to hold in all  *)
(* of Near(s) when it holds in s.  What is left of each action is the one  *)
(* job, receipt or future that it changes on purpose.                      *)
(***************************************************************************)
EXTENDS UploadService, SequenceTheorems, FiniteSetTheorems, WellFoundedInduction, TLAPS

-----------------------------------------------------------------------------
(* Sequences and loops *)

(* The range of a sequence to which an element is appended.                *)
LEMMA AppendFacts ==
    ASSUME NEW X, NEW q \in Seq(X), NEW x \in X
    PROVE  /\ Append(q, x) \in Seq(X)
           /\ Range(Append(q, x)) = Range(q) \cup {x}
           /\ IsInjective(q) /\ x \notin Range(q) => IsInjective(Append(q, x))
<1> DEFINE r == Append(q, x)
<1>1. r \in Seq(X) /\ Len(q) \in Nat /\ DOMAIN q = 1..Len(q) /\ DOMAIN r = 1..(Len(q) + 1)
  OBVIOUS
<1>2. (\A j \in 1..Len(q) : r[j] = q[j]) /\ r[Len(q) + 1] = x
  OBVIOUS
<1> HIDE DEF r
<1>3. Range(r) = Range(q) \cup {x}
  BY <1>1, <1>2 DEF Range
<1>4. ASSUME IsInjective(q), x \notin Range(q) PROVE IsInjective(r)
  <2>1. \A j \in 1..Len(q) : q[j] # x
    BY <1>1, <1>4 DEF Range
  <2> QED
    BY <2>1, <1>1, <1>2, <1>4 DEF IsInjective
<1>5. QED
  BY <1>1, <1>3, <1>4 DEF r

(* Induction up to n, over the set of the numbers for which a fact holds.  *)
LEMMA UpTo ==
    ASSUME NEW n \in Nat, NEW T, 0 \in T, \A k \in 0..(n - 1) : k \in T => k + 1 \in T
    PROVE  0..n \subseteq T
<1> DEFINE R == {ss \in Nat \X Nat : ss[1] < ss[2]}
           U == {k \in 0..n : k \notin T}
<1>1. IsWellFoundedOn(R, Nat)
  BY NatLessThanWellFounded DEF OpToRel
<1>2. CASE U # {}
  <2>1. PICK i \in U : \A j \in U : <<j, i>> \notin R
    <3>1. U \subseteq Nat
      OBVIOUS
    <3> HIDE DEF R, U
    <3> QED BY <1>1, <1>2, <3>1, WFMin
  <2>2. i - 1 \in 0..(n - 1)
    BY <2>1
  <2>3. i - 1 \in T => i \in T
    BY <2>2
  <2>4. i - 1 \in U /\ <<i - 1, i>> \in R
    BY <2>1, <2>2, <2>3
  <2> QED
    BY <2>1, <2>4
<1>3. CASE U = {}
  BY <1>3
<1> QED
  BY <1>2, <1>3

(* Filter is the last of a row of sequences, each the one before it with   *)
(* or without the next element.                                            *)
LEMMA FilterSteps ==
    ASSUME NEW seq, Len(seq) \in Nat, NEW S
    PROVE  \E f : /\ f[0] = << >>
                  /\ \A k \in 1..Len(seq) : f[k] = IF seq[k] \in S THEN Append(f[k - 1], seq[k]) ELSE f[k - 1]
                  /\ Filter(seq, S) = f[Len(seq)]
<1> DEFINE n == Len(seq)
           G(f, k) == IF k = 0 THEN << >>
                      ELSE IF seq[k] \in S THEN Append(f[k - 1], seq[k]) ELSE f[k - 1]
           Is(f, m) == f = [k \in 0..m |-> G(f, k)]
           T == {m \in 0..n : \E f : Is(f, m)}
           F == CHOOSE f : Is(f, n)
<1>n. n \in Nat
  OBVIOUS
<1>f. Filter(seq, S) = F[n]
  BY DEF Filter
<1>1. 0 \in T
  <2>1. Is([k \in 0..0 |-> << >>], 0)
    OBVIOUS
  <2>2. 0 \in 0..n
    BY <1>n
  <2> QED
    BY <2>1, <2>2
<1>2. ASSUME NEW m \in 0..(n - 1), m \in T PROVE m + 1 \in T
  <2>1. PICK f : Is(f, m)
    BY <1>2
  <2>m. m \in Nat /\ m + 1 \in 0..n
    BY <1>n
  <2> DEFINE g == [k \in 0..(m + 1) |-> IF k = m + 1 THEN G(f, m + 1) ELSE f[k]]
  <2>2. ASSUME NEW k \in 0..(m + 1) PROVE g[k] = G(g, k)
    <3>1. CASE k = m + 1
      <4>1. g[k] = G(f, m + 1)
        BY <3>1, <2>m
      <4>2. g[k - 1] = f[k - 1]
        BY <3>1, <2>m
      <4> HIDE DEF g
      <4> QED
        BY <3>1, <4>1, <4>2
    <3>2. CASE k = 0
      <4>1. g[k] = f[k] /\ k \in 0..m
        BY <3>2, <2>m
      <4> QED
        BY <3>2, <4>1, <2>1
    <3>3. CASE k # m + 1 /\ k # 0
      <4>1. k \in 0..m /\ k - 1 \in 0..m /\ k - 1 \in 0..(m + 1) /\ k - 1 # m + 1 /\ k # m + 1
        BY <3>3, <2>m
      <4>2. g[k] = f[k] /\ g[k - 1] = f[k - 1]
        BY <4>1
      <4>3. f[k] = G(f, k)
        BY <4>1, <2>1
      <4> HIDE DEF g
      <4> QED
        BY <3>3, <4>2, <4>3
    <3> QED
      BY <3>1, <3>2, <3>3
  <2>3. Is(g, m + 1)
    <3>1. g = [k \in 0..(m + 1) |-> g[k]]
      OBVIOUS
    <3> HIDE DEF g, G
    <3> QED
      BY <3>1, <2>2
  <2> HIDE DEF Is, g
  <2> QED
    BY <2>3, <2>m
<1>3. n \in T
  <2> HIDE DEF T
  <2>1. 0..n \subseteq T
    BY <1>n, <1>1, <1>2, UpTo
  <2> HIDE DEF n
  <2> QED BY <2>1, <1>n
<1>4. Is(F, n)
  <2> HIDE DEF Is
  <2> QED BY <1>3
<1> HIDE DEF F
<1>5. ASSUME NEW k \in 0..n PROVE F[k] = G(F, k)
  <2> HIDE DEF G, n
  <2> QED BY <1>4
<1>6. F[0] = << >>
  BY <1>5, <1>n
<1>7. ASSUME NEW k \in 1..n PROVE F[k] = IF seq[k] \in S THEN Append(F[k - 1], seq[k]) ELSE F[k - 1]
  <2>1. k \in 0..n /\ k # 0
    BY <1>n
  <2> QED
    BY <2>1, <1>5
<1> QED
  BY <1>6, <1>7, <1>f

(* A chain of helpers stays in a family of sets of states when each helper *)
(* leads from one set to the next.                                         *)
LEMMA EachStays ==
    ASSUME NEW S, NEW seq, NEW F, NEW A, Len(seq) \in Nat, S \subseteq A[0],
           \A k \in 1..Len(seq) : \A s \in A[k - 1] : F[seq[k]][s] \subseteq A[k]
    PROVE  Each(S, seq, F) \subseteq A[Len(seq)]
<1> DEFINE n == Len(seq)
           G(f, k) == IF k = 0 THEN S ELSE UNION {F[seq[k]][s] : s \in f[k - 1]}
           Is(f, m) == f = [k \in 0..m |-> G(f, k)]
           T == {m \in 0..n : \E f : Is(f, m)}
           H == CHOOSE f : Is(f, n)
           U == {k \in 0..n : H[k] \subseteq A[k]}
<1>n. n \in Nat
  OBVIOUS
<1>f. Each(S, seq, F) = H[n]
  BY DEF Each
<1>1. 0 \in T
  <2>1. Is([k \in 0..0 |-> S], 0)
    OBVIOUS
  <2>2. 0 \in 0..n
    BY <1>n
  <2> QED
    BY <2>1, <2>2
<1>2. ASSUME NEW m \in 0..(n - 1), m \in T PROVE m + 1 \in T
  <2>1. PICK f : Is(f, m)
    BY <1>2
  <2>m. m \in Nat /\ m + 1 \in 0..n
    BY <1>n
  <2> DEFINE g == [k \in 0..(m + 1) |-> IF k = m + 1 THEN G(f, m + 1) ELSE f[k]]
  <2>2. ASSUME NEW k \in 0..(m + 1) PROVE g[k] = G(g, k)
    <3>1. CASE k = m + 1
      <4>1. g[k] = G(f, m + 1)
        BY <3>1, <2>m
      <4>2. g[k - 1] = f[k - 1]
        BY <3>1, <2>m
      <4> HIDE DEF g
      <4> QED
        BY <3>1, <4>1, <4>2
    <3>2. CASE k = 0
      <4>1. g[k] = f[k] /\ k \in 0..m
        BY <3>2, <2>m
      <4> QED
        BY <3>2, <4>1, <2>1
    <3>3. CASE k # m + 1 /\ k # 0
      <4>1. k \in 0..m /\ k - 1 \in 0..m /\ k - 1 \in 0..(m + 1) /\ k - 1 # m + 1 /\ k # m + 1
        BY <3>3, <2>m
      <4>2. g[k] = f[k] /\ g[k - 1] = f[k - 1]
        BY <4>1
      <4>3. f[k] = G(f, k)
        BY <4>1, <2>1
      <4> HIDE DEF g
      <4> QED
        BY <3>3, <4>2, <4>3
    <3> QED
      BY <3>1, <3>2, <3>3
  <2>3. Is(g, m + 1)
    <3>1. g = [k \in 0..(m + 1) |-> g[k]]
      OBVIOUS
    <3> HIDE DEF g, G
    <3> QED
      BY <3>1, <2>2
  <2> HIDE DEF Is, g
  <2> QED
    BY <2>3, <2>m
<1>3. n \in T
  <2> HIDE DEF T
  <2>1. 0..n \subseteq T
    BY <1>n, <1>1, <1>2, UpTo
  <2> HIDE DEF n
  <2> QED BY <2>1, <1>n
<1>4. Is(H, n)
  <2> HIDE DEF Is
  <2> QED BY <1>3
<1> HIDE DEF H
<1>5. ASSUME NEW k \in 0..n PROVE H[k] = G(H, k)
  <2> HIDE DEF G, n
  <2> QED BY <1>4
<1>6. 0 \in U
  <2>1. 0 \in 0..n
    BY <1>n
  <2>2. H[0] = S
    BY <2>1, <1>5
  <2> QED
    BY <2>1, <2>2
<1>7. ASSUME NEW k \in 0..(n - 1), k \in U PROVE k + 1 \in U
  <2>1. k + 1 \in 0..n /\ k + 1 # 0 /\ k + 1 \in 1..n /\ (k + 1) - 1 = k
    BY <1>n
  <2>2. H[k + 1] = UNION {F[seq[k + 1]][s] : s \in H[k]}
    BY <2>1, <1>5
  <2>3. \A s \in A[k] : F[seq[k + 1]][s] \subseteq A[k + 1]
    BY <2>1
  <2> QED
    BY <2>1, <2>2, <2>3, <1>7
<1>8. n \in U
  <2> HIDE DEF U
  <2>1. 0..n \subseteq U
    BY <1>n, <1>6, <1>7, UpTo
  <2> HIDE DEF n
  <2> QED BY <2>1, <1>n
<1> QED
  BY <1>8, <1>f

(* A loop stays in the set of states that its body keeps.                  *)
LEMMA WhileStays ==
    ASSUME NEW A \in SUBSET UploadState, NEW s \in A, NEW F,
           \A t \in A : F[t] \subseteq [s : A, ok : BOOLEAN]
    PROVE  While(s, F) \subseteq A
<1> DEFINE B == [s : A, ok : BOOLEAN]
           seq == [k \in Ids |-> k]
           G == [k \in Ids |-> [r \in Reported |-> IF r.ok THEN F[r.s] ELSE {r}]]
           C == [k \in 0..(2 * MaxIds) |-> B]
<1>1. 2 * MaxIds \in Nat /\ seq \in Seq(Ids) /\ Len(seq) = 2 * MaxIds
  BY UploadAssumption DEF Ids
<1>2. B \subseteq Reported
  BY DEF Reported
<1>3. ASSUME NEW k \in Ids, NEW r \in B PROVE G[k][r] \subseteq B
  <2>1. G[k][r] = IF r.ok THEN F[r.s] ELSE {r}
    BY <1>2
  <2> HIDE DEF G
  <2> QED
    BY <2>1
<1>4. Ok({s}) \subseteq B
  <2>1. [s |-> s, ok |-> TRUE] \in B
    OBVIOUS
  <2> HIDE DEF B
  <2> QED
    BY <2>1 DEF Ok
<1>5. ASSUME NEW k \in 1..Len(seq) PROVE seq[k] \in Ids /\ k \in 0..(2 * MaxIds) /\ k - 1 \in 0..(2 * MaxIds)
  BY <1>1 DEF Ids
<1>6. \A k \in 1..Len(seq) : \A r \in C[k - 1] : G[seq[k]][r] \subseteq C[k]
  <2> HIDE DEF B, G, seq
  <2> QED BY <1>3, <1>5
<1>7. Ok({s}) \subseteq C[0]
  <2>1. 0 \in 0..(2 * MaxIds)
    BY <1>1
  <2> HIDE DEF B
  <2> QED BY <2>1, <1>4
<1>8. Each(Ok({s}), seq, G) \subseteq C[Len(seq)]
  <2> HIDE DEF B, C, G, seq
  <2> QED BY <1>1, <1>6, <1>7, EachStays
<1>9. C[Len(seq)] = B
  <2> HIDE DEF B, seq
  <2> QED BY <1>1
<1>10. \A r \in B : r.s \in A
  OBVIOUS
<1>11. While(s, F) = States(Each(Ok({s}), seq, G))
  BY DEF While
<1> HIDE DEF B, G, seq
<1> QED
  BY <1>8, <1>9, <1>10, <1>11 DEF States

(* What Filter keeps: the elements in S, each as often as before.          *)
LEMMA FilterFacts ==
    ASSUME NEW X, NEW seq \in Seq(X), NEW S
    PROVE  /\ Filter(seq, S) \in Seq(X)
           /\ Range(Filter(seq, S)) = Range(seq) \cap S
           /\ IsInjective(seq) => IsInjective(Filter(seq, S))
<1> DEFINE n == Len(seq)
<1>n. n \in Nat /\ DOMAIN seq = 1..n
  OBVIOUS
<1>1. PICK f : /\ f[0] = << >>
               /\ \A k \in 1..Len(seq) : f[k] = IF seq[k] \in S THEN Append(f[k - 1], seq[k]) ELSE f[k - 1]
               /\ Filter(seq, S) = f[Len(seq)]
  BY FilterSteps
<1> DEFINE Seen(k) == {seq[j] : j \in 1..k}
           Good(k) == /\ f[k] \in Seq(X)
                      /\ Range(f[k]) = Seen(k) \cap S
                      /\ IsInjective(seq) => IsInjective(f[k])
           T == {k \in 0..n : Good(k)}
<1>2. 0 \in T
  <2>1. f[0] = << >> /\ 0 \in 0..n /\ Seen(0) = {}
    BY <1>1, <1>n
  <2>2. Range(f[0]) = {} /\ IsInjective(f[0]) /\ f[0] \in Seq(X)
    BY <2>1 DEF Range, IsInjective
  <2> QED
    BY <2>1, <2>2
<1>3. ASSUME NEW k \in 0..(n - 1), k \in T PROVE k + 1 \in T
  <2>1. k + 1 \in 1..n /\ k + 1 \in 0..n /\ (k + 1) - 1 = k /\ k \in Nat
    BY <1>n
  <2> DEFINE x == seq[k + 1]
             q == f[k]
             r == f[k + 1]
  <2>2. r = IF x \in S THEN Append(q, x) ELSE q
    BY <1>1, <2>1
  <2>3. q \in Seq(X) /\ Range(q) = Seen(k) \cap S /\ (IsInjective(seq) => IsInjective(q)) /\ x \in X
    BY <1>3, <2>1
  <2>4. Seen(k + 1) = Seen(k) \cup {x}
    BY <2>1
  <2>5. CASE x \notin S
    <3>1. r = q
      BY <2>2, <2>5
    <3> QED
      BY <3>1, <2>1, <2>3, <2>4, <2>5
  <2>6. CASE x \in S
    <3> HIDE DEF x, q, r
    <3>1. r = Append(q, x)
      BY <2>2, <2>6
    <3>2. r \in Seq(X) /\ Range(r) = Range(q) \cup {x}
      BY <3>1, <2>3, AppendFacts
    <3>3. ASSUME IsInjective(seq) PROVE IsInjective(r)
      <4>1. x \notin Seen(k)
        BY <3>3, <1>n, <2>1 DEF IsInjective, x
      <4>2. x \notin Range(q) /\ IsInjective(q)
        BY <4>1, <2>3, <3>3
      <4> QED
        BY <4>2, <3>1, <2>3, AppendFacts
    <3>6. Good(k + 1)
      <4>1. r = f[k + 1]
        BY DEF r
      <4> QED
        BY <4>1, <3>2, <3>3, <2>3, <2>4, <2>6
    <3> QED
      BY <3>6, <2>1
  <2> QED
    BY <2>5, <2>6
<1>4. n \in T
  <2> HIDE DEF T
  <2>1. 0..n \subseteq T
    BY <1>n, <1>2, <1>3, UpTo
  <2> HIDE DEF n
  <2> QED BY <2>1, <1>n
<1>5. Seen(n) = Range(seq)
  BY <1>n DEF Range
<1> QED
  BY <1>1, <1>4, <1>5

-----------------------------------------------------------------------------
(* What a cleanup may change *)

(* The cleanup jobs of _quarantine_unowned_source.                         *)
Synthetic == Ids \ Paths

(* The steps of cleanup, eviction and journalling lead from s to t: they   *)
(* leave the receipts, the pipeline's jobs, the events and the queue       *)
(* alone; they may drop a job that has ended, write to a row the status of *)
(* its job, and add failed cleanup jobs.                                   *)
Tidy(s, t) ==
    /\ t.receipt = s.receipt /\ t.canon = s.canon /\ t.event = s.event
    /\ t.waiting = s.waiting /\ t.scheduled = s.scheduled /\ t.pending = s.pending /\ t.last = s.last
    /\ IsInjective(t.born)
    /\ Range(s.born) \subseteq Range(t.born) /\ Range(t.born) \subseteq Range(s.born) \cup Synthetic
    /\ \A i \in Paths :
          /\ \/ t.job[i].status = s.job[i].status
             \/ s.job[i].status \in Final /\ t.job[i].status = "none"
          /\ t.row[i].status \in {"none", s.row[i].status, s.job[i].status}
    /\ \A i \in Synthetic : t.job[i].status \in {"none", "failed"} /\ t.row[i].status \in {"none", "failed"}

(* The states that cleanups may lead to from s.                            *)
Near(s) == {t \in UploadState : Tidy(s, t)}

(* The same, with the report of the helper.                                *)
Heard(s) == [s : Near(s), ok : BOOLEAN]

(* The jobs a cleanup that began in state b may write to row i.            *)
May(b, i, job) ==
    /\ i \in Ids /\ job \in UploadJob
    /\ i \in Paths => job.status \in {"none", b.job[i].status}
    /\ i \in Synthetic => job.status \in {"none", "failed"}

(* The constants, and the empty values.                                    *)
LEMMA Sizes ==
    /\ MaxIds \in Nat /\ MaxRetries \in Nat /\ MaxJobs \in Nat \ {0} /\ 2 * MaxIds \in Nat
    /\ Paths \subseteq Ids /\ Paths \subseteq Nat /\ Ids \subseteq Nat
    /\ NoJob \in UploadJob /\ NoRow \in JournalRow /\ NoReceipt \in Receipt
BY UploadAssumption DEF Paths, Ids, NoJob, UploadJob, NoRow, JournalRow, NoReceipt, Receipt, Names, Status, Final, Recoverable, Keep

(* A cleanup may change the files, the paths, the leases, the documents,   *)
(* the retry counts and the contents.                                      *)
LEMMA NearLike ==
    ASSUME NEW b, NEW s \in Near(b), NEW t \in UploadState,
           t.receipt = s.receipt, t.canon = s.canon, t.event = s.event, t.waiting = s.waiting,
           t.scheduled = s.scheduled, t.pending = s.pending, t.last = s.last, t.born = s.born,
           t.job = s.job, t.row = s.row
    PROVE  t \in Near(b)
BY DEF Near, Tidy

(* A cleanup may change the staged files.                                  *)
LEMMA NearFile ==
    ASSUME NEW b, NEW s \in Near(b), NEW x \in SUBSET Paths
    PROVE  [s EXCEPT !.file = x] \in Near(b)
<1> DEFINE t == [s EXCEPT !.file = x]
<1>1. s \in UploadState
  BY DEF Near
<1>2. t \in UploadState
  BY <1>1 DEF UploadState
<1>3. /\ t.receipt = s.receipt /\ t.canon = s.canon /\ t.event = s.event /\ t.waiting = s.waiting
      /\ t.scheduled = s.scheduled /\ t.pending = s.pending /\ t.last = s.last /\ t.born = s.born
      /\ t.job = s.job /\ t.row = s.row
  BY <1>1 DEF UploadState
<1> HIDE DEF t
<1>4. t \in Near(b)
  BY <1>2, <1>3, NearLike
<1> QED
  BY <1>4 DEF t

(* A cleanup may change the path of a job.                                 *)
LEMMA NearPath ==
    ASSUME NEW b, NEW s \in Near(b), NEW i \in Ids, NEW p \in Paths \cup {0}
    PROVE  [s EXCEPT !.path[i] = p] \in Near(b)
<1> DEFINE t == [s EXCEPT !.path[i] = p]
<1>1. s \in UploadState
  BY DEF Near
<1>2. t \in UploadState
  BY <1>1 DEF UploadState
<1>3. /\ t.receipt = s.receipt /\ t.canon = s.canon /\ t.event = s.event /\ t.waiting = s.waiting
      /\ t.scheduled = s.scheduled /\ t.pending = s.pending /\ t.last = s.last /\ t.born = s.born
      /\ t.job = s.job /\ t.row = s.row
  BY <1>1 DEF UploadState
<1> HIDE DEF t
<1>4. t \in Near(b)
  BY <1>2, <1>3, NearLike
<1> QED
  BY <1>4 DEF t

(* A cleanup may change the retained documents.                            *)
LEMMA NearDocs ==
    ASSUME NEW b, NEW s \in Near(b), NEW d \in Seq([doc : Names, path : Paths])
    PROVE  [s EXCEPT !.docs = d] \in Near(b)
<1> DEFINE t == [s EXCEPT !.docs = d]
<1>1. s \in UploadState
  BY DEF Near
<1>2. t \in UploadState
  BY <1>1 DEF UploadState
<1>3. /\ t.receipt = s.receipt /\ t.canon = s.canon /\ t.event = s.event /\ t.waiting = s.waiting
      /\ t.scheduled = s.scheduled /\ t.pending = s.pending /\ t.last = s.last /\ t.born = s.born
      /\ t.job = s.job /\ t.row = s.row
  BY <1>1 DEF UploadState
<1> HIDE DEF t
<1>4. t \in Near(b)
  BY <1>2, <1>3, NearLike
<1> QED
  BY <1>4 DEF t

(* A cleanup may write a lease.                                            *)
LEMMA NearLease ==
    ASSUME NEW b, NEW s \in Near(b), NEW i \in Ids, NEW p \in Paths \cup {0}
    PROVE  [s EXCEPT !.lease[i] = p] \in Near(b)
<1> DEFINE t == [s EXCEPT !.lease[i] = p]
<1>1. s \in UploadState
  BY DEF Near
<1>2. t \in UploadState
  BY <1>1 DEF UploadState
<1>3. /\ t.receipt = s.receipt /\ t.canon = s.canon /\ t.event = s.event /\ t.waiting = s.waiting
      /\ t.scheduled = s.scheduled /\ t.pending = s.pending /\ t.last = s.last /\ t.born = s.born
      /\ t.job = s.job /\ t.row = s.row
  BY <1>1 DEF UploadState
<1> HIDE DEF t
<1>4. t \in Near(b)
  BY <1>2, <1>3, NearLike
<1> QED
  BY <1>4 DEF t

(* JobJournal.upsert leaves the row with its own status or with the one of *)
(* the job.                                                                *)
LEMMA NewRowFacts ==
    ASSUME NEW s \in UploadState, NEW i \in Ids, NEW job \in UploadJob, NEW p \in Paths \cup {0}, NEW n \in -1..MaxRetries
    PROVE  /\ NewRow(s, i, job, p, n) \in JournalRow
           /\ NewRow(s, i, job, p, n).status \in {s.row[i].status, job.status}
<1> DEFINE old == s.row[i]
           count == IF n # Keep THEN n ELSE IF job.carried # Keep THEN job.carried ELSE old.retries
           repair == job.status = "published" /\ s.receipt[i].outcome = "committed"
           new == [status |-> job.status, source |-> p, retries |-> count,
                   doc |-> IF old.status = job.status /\ old.status \in Final THEN old.doc ELSE job.doc]
<1>1. old \in JournalRow
  BY DEF UploadState
<1>2. job.carried \in -1..MaxRetries /\ job.doc \in Names /\ job.status \in Status
  BY DEF UploadJob
<1>3. old.retries \in 0..MaxRetries /\ old.doc \in Names
  BY <1>1 DEF JournalRow
<1>4. count \in 0..MaxRetries
  BY <1>2, <1>3, Sizes DEF Keep
<1>5. new \in JournalRow /\ new.status = job.status
  <2> HIDE DEF count, old
  <2> QED
    BY <1>2, <1>3, <1>4 DEF JournalRow
<1>6. NewRow(s, i, job, p, n) \in {old, new}
  BY DEF NewRow
<1> HIDE DEF new
<1> QED
  BY <1>1, <1>5, <1>6

(* A cleanup may write the job of a row.                                   *)
LEMMA NearUpserted ==
    ASSUME NEW b, NEW s \in Near(b), NEW i, NEW job, May(b, i, job), NEW p \in Paths \cup {0}, NEW n \in -1..MaxRetries
    PROVE  Upserted(s, i, job, p, n) \in Near(b)
<1> DEFINE row == NewRow(s, i, job, p, n)
           t == [s EXCEPT !.row[i] = row]
<1>0. i \in Ids /\ job \in UploadJob
  BY DEF May
<1>1. s \in UploadState
  BY DEF Near
<1>2. row \in JournalRow /\ row.status \in {s.row[i].status, job.status}
  BY <1>0, <1>1, NewRowFacts
<1> HIDE DEF row
<1>3. t \in UploadState
  BY <1>0, <1>1, <1>2 DEF UploadState
<1>4. /\ t.receipt = s.receipt /\ t.canon = s.canon /\ t.event = s.event /\ t.waiting = s.waiting
      /\ t.scheduled = s.scheduled /\ t.pending = s.pending /\ t.last = s.last /\ t.born = s.born
      /\ t.job = s.job /\ t.row = [s.row EXCEPT ![i] = row]
  BY <1>1 DEF UploadState
<1>5. Paths \subseteq Ids /\ Synthetic \subseteq Ids /\ DOMAIN s.row = Ids
  BY <1>1, Sizes DEF UploadState, Synthetic
<1> HIDE DEF t
<1>6. Tidy(b, t)
  <2>1. \A j \in Paths : t.row[j].status \in {"none", b.row[j].status, b.job[j].status}
    BY <1>2, <1>4, <1>5 DEF Near, Tidy, May
  <2>2. \A j \in Synthetic : t.row[j].status \in {"none", "failed"}
    BY <1>2, <1>4, <1>5 DEF Near, Tidy, May
  <2> QED
    BY <2>1, <2>2, <1>4 DEF Near, Tidy
<1>7. t \in Near(b)
  BY <1>3, <1>6 DEF Near
<1> QED
  BY <1>7 DEF t, row, Upserted

-----------------------------------------------------------------------------
(* The helpers of a cleanup *)

(* A report of a state that a cleanup may lead to.                         *)
LEMMA Heardness ==
    ASSUME NEW b, NEW s \in Near(b)
    PROVE  /\ Ok({s}) \subseteq Heard(b) /\ Not({s}) \subseteq Heard(b)
<1>1. [s |-> s, ok |-> TRUE] \in Heard(b) /\ [s |-> s, ok |-> FALSE] \in Heard(b)
  BY DEF Heard
<1> QED
  BY <1>1 DEF Ok, Not

(* Reports of a set of states that a cleanup may lead to.                  *)
LEMMA HeardSets ==
    ASSUME NEW b, NEW S \in SUBSET Near(b)
    PROVE  Ok(S) \subseteq Heard(b) /\ Not(S) \subseteq Heard(b)
<1>1. \A s \in S : [s |-> s, ok |-> TRUE] \in Heard(b) /\ [s |-> s, ok |-> FALSE] \in Heard(b)
  BY DEF Heard
<1> QED
  BY <1>1 DEF Ok, Not

(* The states of the reports of a cleanup.                                 *)
LEMMA HeardOf ==
    ASSUME NEW b, NEW R \in SUBSET Heard(b)
    PROVE  States(R) \subseteq Near(b) /\ \A r \in R : r.s \in Near(b) /\ r.ok \in BOOLEAN
<1>1. \A r \in Heard(b) : r.s \in Near(b) /\ r.ok \in BOOLEAN
  BY DEF Heard
<1> QED
  BY <1>1 DEF States

(* What the reports of Ok and Not say.                                     *)
LEMMA OkNot ==
    ASSUME NEW S
    PROVE  (\A r \in Ok(S) : r.s \in S /\ r.ok = TRUE) /\ (\A r \in Not(S) : r.s \in S /\ r.ok = FALSE)
BY DEF Ok, Not

(* A fault that cannot happen adds no outcome.                             *)
LEMMA UnlessOf ==
    ASSUME NEW f, NEW S
    PROVE  Unless(f, S) \subseteq S
BY DEF Unless

(* _remove_path is a cleanup.                                              *)
LEMMA RemovedNear ==
    ASSUME NEW b, NEW s \in Near(b), NEW p
    PROVE  Removed(s, p) \subseteq Heard(b)
<1>1. s.file \ {p} \in SUBSET Paths
  BY DEF Near, UploadState
<1>2. [s EXCEPT !.file = s.file \ {p}] \in Near(b)
  BY <1>1, NearFile
<1>3. [s EXCEPT !.file = @ \ {p}] = [s EXCEPT !.file = s.file \ {p}]
  BY DEF Near, UploadState
<1>4. Ok({[s EXCEPT !.file = @ \ {p}]}) \subseteq Heard(b)
  BY <1>2, <1>3, Heardness
<1>5. Unless("unlink", Not({s})) \subseteq Heard(b)
  BY Heardness, UnlessOf
<1> QED
  BY <1>4, <1>5 DEF Removed

(* _journal_upsert of a job that a cleanup may write is a cleanup.         *)
LEMMA JournalUpsertNear ==
    ASSUME NEW b, NEW s \in Near(b), NEW i, NEW job, May(b, i, job), NEW p \in Paths \cup {0},
           NEW n \in -1..MaxRetries, NEW retain
    PROVE  JournalUpsert(s, i, job, p, n, retain) \subseteq Heard(b)
<1> DEFINE source == IF job.status \in {"failed", "cancelled"} /\ ~retain THEN 0 ELSE p
<1>1. source \in Paths \cup {0}
  OBVIOUS
<1> HIDE DEF source
<1>2. Upserted(s, i, job, source, n) \in Near(b)
  BY <1>1, NearUpserted
<1>3. /\ Ok({Upserted(s, i, job, source, n)}) \subseteq Heard(b) /\ Unless("journal", Not({s})) \subseteq Heard(b)
      /\ Not({s}) \subseteq Heard(b)
  BY <1>2, Heardness, UnlessOf
<1> QED
  BY <1>3 DEF JournalUpsert, source

(* So is one whose report is not read.                                     *)
LEMMA JournaledNear ==
    ASSUME NEW b, NEW s \in Near(b), NEW i, NEW job, May(b, i, job), NEW p \in Paths \cup {0}
    PROVE  Journaled(s, i, job, p) \subseteq Near(b)
<1>1. Keep \in -1..MaxRetries
  BY Sizes DEF Keep
<1>2. JournalUpsert(s, i, job, p, Keep, FALSE) \subseteq Heard(b)
  BY <1>1, JournalUpsertNear
<1> QED
  BY <1>2, HeardOf DEF Journaled

(* Keeping the reference of a file, in the journal or in a lease, is a     *)
(* cleanup.                                                                *)
LEMMA RetainedNear ==
    ASSUME NEW b, NEW s \in Near(b), NEW i, NEW job, May(b, i, job), NEW p \in Paths \cup {0}
    PROVE  Retained(s, i, job, p) \subseteq Near(b)
<1>1. Keep \in -1..MaxRetries /\ i \in Ids
  BY Sizes DEF Keep, May
<1>2. JournalUpsert(s, i, job, p, Keep, TRUE) \subseteq Heard(b)
  BY <1>1, JournalUpsertNear
<1>3. \A r \in JournalUpsert(s, i, job, p, Keep, TRUE) : r.s \in Near(b)
  BY <1>2, HeardOf
<1>4. \A t \in Near(b) : [t EXCEPT !.lease[i] = p] \in Near(b) /\ Unless("lease", {t}) \subseteq Near(b)
  BY <1>1, NearLease, UnlessOf
<1> QED
  BY <1>3, <1>4 DEF Retained

(* _cleanup_job_source is a cleanup.                                       *)
LEMMA CleanupJobSourceNear ==
    ASSUME NEW b, NEW s \in Near(b), NEW i, NEW job, May(b, i, job), NEW p \in Paths \cup {0}
    PROVE  CleanupJobSource(s, i, job, p) \subseteq Heard(b)
<1>1. i \in Ids /\ 0 \in Paths \cup {0}
  BY DEF May
<1>2. \A t \in Near(b) : Ok(Journaled(t, i, job, 0)) \subseteq Heard(b)
  BY <1>1, JournaledNear, HeardSets
<1>3. \A t \in Near(b) : [t EXCEPT !.path[i] = 0] \in Near(b) /\ [t EXCEPT !.path[i] = p] \in Near(b)
  BY <1>1, NearPath
<1>4. \A t \in Near(b) : Not(Retained(t, i, job, p)) \subseteq Heard(b)
  BY RetainedNear, HeardSets
<1>5. \A r \in Removed(s, p) : r.s \in Near(b)
  BY RemovedNear, HeardOf
<1> QED
  BY <1>2, <1>3, <1>4, <1>5 DEF CleanupJobSource

(* A cleanup may write a job as it is.                                     *)
LEMMA MaySame ==
    ASSUME NEW b, NEW s \in Near(b), NEW i \in Ids
    PROVE  May(b, i, s.job[i])
BY DEF May, Near, Tidy, UploadState, Synthetic

(* _quarantine_unowned_source is a cleanup.                                *)
LEMMA QuarantinedNear ==
    ASSUME NEW b, NEW s \in Near(b), NEW p \in Paths
    PROVE  Quarantined(s, p) \subseteq Near(b)
<1> DEFINE i == MaxIds + p
           job == [NoJob EXCEPT !.status = "failed"]
           born == Append(Filter(s.born, Ids \ {i}), i)
           t == [s EXCEPT !.job[i] = job, !.path[i] = p, !.born = born]
<1>1. i \in Synthetic /\ i \in Ids /\ i \notin Paths
  BY Sizes DEF Synthetic, Ids, Paths
<1>2. job \in UploadJob /\ job.status = "failed"
  BY Sizes DEF NoJob, UploadJob, Status, Final
<1>3. s \in UploadState /\ s.born \in Seq(Ids) /\ IsInjective(s.born)
  BY DEF Near, Tidy, UploadState
<1> DEFINE kept == Filter(s.born, Ids \ {i})
<1>4. kept \in Seq(Ids) /\ Range(kept) = Range(s.born) \cap (Ids \ {i}) /\ IsInjective(kept)
  BY <1>3, FilterFacts
<1>5. born \in Seq(Ids) /\ Range(born) = Range(s.born) \cup {i} /\ IsInjective(born)
  <2>1. born = Append(kept, i) /\ Range(s.born) \subseteq Ids
    BY <1>3 DEF Range
  <2> HIDE DEF kept, born, i
  <2>2. i \notin Range(kept)
    BY <1>4
  <2>3. Append(kept, i) \in Seq(Ids) /\ Range(Append(kept, i)) = Range(kept) \cup {i} /\ IsInjective(Append(kept, i))
    BY <1>1, <1>4, <2>2, AppendFacts
  <2> QED
    BY <2>1, <2>3, <1>4
<1> HIDE DEF i, job, born, kept
<1>6. t \in UploadState
  BY <1>1, <1>2, <1>3, <1>5 DEF UploadState
<1>7. /\ t.receipt = s.receipt /\ t.canon = s.canon /\ t.event = s.event /\ t.waiting = s.waiting
      /\ t.scheduled = s.scheduled /\ t.pending = s.pending /\ t.last = s.last /\ t.born = born
      /\ t.job = [s.job EXCEPT ![i] = job] /\ t.row = s.row
  BY <1>3 DEF UploadState
<1>8. DOMAIN s.job = Ids /\ Paths \subseteq Ids
  BY <1>3, Sizes DEF UploadState
<1> HIDE DEF t
<1>9. Tidy(b, t)
  <2>1. \A j \in Paths : t.job[j] = s.job[j]
    BY <1>1, <1>7, <1>8
  <2>2. \A j \in Synthetic : t.job[j].status \in {"none", "failed"}
    BY <1>2, <1>7, <1>8 DEF Near, Tidy, Synthetic
  <2>3. Range(b.born) \subseteq Range(t.born) /\ Range(t.born) \subseteq Range(b.born) \cup Synthetic /\ IsInjective(t.born)
    BY <1>1, <1>5, <1>7 DEF Near, Tidy
  <2> QED
    BY <2>1, <2>2, <2>3, <1>7 DEF Near, Tidy
<1>10. t \in Near(b)
  BY <1>6, <1>9 DEF Near
<1>11. May(b, i, job)
  BY <1>1, <1>2 DEF May
<1>12. Retained(t, i, job, p) \subseteq Near(b)
  BY <1>10, <1>11, RetainedNear
<1>13. Quarantined(s, p) = Retained(t, i, job, p)
  BY <1>3 DEF Quarantined, t, i, job, born, UploadState
<1> QED
  BY <1>12, <1>13

(* So is the removal that falls back on it.                                *)
LEMMA RemoveOrQuarantineNear ==
    ASSUME NEW b, NEW s \in Near(b), NEW p \in Paths
    PROVE  RemoveOrQuarantine(s, p) \subseteq Near(b)
<1>1. \A r \in Removed(s, p) : r.s \in Near(b)
  BY RemovedNear, HeardOf
<1>2. \A t \in Near(b) : Quarantined(t, p) \subseteq Near(b)
  BY QuarantinedNear
<1> QED
  BY <1>1, <1>2 DEF RemoveOrQuarantine

-----------------------------------------------------------------------------
(* Evictions *)

(* The types of what is read of the retained documents.                    *)
LEMMA DocFacts ==
    ASSUME NEW s \in UploadState, NEW d
    PROVE  /\ DocPath(s, d) \in Paths \cup {0}
           /\ WithoutDoc(s, d) \in Seq([doc : Names, path : Paths])
           /\ WithoutPath(s, d) \in Seq([doc : Names, path : Paths])
           /\ s.docs # << >> => Head(s.docs).path \in Paths /\ Tail(s.docs) \in Seq([doc : Names, path : Paths])
<1> DEFINE X == [doc : Names, path : Paths]
<1>1. s.docs \in Seq(X)
  BY DEF UploadState
<1>2. \A k \in DOMAIN s.docs : s.docs[k].path \in Paths
  <2>1. \A k \in DOMAIN s.docs : s.docs[k] \in X
    <3> HIDE DEF X
    <3> QED BY <1>1
  <2> QED BY <2>1
<1>3. DocPath(s, d) \in Paths \cup {0}
  <2> DEFINE at == {k \in DOMAIN s.docs : s.docs[k].doc = d}
             k == CHOOSE j \in at : TRUE
  <2>1. CASE at = {}
    BY <2>1 DEF DocPath
  <2>2. CASE at # {}
    <3>1. k \in at
      BY <2>2
    <3>2. DocPath(s, d) = s.docs[k].path
      BY <2>2 DEF DocPath
    <3> HIDE DEF k
    <3> QED
      BY <3>1, <3>2, <1>2
  <2> QED
    BY <2>1, <2>2
<1>4. WithoutDoc(s, d) \in Seq(X) /\ WithoutPath(s, d) \in Seq(X)
  <2> HIDE DEF X
  <2> QED
    BY <1>1, FilterFacts DEF WithoutDoc, WithoutPath
<1>5. s.docs # << >> => Head(s.docs) \in X /\ Tail(s.docs) \in Seq(X)
  <2> HIDE DEF X
  <2> QED
    BY <1>1
<1> QED
  BY <1>3, <1>4, <1>5

(* The oldest of some known jobs is one of them.                           *)
LEMMA OldestFacts ==
    ASSUME NEW s \in UploadState, NEW S \in SUBSET Range(s.born), S # {}
    PROVE  Oldest(s, S) \in S /\ Oldest(s, S) \in Ids
<1> DEFINE K == {k \in DOMAIN s.born : s.born[k] \in S}
           R == {ss \in Nat \X Nat : ss[1] < ss[2]}
<1>1. s.born \in Seq(Ids) /\ DOMAIN s.born \subseteq Nat
  BY DEF UploadState
<1>2. K # {} /\ K \subseteq Nat
  BY <1>1 DEF Range
<1>3. IsWellFoundedOn(R, Nat)
  BY NatLessThanWellFounded DEF OpToRel
<1>4. PICK i \in K : \A j \in K : <<j, i>> \notin R
  <2> HIDE DEF R, K
  <2> QED BY <1>2, <1>3, WFMin
<1>5. ASSUME NEW j \in K PROVE i =< j
  <2>1. i \in Nat /\ j \in Nat /\ <<j, i>> \notin R
    BY <1>2, <1>4
  <2>2. CASE j < i
    BY <2>1, <2>2
  <2> HIDE DEF R
  <2> QED BY <2>1, <2>2
<1>6. Min(K) \in K
  <2> HIDE DEF K
  <2> QED BY <1>5 DEF Min
<1>7. Oldest(s, S) = s.born[Min(K)]
  BY DEF Oldest
<1>8. S \subseteq Ids
  BY <1>1 DEF Range
<1> QED
  BY <1>6, <1>7, <1>8

(* Taking a removed file from its owners is a cleanup.                     *)
LEMMA DisownedNear ==
    ASSUME NEW b, NEW s \in Near(b), NEW p
    PROVE  Disowned(s, p) \subseteq Near(b)
<1> DEFINE owners == {i \in Ids : s.path[i] = p}
           known == {i \in owners \cap Known(s) : ~AttemptRefused(s, i, s.job[i])}
           paths == [i \in Ids |-> IF i \in owners THEN 0 ELSE s.path[i]]
           rows(W) == [i \in Ids |-> IF i \in W THEN NewRow(s, i, s.job[i], 0, Keep) ELSE s.row[i]]
           after(W) == [s EXCEPT !.path = paths, !.row = rows(W)]
<1>1. s \in UploadState
  BY DEF Near
<1>2. Keep \in -1..MaxRetries /\ 0 \in Paths \cup {0}
  BY Sizes DEF Keep
<1>3. \A i \in Ids : s.job[i] \in UploadJob /\ s.row[i] \in JournalRow /\ s.path[i] \in Paths \cup {0}
  BY <1>1 DEF UploadState
<1>4. \A i \in Ids : /\ NewRow(s, i, s.job[i], 0, Keep) \in JournalRow
                     /\ NewRow(s, i, s.job[i], 0, Keep).status \in {s.row[i].status, s.job[i].status}
  BY <1>1, <1>2, <1>3, NewRowFacts
<1>5. paths \in [Ids -> Paths \cup {0}]
  BY <1>3
<1>6. ASSUME NEW W \in SUBSET Ids PROVE after(W) \in Near(b)
  <2> DEFINE R == rows(W)
             t == [s EXCEPT !.path = paths, !.row = R]
  <2>1. R \in [Ids -> JournalRow]
    BY <1>3, <1>4
  <2>2. \A i \in Ids : R[i].status \in {s.row[i].status, s.job[i].status}
    BY <1>4
  <2> HIDE DEF R, paths
  <2>3. t \in UploadState
    BY <1>1, <1>5, <2>1 DEF UploadState
  <2>4. /\ t.receipt = s.receipt /\ t.canon = s.canon /\ t.event = s.event /\ t.waiting = s.waiting
        /\ t.scheduled = s.scheduled /\ t.pending = s.pending /\ t.last = s.last /\ t.born = s.born
        /\ t.job = s.job /\ t.row = R
    BY <1>1 DEF UploadState
  <2>5. Paths \subseteq Ids /\ Synthetic \subseteq Ids
    BY Sizes DEF Synthetic
  <2> HIDE DEF t
  <2>6. \A i \in Paths : t.row[i].status \in {"none", b.row[i].status, b.job[i].status}
    BY <2>2, <2>4, <2>5 DEF Near, Tidy
  <2>7. \A i \in Synthetic : t.row[i].status \in {"none", "failed"}
    BY <2>2, <2>4, <2>5 DEF Near, Tidy
  <2>8. Tidy(b, t)
    BY <2>4, <2>6, <2>7 DEF Near, Tidy
  <2>9. t \in Near(b)
    BY <2>3, <2>8 DEF Near
  <2> QED
    BY <2>9 DEF t, R, paths
<1>7. ASSUME NEW t \in Disowned(s, p) PROVE \E W \in SUBSET Ids : t = after(W)
  <2>1. known \subseteq Ids
    OBVIOUS
  <2> QED
    BY <1>1, <2>1 DEF Disowned, UploadState
<1> QED
  BY <1>6, <1>7

(* The jobs that may be evicted have ended.                                *)
LEMMA EndedJobsFacts ==
    ASSUME NEW s \in UploadState
    PROVE  EndedJobs(s) \subseteq Range(s.born) /\ \A i \in EndedJobs(s) : i \in Ids /\ s.job[i].status \in Final
<1>1. Range(s.born) \subseteq Ids
  BY DEF UploadState, Range
<1> QED
  BY <1>1 DEF EndedJobs

(* _evict_one_source is a cleanup.                                         *)
LEMMA EvictOneSourceNear ==
    ASSUME NEW b, NEW s \in Near(b)
    PROVE  EvictOneSource(s) \subseteq Heard(b)
<1> DEFINE ended == {i \in EndedJobs(s) : s.path[i] # 0}
           p == IF s.docs # << >> THEN Head(s.docs).path ELSE s.path[Oldest(s, ended)]
           result(r) == IF ~r.ok THEN {r} ELSE Ok(Disowned([r.s EXCEPT !.docs = WithoutPath(s, p)], p))
<1>1. s \in UploadState
  BY DEF Near
<1>2. WithoutPath(s, p) \in Seq([doc : Names, path : Paths])
  BY <1>1, DocFacts
<1>3. Not({s}) \subseteq Heard(b)
  BY Heardness
<1>4. ASSUME NEW r \in Removed(s, p) PROVE result(r) \subseteq Heard(b)
  <2> HIDE DEF p
  <2>1. r.s \in Near(b) /\ r \in Heard(b)
    BY RemovedNear, HeardOf
  <2>2. [r.s EXCEPT !.docs = WithoutPath(s, p)] \in Near(b)
    BY <1>2, <2>1, NearDocs
  <2>3. Ok(Disowned([r.s EXCEPT !.docs = WithoutPath(s, p)], p)) \subseteq Heard(b)
    BY <2>2, DisownedNear, HeardSets
  <2> QED
    BY <2>1, <2>3
<1>5. EvictOneSource(s) \subseteq Not({s}) \cup UNION {result(r) : r \in Removed(s, p)}
  BY DEF EvictOneSource
<1> HIDE DEF result, p
<1> QED
  BY <1>3, <1>4, <1>5

(* A turn of _evict_if_needed is a cleanup: it drops an ended job.         *)
LEMMA EvictJobNear ==
    ASSUME NEW b, NEW s \in Near(b)
    PROVE  EvictJob(s) \subseteq Heard(b)
<1> DEFINE i == Oldest(s, EndedJobs(s))
           p == s.path[i]
           cleaned == IF p = 0 THEN Ok(Journaled(s, i, s.job[i], 0))
                      ELSE IF p \in DocPaths(s) THEN Ok({[s EXCEPT !.path[i] = 0]})
                      ELSE CleanupJobSource(s, i, s.job[i], p)
           forgot(r) == [r EXCEPT !.s = [@ EXCEPT !.job[i] = NoJob, !.retries[i] = 0]]
<1>1. s \in UploadState
  BY DEF Near
<1>2. CASE EndedJobs(s) = {}
  BY <1>2, Heardness DEF EvictJob
<1>3. CASE EndedJobs(s) # {}
  <2>1. i \in Ids /\ s.job[i].status \in Final
    BY <1>1, <1>3, EndedJobsFacts, OldestFacts
  <2> HIDE DEF i
  <2>2. p \in Paths \cup {0} /\ May(b, i, s.job[i])
    BY <1>1, <2>1, MaySame DEF UploadState
  <2>3. cleaned \subseteq Heard(b)
    <3>1. Ok(Journaled(s, i, s.job[i], 0)) \subseteq Heard(b)
      BY <2>2, JournaledNear, HeardSets
    <3>2. Ok({[s EXCEPT !.path[i] = 0]}) \subseteq Heard(b)
      BY <2>1, NearPath, Heardness
    <3>3. CleanupJobSource(s, i, s.job[i], p) \subseteq Heard(b)
      BY <2>2, CleanupJobSourceNear
    <3> QED
      BY <3>1, <3>2, <3>3
  <2> HIDE DEF cleaned
  <2>j. i \in Paths => b.job[i].status \in Final
    BY <2>1 DEF Near, Tidy, Final
  <2>4. ASSUME NEW r \in cleaned PROVE forgot(r) \in Heard(b)
    <3> DEFINE u == r.s
               t == [u EXCEPT !.job[i] = NoJob, !.retries[i] = 0]
    <3>1. r \in Heard(b) /\ u \in Near(b) /\ u \in UploadState
      BY <2>3, HeardOf DEF Near
    <3>2. forgot(r) = [s |-> t, ok |-> r.ok]
      <4>1. forgot(r) = [r EXCEPT !.s = t]
        BY <3>1 DEF Heard
      <4> HIDE DEF t
      <4> QED
        BY <4>1, <3>1 DEF Heard
    <3> HIDE DEF u
    <3>z. 0 \in 0..MaxRetries
      BY Sizes
    <3>3. t \in UploadState
      BY <2>1, <3>1, <3>z, Sizes DEF UploadState
    <3>4. /\ t.receipt = u.receipt /\ t.canon = u.canon /\ t.event = u.event /\ t.waiting = u.waiting
          /\ t.scheduled = u.scheduled /\ t.pending = u.pending /\ t.last = u.last /\ t.born = u.born
          /\ t.job = [u.job EXCEPT ![i] = NoJob] /\ t.row = u.row
      BY <3>1 DEF UploadState
    <3>5. \A j \in Ids : t.job[j] = u.job[j] \/ (j = i /\ t.job[j].status = "none")
      BY <3>1, <3>4 DEF UploadState, NoJob
    <3>6. Paths \subseteq Ids /\ Synthetic \subseteq Ids
      BY Sizes DEF Synthetic
    <3> HIDE DEF t
    <3>7. \A j \in Paths : \/ t.job[j].status = b.job[j].status
                           \/ b.job[j].status \in Final /\ t.job[j].status = "none"
      BY <3>1, <3>5, <3>6, <2>j DEF Near, Tidy
    <3>8. \A j \in Synthetic : t.job[j].status \in {"none", "failed"}
      BY <3>1, <3>5, <3>6 DEF Near, Tidy
    <3>9. t \in Near(b)
      BY <3>1, <3>3, <3>4, <3>7, <3>8 DEF Near, Tidy
    <3> QED
      BY <3>1, <3>2, <3>9 DEF Heard
  <2>5. EvictJob(s) \subseteq Not({s}) \cup {IF r.ok THEN forgot(r) ELSE r : r \in cleaned}
    BY DEF EvictJob, cleaned, i
  <2> HIDE DEF forgot
  <2>6. \A r \in cleaned : (IF r.ok THEN forgot(r) ELSE r) \in Heard(b)
    BY <2>3, <2>4
  <2> QED
    BY <2>5, <2>6, Heardness
<1> QED
  BY <1>2, <1>3

(* A turn of _evict_document_sources_if_needed is a cleanup.               *)
LEMMA EvictDocumentNear ==
    ASSUME NEW b, NEW s \in Near(b)
    PROVE  EvictDocument(s) \subseteq Heard(b)
<1> DEFINE p == Head(s.docs).path
           result(r) == IF ~r.ok THEN {r} ELSE Ok(Disowned([r.s EXCEPT !.docs = Tail(@)], p))
<1>1. s \in UploadState
  BY DEF Near
<1>2. CASE Len(s.docs) <= MaxJobs
  BY <1>2, Heardness DEF EvictDocument
<1>3. CASE ~(Len(s.docs) <= MaxJobs)
  <2>1. s.docs # << >>
    <3>1. s.docs = << >> => Len(s.docs) = 0
      OBVIOUS
    <3> QED
      BY <1>3, <3>1, Sizes
  <2>2. ASSUME NEW r \in Removed(s, p) PROVE result(r) \subseteq Heard(b)
    <3> HIDE DEF p
    <3>1. r.s \in Near(b) /\ r \in Heard(b) /\ r.s \in UploadState
      BY RemovedNear, HeardOf DEF Near
    <3>2. r.s.docs = s.docs
      BY <1>1 DEF Removed, Ok, Not, Unless, UploadState
    <3>3. [r.s EXCEPT !.docs = Tail(@)] \in Near(b)
      <4>1. Tail(r.s.docs) \in Seq([doc : Names, path : Paths])
        BY <1>1, <2>1, <3>2, DocFacts
      <4>2. [r.s EXCEPT !.docs = Tail(@)] = [r.s EXCEPT !.docs = Tail(r.s.docs)]
        BY <3>1 DEF UploadState
      <4> QED
        BY <4>1, <4>2, <3>1, NearDocs
    <3>4. Ok(Disowned([r.s EXCEPT !.docs = Tail(@)], p)) \subseteq Heard(b)
      BY <3>3, DisownedNear, HeardSets
    <3> QED
      BY <3>1, <3>4
  <2>3. EvictDocument(s) = UNION {result(r) : r \in Removed(s, p)}
    BY <1>3 DEF EvictDocument
  <2> HIDE DEF result, p
  <2> QED
    BY <2>2, <2>3
<1> QED
  BY <1>2, <1>3

-----------------------------------------------------------------------------
(* Capacity, staging and registration *)

(* A loop of cleanups is a cleanup.                                        *)
LEMMA LoopNear ==
    ASSUME NEW b, NEW s \in Near(b), NEW F, \A t \in Near(b) : F[t] \subseteq Heard(b)
    PROVE  While(s, F) \subseteq Near(b)
<1>1. Near(b) \in SUBSET UploadState
  BY DEF Near
<1> QED
  BY <1>1, WhileStays DEF Heard

(* _make_staging_capacity is a cleanup.                                    *)
LEMMA MakeStagingCapacityNear ==
    ASSUME NEW b, NEW s \in Near(b)
    PROVE  MakeStagingCapacity(s) \subseteq Near(b)
<1> DEFINE F == [t \in UploadState |->
                   IF Cardinality(Owning(t)) < MaxJobs THEN Not({t}) ELSE EvictOneSource(t)]
<1>1. ASSUME NEW t \in Near(b) PROVE F[t] \subseteq Heard(b)
  <2>1. t \in UploadState /\ Not({t}) \subseteq Heard(b) /\ EvictOneSource(t) \subseteq Heard(b)
    BY EvictOneSourceNear, Heardness DEF Near
  <2> QED
    BY <2>1
<1> HIDE DEF F
<1>2. While(s, F) \subseteq Near(b)
  BY <1>1, LoopNear
<1> QED
  BY <1>2 DEF MakeStagingCapacity, F

(* _evict_if_needed is a cleanup.                                          *)
LEMMA EvictIfNeededNear ==
    ASSUME NEW b, NEW s \in Near(b)
    PROVE  EvictIfNeeded(s) \subseteq Near(b)
<1> DEFINE F == [t \in UploadState |-> EvictJob(t)]
<1>1. ASSUME NEW t \in Near(b) PROVE F[t] \subseteq Heard(b)
  <2>1. t \in UploadState /\ EvictJob(t) \subseteq Heard(b)
    BY EvictJobNear DEF Near
  <2> QED
    BY <2>1
<1> HIDE DEF F
<1>2. While(s, F) \subseteq Near(b)
  BY <1>1, LoopNear
<1> QED
  BY <1>2 DEF EvictIfNeeded, F

(* _evict_document_sources_if_needed is a cleanup.                         *)
LEMMA EvictDocumentSourcesNear ==
    ASSUME NEW b, NEW s \in Near(b)
    PROVE  EvictDocumentSources(s) \subseteq Near(b)
<1> DEFINE F == [t \in UploadState |-> EvictDocument(t)]
<1>1. ASSUME NEW t \in Near(b) PROVE F[t] \subseteq Heard(b)
  <2>1. t \in UploadState /\ EvictDocument(t) \subseteq Heard(b)
    BY EvictDocumentNear DEF Near
  <2> QED
    BY <2>1
<1> HIDE DEF F
<1>2. While(s, F) \subseteq Near(b)
  BY <1>1, LoopNear
<1> QED
  BY <1>2 DEF EvictDocumentSources, F

(* Removing the source that a publication replaced is a cleanup.           *)
LEMMA DroppedNear ==
    ASSUME NEW b, NEW s \in Near(b), NEW q \in Paths \cup {0}, NEW p
    PROVE  Dropped(s, q, p) \subseteq Near(b)
<1>1. CASE q \in {0, p}
  BY <1>1 DEF Dropped
<1>2. CASE q \notin {0, p}
  <2>1. q \in Paths
    BY <1>2
  <2> QED
    BY <1>2, <2>1, RemoveOrQuarantineNear DEF Dropped
<1> QED
  BY <1>1, <1>2

(* Once the job is set, _record_result is a cleanup.                       *)
LEMMA RecordResultNear ==
    ASSUME NEW b, NEW s \in UploadState, NEW i, NEW job, May(b, i, job), NEW p \in Paths, NEW prev \in Paths \cup {0},
           [s EXCEPT !.job[i] = job] \in Near(b)
    PROVE  RecordResult(s, i, job, p, prev) \subseteq Near(b)
<1> DEFINE first == [s EXCEPT !.job[i] = job, !.path[i] = p]
           remembered == EvictIfNeeded(first)
           replaced == DocPath(s, job.doc)
           obsolete(t) == IF replaced = prev THEN {t} ELSE Dropped(t, replaced, p)
           doc(t) == [t EXCEPT !.docs = Append(WithoutDoc(t, job.doc), [doc |-> job.doc, path |-> p])]
           retained == UNION {EvictDocumentSources(doc(t)) : t \in remembered}
<1>1. i \in Ids /\ job \in UploadJob /\ job.doc \in Names
  BY DEF May, UploadJob
<1>2. first \in Near(b)
  <2> DEFINE u == [s EXCEPT !.job[i] = job]
  <2>1. first = [u EXCEPT !.path[i] = p]
    BY DEF UploadState
  <2> HIDE DEF u
  <2>2. u \in Near(b)
    BY DEF u
  <2> QED
    BY <2>1, <2>2, <1>1, NearPath
<1> HIDE DEF first
<1>3. remembered \subseteq Near(b)
  BY <1>2, EvictIfNeededNear
<1> HIDE DEF remembered
<1>4. ASSUME NEW t \in Near(b) PROVE EvictDocumentSources(doc(t)) \subseteq Near(b)
  <2>1. t \in UploadState
    BY DEF Near
  <2>2. [doc |-> job.doc, path |-> p] \in [doc : Names, path : Paths]
    BY <1>1
  <2>3. Append(WithoutDoc(t, job.doc), [doc |-> job.doc, path |-> p]) \in Seq([doc : Names, path : Paths])
    BY <2>1, <2>2, DocFacts, AppendFacts
  <2> QED
    BY <2>3, NearDocs, EvictDocumentSourcesNear
<1>5. retained \subseteq Near(b)
  <2> HIDE DEF doc
  <2> QED
    BY <1>3, <1>4
<1> HIDE DEF retained
<1>6. replaced \in Paths \cup {0}
  BY DocFacts
<1> HIDE DEF replaced
<1>7. \A t \in Near(b) : obsolete(t) \subseteq Near(b) /\ Dropped(t, prev, p) \subseteq Near(b)
  BY <1>6, DroppedNear
<1> HIDE DEF obsolete
<1>8. \A t \in Near(b) : Journaled(t, i, job, p) \subseteq Near(b)
  BY JournaledNear
<1>9. \A t \in Near(b) : States(CleanupJobSource(t, i, job, IF p = prev THEN 0 ELSE p)) \subseteq Near(b)
  <2>1. (IF p = prev THEN 0 ELSE p) \in Paths \cup {0}
    OBVIOUS
  <2> QED
    BY <2>1, CleanupJobSourceNear, HeardOf
<1>10. RecordResult(s, i, job, p, prev) \in
          {UNION {UNION {UNION {Dropped(v, prev, p) : v \in obsolete(u)} : u \in Journaled(t, i, job, p)} : t \in retained},
           UNION {Journaled(t, i, job, p) : t \in remembered},
           UNION {States(CleanupJobSource(t, i, job, IF p = prev THEN 0 ELSE p)) : t \in remembered}}
  BY Zenon DEF RecordResult, first, remembered, obsolete, replaced, retained
<1>11. UNION {UNION {UNION {Dropped(v, prev, p) : v \in obsolete(u)} : u \in Journaled(t, i, job, p)} : t \in retained} \subseteq Near(b)
  BY <1>5, <1>7, <1>8
<1>12. UNION {Journaled(t, i, job, p) : t \in remembered} \subseteq Near(b)
  BY <1>3, <1>8
<1>13. UNION {States(CleanupJobSource(t, i, job, IF p = prev THEN 0 ELSE p)) : t \in remembered} \subseteq Near(b)
  BY <1>3, <1>9
<1> QED
  BY <1>10, <1>11, <1>12, <1>13

(* _write_staged is a cleanup, and may take the next id.                   *)
LEMMA WriteStagedNear ==
    ASSUME NEW b \in UploadState, NEW s \in Near(b), NEW d \in Names, b.last < MaxIds,
           NEW r \in WriteStaged(s, d)
    PROVE  /\ r.ok \in BOOLEAN
           /\ r.ok => r.s \in Near([b EXCEPT !.last = b.last + 1])
           /\ r.s \in Near(b) \cup Near([b EXCEPT !.last = b.last + 1])
<1> DEFINE p == s.last + 1
           put(t) == [t EXCEPT !.file = @ \cup {p}, !.content[p] = d, !.last = p]
           c == [b EXCEPT !.last = b.last + 1]
<1>1. b.last \in 0..MaxIds /\ s.last = b.last /\ p \in Paths /\ p \in 0..MaxIds /\ p = b.last + 1
  BY Sizes DEF Near, Tidy, UploadState, Paths
<1> HIDE DEF p
<1>2. MakeStagingCapacity(s) \subseteq Near(b)
  BY MakeStagingCapacityNear
<1>3. /\ c.receipt = b.receipt /\ c.canon = b.canon /\ c.event = b.event /\ c.waiting = b.waiting
      /\ c.scheduled = b.scheduled /\ c.pending = b.pending /\ c.last = p /\ c.born = b.born
      /\ c.job = b.job /\ c.row = b.row
  BY <1>1 DEF UploadState
<1> HIDE DEF c
<1>4. ASSUME NEW t \in Near(b) PROVE put(t) \in Near(c)
  <2> DEFINE u == put(t)
  <2>1. t \in UploadState
    BY DEF Near
  <2>2. t.file \cup {p} \in SUBSET Paths
    BY <1>1, <2>1 DEF UploadState
  <2>3. u \in UploadState
    BY <1>1, <2>1, <2>2 DEF UploadState
  <2>4. /\ u.receipt = t.receipt /\ u.canon = t.canon /\ u.event = t.event /\ u.waiting = t.waiting
        /\ u.scheduled = t.scheduled /\ u.pending = t.pending /\ u.last = p /\ u.born = t.born
        /\ u.job = t.job /\ u.row = t.row
    BY <2>1 DEF UploadState
  <2> HIDE DEF u
  <2>5. u \in Near(c)
    BY <1>3, <2>3, <2>4 DEF Near, Tidy
  <2> QED
    BY <2>5 DEF u
<1>5. PICK t \in MakeStagingCapacity(s) :
         r \in IF Cardinality(Owning(t)) >= MaxJobs THEN Not({t})
               ELSE Ok({put(t)}) \cup Unless("write", Not(RemoveOrQuarantine(put(t), p)))
  BY DEF WriteStaged, p
<1>6. t \in Near(b) /\ put(t) \in Near(c)
  BY <1>2, <1>4, <1>5
<1> HIDE DEF put
<1>7. RemoveOrQuarantine(put(t), p) \subseteq Near(c)
  BY <1>1, <1>6, RemoveOrQuarantineNear
<1>8. CASE r \in Not({t})
  <2>1. r.s \in {t} /\ r.ok = FALSE
    BY <1>8, OkNot
  <2> QED
    BY <1>6, <2>1
<1>9. CASE r \in Ok({put(t)})
  <2>1. r.s \in {put(t)} /\ r.ok = TRUE
    BY <1>9, OkNot
  <2> QED
    BY <1>6, <2>1 DEF c
<1>10. CASE r \in Not(RemoveOrQuarantine(put(t), p))
  BY <1>7, <1>10, OkNot DEF c
<1> QED
  BY <1>5, <1>8, <1>9, <1>10, UnlessOf

-----------------------------------------------------------------------------
(* The invariant *)

(* Statuses: of a job that a restart runs again, of one that has ended     *)
(* without a publication, and the ones the pipeline answers with.          *)
Open == {"queued", "validating"}
Lost == {"failed", "cancelled"}
Answered == Final \cup {"unknown"}

(* The authority holds a publication of job i, committed or not known to   *)
(* be.                                                                     *)
Won(s, i) == s.receipt[i].outcome \in {"pending", "committed"}

(* And no ingest raised on it, so that the service was told.               *)
Sure(s, i) == Won(s, i) /\ ~s.receipt[i].unheard

(* A status that does not contradict the receipt of job i.                 *)
Fits(s, i, status) ==
    /\ status = "published" => s.receipt[i].outcome = "committed"
    /\ status \in Lost => ~Sure(s, i)

(* The job that the worker has not yet ingested, the one it has, and the   *)
(* ones that are yet to be ingested by someone.                            *)
Starting(w) == IF w.pc \in {"start", "attempt", "ingest"} THEN {w.id} ELSE {}
Held(w) == IF w.pc = "idle" THEN {} ELSE {w.id}
Busy(s, w) == Range(s.waiting) \cup Starting(w)

(* The worker holds the answer of the pipeline on job i.                   *)
Registering(w, i) == w.pc = "register" /\ w.id = i

(* Job i has been given an id, and nothing else.                           *)
Virgin(s, i) ==
    /\ s.row[i].status = "none" /\ s.job[i].status = "none"
    /\ s.receipt[i].outcome = "none" /\ s.canon[i].status = "none"

(* What is known of job i.  Its job, its row and the pipeline's own record *)
(* agree with the receipt.  An ended row has no open job, so that a        *)
(* cancelled row is never ingested again.  An open job with a receipt is   *)
(* about to be registered by the worker.  A job yet to be ingested has no  *)
(* receipt, and if its cancellation is recorded its event is set, so that  *)
(* the worker will not ingest it.                                          *)
JobOK(s, w, i) ==
    /\ Fits(s, i, s.job[i].status) /\ Fits(s, i, s.row[i].status) /\ Fits(s, i, s.canon[i].status)
    /\ s.row[i].status \in Lost => s.job[i].status \notin Open
    /\ s.job[i].status \in Open /\ Won(s, i) => Registering(w, i)
    /\ s.last < i => Virgin(s, i)
    /\ i \in Busy(s, w) =>
          /\ ~Won(s, i) /\ s.job[i].status # "unknown"
          /\ s.job[i].status \in Lost \/ s.row[i].status \in Lost => s.event[i] = "set"

(* The cleanup jobs are failed ones, with no receipt.                      *)
Sides(s) == \A i \in Synthetic :
    /\ s.job[i].status \in {"none", "failed"} /\ s.row[i].status \in {"none", "failed"}
    /\ s.receipt[i].outcome = "none"

(* What the worker may rely on at each of its steps; at its registration,  *)
(* the answer it holds agrees with the receipt.                            *)
WorkerOK(s, w) ==
    /\ w \in Worker
    /\ w.pc = "idle" => w = NoWork
    /\ w.pc # "idle" => w.id \in 1..s.last /\ w.path = w.id /\ w.id \notin Range(s.waiting)
    /\ w.pc = "start" => w.result = NoJob
    /\ w.pc = "attempt" => w.result = NoJob \/ w.result.status = "cancelled"
    /\ w.pc = "register" => /\ Fits(s, w.id, w.result.status) /\ w.result.status \in Answered
                            /\ Sure(s, w.id) => w.result.status = "unknown" \/ s.canon[w.id].status \in Final

(* What a running operation may rely on: its job is the newest one and     *)
(* belongs to nobody else.                                                 *)
OperationOK(s, w, o, c) ==
    /\ o \in Operation
    /\ o.pc = "none" => o = NoOp
    /\ o.pc = "admitted" /\ o.kind \in {"submit", "upload", "retry", "reindex"} => s.last < MaxIds
    /\ o.pc = "running" /\ o.kind # "delete" =>
          /\ o.id = s.last /\ o.id \in Paths /\ o.path \in Paths
          /\ o.id \notin Range(s.waiting) /\ w.id # o.id /\ c.id # o.id
          /\ o.kind # "submit" => Virgin(s, o.id)
          /\ o.kind = "submit" => s.job[o.id].status = "queued" /\ s.receipt[o.id].outcome = "none"

(* What cancel may rely on between its two lock sections: if the job has a *)
(* receipt, the pipeline's answer will say so, or the job is unknown, or   *)
(* the worker is about to register it; and the event it set is still set   *)
(* while the job is yet to be ingested.                                    *)
CancelOK(s, w, c) ==
    /\ c \in Canceller
    /\ c # NoCancel =>
          /\ c.id \in 1..s.last /\ c.job.status \notin Final
          /\ Sure(s, c.id) => s.canon[c.id].status \in Final \/ s.job[c.id].status = "unknown" \/ Registering(w, c.id)
          /\ c.id \in Busy(s, w) => s.event[c.id] = "set"

(* The slot that a running submission has taken.                           *)
Submitting(o) == IF o.kind = "submit" /\ o.pc = "running" THEN 1 ELSE 0

(* The queue: the futures and the worker's job are the scheduled ones,     *)
(* each once, and _async_pending counts them and the running submission,   *)
(* up to max_jobs.                                                         *)
Counted(s, w, o) ==
    /\ IsInjective(s.waiting) /\ Range(s.waiting) \subseteq 1..s.last
    /\ s.scheduled = Range(s.waiting) \cup Held(w)
    /\ s.pending = Len(s.waiting) + (IF w.pc = "idle" THEN 0 ELSE 1) + Submitting(o)
    /\ s.pending <= MaxJobs
    /\ IsInjective(s.born) /\ Range(s.born) \subseteq 1..s.last \cup Synthetic

(* The inductive invariant, as a predicate of the parts of the state.      *)
AppInv(s, w, o, c) ==
    /\ s \in UploadState
    /\ \A i \in Paths : JobOK(s, w, i)
    /\ Sides(s)
    /\ WorkerOK(s, w) /\ OperationOK(s, w, o, c) /\ CancelOK(s, w, c) /\ Counted(s, w, o)

(* The inductive invariant of the service.                                 *)
UploadInv == AppInv(app, wk, op, cn)

-----------------------------------------------------------------------------
(* A cleanup keeps the invariant *)

(* The statuses exclude each other.                                        *)
LEMMA Statuses ==
    /\ "none" \notin Final /\ "none" \notin Lost /\ "none" \notin Open /\ "unknown" \notin Lost /\ "unknown" \notin Open
    /\ "unknown" \notin Final /\ Open \cap Final = {} /\ Lost \subseteq Final /\ Open \cap Lost = {}
    /\ Final = Lost \cup {"published"} /\ Answered \cap Open = {} /\ "published" \notin Lost /\ "published" \notin Open
BY DEF Final, Lost, Open, Answered

(* To do nothing is a cleanup.                                             *)
LEMMA NearSelf ==
    ASSUME NEW s, NEW w, NEW o, NEW c, AppInv(s, w, o, c)
    PROVE  s \in Near(s)
BY DEF AppInv, Near, Tidy, Sides, Counted

(* Cleanups keep the invariant.                                            *)
LEMMA NearKeeps ==
    ASSUME NEW s, NEW w, NEW o, NEW c, AppInv(s, w, o, c), NEW t \in Near(s)
    PROVE  AppInv(t, w, o, c)
<1>1. t \in UploadState /\ Tidy(s, t)
  BY DEF Near
<1>2. /\ t.receipt = s.receipt /\ t.canon = s.canon /\ t.event = s.event
      /\ t.waiting = s.waiting /\ t.scheduled = s.scheduled /\ t.pending = s.pending /\ t.last = s.last
  BY <1>1 DEF Tidy
<1>3. ASSUME NEW i \in Paths PROVE JobOK(t, w, i)
  <2>1. /\ t.job[i].status = s.job[i].status \/ (s.job[i].status \in Final /\ t.job[i].status = "none")
        /\ t.row[i].status \in {"none", s.row[i].status, s.job[i].status}
    BY <1>1 DEF Tidy
  <2>2. JobOK(s, w, i)
    BY DEF AppInv
  <2>3. Fits(t, i, t.job[i].status) /\ Fits(t, i, t.row[i].status) /\ Fits(t, i, t.canon[i].status)
    BY <2>1, <2>2, <1>2, Statuses DEF JobOK, Fits, Won, Sure
  <2>4. /\ t.row[i].status \in Lost => t.job[i].status \notin Open
        /\ t.job[i].status \in Open /\ Won(t, i) => Registering(w, i)
    BY <2>1, <2>2, <1>2, Statuses DEF JobOK, Won, Sure
  <2>5. ASSUME t.last < i PROVE Virgin(t, i)
    <3>1. Virgin(s, i)
      BY <2>2, <2>5, <1>2 DEF JobOK
    <3> QED
      BY <3>1, <2>1, <1>2, Statuses DEF Virgin
  <2>6. i \in Busy(t, w) =>
          /\ ~Won(t, i) /\ t.job[i].status # "unknown"
          /\ t.job[i].status \in Lost \/ t.row[i].status \in Lost => t.event[i] = "set"
    BY <2>1, <2>2, <1>2, Statuses DEF JobOK, Busy, Won, Sure
  <2> QED
    BY <2>3, <2>4, <2>5, <2>6 DEF JobOK
<1>4. Sides(t)
  BY <1>1, <1>2 DEF Tidy, Sides, AppInv
<1>5. WorkerOK(t, w)
  BY <1>2 DEF AppInv, WorkerOK, Fits, Won, Sure
<1>6. ASSUME NEW i \in Paths, Virgin(s, i) PROVE Virgin(t, i)
  BY <1>6, <1>1, <1>2, Statuses DEF Virgin, Tidy
<1>7. ASSUME NEW i \in Paths PROVE s.job[i].status \in {"queued", "unknown"} => t.job[i].status = s.job[i].status
  BY <1>1 DEF Tidy, Final
<1>8. OperationOK(t, w, o, c)
  BY <1>2, <1>6, <1>7 DEF AppInv, OperationOK
<1>9. CancelOK(t, w, c)
  <2>1. c # NoCancel => c.id \in Paths
    BY Sizes DEF AppInv, CancelOK, UploadState, Paths
  <2> QED
    BY <2>1, <1>2, <1>7 DEF AppInv, CancelOK, Busy, Won, Sure
<1>10. Counted(t, w, o)
  BY <1>1, <1>2 DEF AppInv, Counted, Tidy
<1> QED
  BY <1>1, <1>3, <1>4, <1>5, <1>8, <1>9, <1>10 DEF AppInv

-----------------------------------------------------------------------------
(* The first steps *)

(* The values of nobody at work.                                           *)
LEMMA Idle ==
    /\ NoOp \in Operation /\ NoOp.pc = "none" /\ NoOp.kind = "none" /\ Submitting(NoOp) = 0
    /\ NoWork \in Worker /\ NoWork.pc = "idle" /\ NoWork.id = 0 /\ Starting(NoWork) = {} /\ Held(NoWork) = {}
    /\ NoCancel \in Canceller /\ NoCancel.id = 0
<1>1. NoJob \in UploadJob
  BY Sizes
<1>2. NoOp \in Operation /\ NoOp.pc = "none" /\ NoOp.kind = "none" /\ Submitting(NoOp) = 0
  BY DEF NoOp, Operation, Names, Submitting
<1>3. NoWork \in Worker /\ NoWork.pc = "idle" /\ NoWork.id = 0
  BY <1>1 DEF NoWork, Worker
<1>4. NoCancel \in Canceller /\ NoCancel.id = 0
  BY <1>1 DEF NoCancel, Canceller
<1> QED
  BY <1>2, <1>3, <1>4 DEF Starting, Held

(* An operation that holds no slot may end.                                *)
LEMMA OperationEnds ==
    ASSUME NEW s, NEW w, NEW o, NEW c, AppInv(s, w, o, c), Submitting(o) = 0
    PROVE  AppInv(s, w, NoOp, c)
<1>1. OperationOK(s, w, NoOp, c)
  BY Idle DEF OperationOK
<1>2. Counted(s, w, NoOp)
  BY Idle DEF AppInv, Counted
<1> QED
  BY <1>1, <1>2 DEF AppInv

(* The invariant does not speak of the files, the paths, the leases, the   *)
(* documents, the retry counts and the contents.                           *)
LEMMA LikeKeeps ==
    ASSUME NEW s, NEW w, NEW o, NEW c, AppInv(s, w, o, c), NEW t \in UploadState,
           t.receipt = s.receipt, t.canon = s.canon, t.event = s.event, t.waiting = s.waiting,
           t.scheduled = s.scheduled, t.pending = s.pending, t.last = s.last, t.born = s.born,
           t.job = s.job, t.row = s.row
    PROVE  AppInv(t, w, o, c)
BY NearSelf, NearLike, NearKeeps

(* The empty service satisfies the invariant.                              *)
THEOREM UploadBegins ==
    UploadInit => UploadInv
<1> SUFFICES ASSUME UploadInit PROVE AppInv(Blank, NoWork, NoOp, NoCancel)
  BY DEF UploadInit, UploadInv
<1>1. /\ [i \in Ids |-> NoJob] \in [Ids -> UploadJob] /\ [i \in Ids |-> 0] \in [Ids -> Paths \cup {0}]
      /\ [i \in Ids |-> 0] \in [Ids -> 0..MaxRetries] /\ [i \in Ids |-> NoRow] \in [Ids -> JournalRow]
      /\ [i \in Ids |-> NoReceipt] \in [Ids -> Receipt] /\ [p \in Paths |-> "none"] \in [Paths -> Names]
      /\ 0 \in 0..MaxIds
  BY Sizes DEF Names
<1>2. Blank \in UploadState
  BY <1>1 DEF Blank, UploadState
<1>3. /\ Blank.waiting = << >> /\ Blank.born = << >> /\ Blank.scheduled = {} /\ Blank.pending = 0 /\ Blank.last = 0
      /\ \A i \in Ids : Blank.job[i] = NoJob /\ Blank.row[i] = NoRow /\ Blank.receipt[i] = NoReceipt /\ Blank.canon[i] = NoJob
  BY DEF Blank
<1> HIDE DEF Blank
<1>4. /\ NoJob.status = "none" /\ NoRow.status = "none" /\ NoReceipt.outcome = "none"
  BY DEF NoJob, NoRow, NoReceipt
<1>5. Range(<< >>) = {} /\ IsInjective(<< >>) /\ Len(<< >>) = 0
  BY DEF Range, IsInjective
<1>6. ASSUME NEW i \in Paths PROVE JobOK(Blank, NoWork, i)
  BY <1>3, <1>4, <1>5, Idle, Statuses, Sizes DEF JobOK, Fits, Won, Sure, Busy, Virgin
<1>7. Sides(Blank)
  BY <1>3, <1>4 DEF Sides, Synthetic
<1>8. WorkerOK(Blank, NoWork) /\ OperationOK(Blank, NoWork, NoOp, NoCancel) /\ CancelOK(Blank, NoWork, NoCancel)
  BY Idle DEF WorkerOK, OperationOK, CancelOK
<1>9. Counted(Blank, NoWork, NoOp)
  BY <1>3, <1>5, Idle, Sizes DEF Counted
<1> QED
  BY <1>2, <1>6, <1>7, <1>8, <1>9 DEF AppInv

(* _admitted_operation keeps the invariant.                                *)
LEMMA AdmitKeeps ==
    ASSUME UploadInv, NEW kind \in AllCalls, Admit(kind)
    PROVE  UploadInv'
<1>1. op = NoOp /\ app' = app /\ wk' = wk /\ cn' = cn
  BY DEF Admit
<1>2. op' \in Operation /\ op'.pc = "admitted" /\ op'.kind = kind
  BY Idle DEF Admit, Operation
<1>3. OperationOK(app, wk, op', cn)
  BY <1>2 DEF OperationOK, Admit
<1>4. Counted(app, wk, op')
  BY <1>1, <1>2, Idle DEF UploadInv, AppInv, Counted, Submitting
<1>5. AppInv(app, wk, op', cn)
  BY <1>3, <1>4 DEF UploadInv, AppInv
<1> QED
  BY <1>1, <1>5 DEF UploadInv

(* So does an operation that is refused.                                   *)
LEMMA RefuseKeeps ==
    ASSUME UploadInv, Refuse
    PROVE  UploadInv'
<1>1. op' = NoOp /\ app' = app /\ wk' = wk /\ cn' = cn /\ Submitting(op) = 0
  BY DEF Refuse, Submitting
<1> QED
  BY <1>1, OperationEnds DEF UploadInv

(* Deleting a document from the stores keeps it.                           *)
LEMMA BeginDeleteKeeps ==
    ASSUME UploadInv, NEW d \in Documents, BeginDelete(d)
    PROVE  UploadInv' /\ app'.waiting = app.waiting
<1> DEFINE t == [app EXCEPT !.live = @ \ {d}]
<1>1. op.kind = "delete" /\ op.pc = "admitted" /\ wk' = wk /\ cn' = cn
  BY DEF BeginDelete, Entered
<1>2. app \in UploadState /\ op \in Operation /\ Submitting(op) = 0
  BY <1>1 DEF UploadInv, AppInv, OperationOK, Submitting
<1>3. app.live \ {d} \in SUBSET Names
  BY <1>2 DEF UploadState
<1>4. t \in UploadState
  BY <1>2, <1>3 DEF UploadState
<1>5. /\ t.receipt = app.receipt /\ t.canon = app.canon /\ t.event = app.event /\ t.waiting = app.waiting
      /\ t.scheduled = app.scheduled /\ t.pending = app.pending /\ t.last = app.last /\ t.born = app.born
      /\ t.job = app.job /\ t.row = app.row
  BY <1>2 DEF UploadState
<1>6. AppInv(t, wk, NoOp, cn) /\ AppInv(app, wk, NoOp, cn)
  <2>1. AppInv(app, wk, NoOp, cn)
    BY <1>2, OperationEnds DEF UploadInv
  <2> HIDE DEF t
  <2> QED
    BY <2>1, <1>4, <1>5, LikeKeeps
<1>7. app' \in {app, t}
  BY DEF BeginDelete
<1>8. AppInv(app', wk, NoOp, cn)
  BY <1>6, <1>7
<1>9. CASE op' = NoOp
  BY <1>1, <1>5, <1>7, <1>8, <1>9 DEF UploadInv
<1>10. CASE op' = [op EXCEPT !.pc = "running", !.doc = d]
  <2>1. op' \in Operation /\ op'.kind = "delete" /\ op'.pc = "running"
    BY <1>1, <1>2, <1>10 DEF Operation, Names
  <2>2. OperationOK(app', wk, op', cn)
    BY <2>1 DEF OperationOK
  <2>3. Counted(app', wk, op')
    BY <2>1, <1>8, Idle DEF AppInv, Counted, Submitting
  <2>4. AppInv(app', wk, op', cn)
    BY <2>2, <2>3, <1>8 DEF AppInv
  <2> QED
    BY <2>4, <1>1, <1>5, <1>7 DEF UploadInv
<1> QED
  BY <1>9, <1>10 DEF BeginDelete

(* _restore_cleanup_leases keeps it.                                       *)
LEMMA RestoreLeasesKeeps ==
    ASSUME UploadInv, RestoreLeases
    PROVE  UploadInv' /\ app'.waiting = app.waiting
<1>1. wk' = wk /\ cn' = cn /\ op' = op
  BY DEF RestoreLeases
<1>2. app \in UploadState
  BY DEF UploadInv, AppInv
<1>3. PICK W, leased : app' = [app EXCEPT !.file = @ \ {app.lease[i] : i \in leased \ W},
                                          !.lease = [i \in Ids |-> IF i \in W THEN @[i] ELSE 0]]
  BY DEF RestoreLeases
<1> DEFINE file == app.file \ {app.lease[i] : i \in leased \ W}
           lease == [i \in Ids |-> IF i \in W THEN app.lease[i] ELSE 0]
<1>4. file \in SUBSET Paths /\ lease \in [Ids -> Paths \cup {0}]
  BY <1>2 DEF UploadState
<1>5. app' = [app EXCEPT !.file = file, !.lease = lease]
  BY <1>2, <1>3 DEF UploadState
<1> HIDE DEF file, lease
<1>6. app' \in UploadState
  BY <1>2, <1>4, <1>5 DEF UploadState
<1>7. /\ app'.receipt = app.receipt /\ app'.canon = app.canon /\ app'.event = app.event /\ app'.waiting = app.waiting
      /\ app'.scheduled = app.scheduled /\ app'.pending = app.pending /\ app'.last = app.last /\ app'.born = app.born
      /\ app'.job = app.job /\ app'.row = app.row
  BY <1>2, <1>5 DEF UploadState
<1>8. AppInv(app', wk, op, cn)
  BY <1>6, <1>7, LikeKeeps DEF UploadInv
<1> QED
  BY <1>1, <1>7, <1>8 DEF UploadInv

-----------------------------------------------------------------------------
(* Setting a job or an event *)

(* The conditions under which job i may be set to `job`.                   *)
Settable(s, w, o, c, i, job) ==
    /\ i \in Paths /\ i <= s.last /\ job \in UploadJob /\ Fits(s, i, job.status)
    /\ s.row[i].status \in Lost => job.status \notin Open
    /\ job.status \in Open /\ Won(s, i) => Registering(w, i)
    /\ i \in Busy(s, w) => job.status # "unknown" /\ (job.status \in Lost => s.event[i] = "set")
    /\ o.pc = "running" /\ o.kind # "delete" => i # o.id
    /\ c # NoCancel /\ c.id = i /\ Sure(s, i) =>
          s.canon[i].status \in Final \/ job.status = "unknown" \/ Registering(w, i)

(* Under those conditions it keeps the invariant.                          *)
LEMMA JobSet ==
    ASSUME NEW s, NEW w, NEW o, NEW c, AppInv(s, w, o, c), NEW i, NEW job, Settable(s, w, o, c, i, job)
    PROVE  AppInv([s EXCEPT !.job[i] = job], w, o, c)
<1> DEFINE t == [s EXCEPT !.job[i] = job]
<1>0. s \in UploadState /\ i \in Paths /\ i \in Ids /\ job \in UploadJob /\ Paths \subseteq Ids
  BY Sizes DEF AppInv, Settable
<1>1. t \in UploadState
  BY <1>0 DEF UploadState
<1>2. /\ t.receipt = s.receipt /\ t.canon = s.canon /\ t.event = s.event /\ t.row = s.row /\ t.born = s.born
      /\ t.waiting = s.waiting /\ t.scheduled = s.scheduled /\ t.pending = s.pending /\ t.last = s.last
      /\ t.job = [s.job EXCEPT ![i] = job]
  BY <1>0 DEF UploadState
<1>3. t.job[i] = job /\ \A j \in Ids : j # i => t.job[j] = s.job[j]
  BY <1>0, <1>2 DEF UploadState
<1>n. s.last \in Int /\ i \in Int
  BY <1>0, Sizes DEF UploadState
<1> HIDE DEF t
<1>4. ASSUME NEW j \in Paths PROVE JobOK(t, w, j)
  <2>1. JobOK(s, w, j)
    BY DEF AppInv
  <2>2. CASE j # i
    <3>1. t.job[j] = s.job[j]
      BY <2>2, <1>0, <1>3
    <3> QED
      BY <3>1, <2>1, <1>2 DEF JobOK, Fits, Won, Sure, Virgin, Busy
  <2>3. CASE j = i
    <3>1. ~(t.last < i)
      BY <1>2, <1>n DEF Settable
    <3>2. /\ Fits(t, i, t.job[i].status) /\ Fits(t, i, t.row[i].status) /\ Fits(t, i, t.canon[i].status)
          /\ t.row[i].status \in Lost => t.job[i].status \notin Open
          /\ t.job[i].status \in Open /\ Won(t, i) => Registering(w, i)
      BY <2>1, <2>3, <1>2, <1>3 DEF JobOK, Fits, Won, Sure, Settable
    <3>3. i \in Busy(t, w) =>
             /\ ~Won(t, i) /\ t.job[i].status # "unknown"
             /\ t.job[i].status \in Lost \/ t.row[i].status \in Lost => t.event[i] = "set"
      BY <2>1, <2>3, <1>2, <1>3 DEF JobOK, Won, Sure, Busy, Settable
    <3> QED
      BY <2>3, <3>1, <3>2, <3>3 DEF JobOK
  <2> QED
    BY <2>2, <2>3
<1>5. Sides(t)
  BY <1>0, <1>2, <1>3 DEF AppInv, Sides, Synthetic
<1>6. WorkerOK(t, w)
  BY <1>2 DEF AppInv, WorkerOK, Fits, Won, Sure
<1>7. OperationOK(t, w, o, c)
  BY <1>0, <1>2, <1>3 DEF AppInv, OperationOK, Settable, Virgin
<1>8. CancelOK(t, w, c)
  <2>1. c # NoCancel => c.id \in Paths
    BY Sizes DEF AppInv, CancelOK, UploadState, Paths
  <2>2. CancelOK(s, w, c)
    BY DEF AppInv
  <2>3. CASE c = NoCancel
    BY <2>2, <2>3 DEF CancelOK
  <2>4. CASE c # NoCancel /\ c.id = i
    BY <2>2, <2>4, <1>2, <1>3 DEF CancelOK, Settable, Busy, Won, Sure
  <2>5. CASE c # NoCancel /\ c.id # i
    <3>1. t.job[c.id] = s.job[c.id]
      BY <2>1, <2>5, <1>0, <1>3
    <3> QED
      BY <3>1, <2>2, <2>5, <1>2 DEF CancelOK, Busy, Won, Sure
  <2> QED
    BY <2>3, <2>4, <2>5
<1>9. Counted(t, w, o)
  BY <1>2 DEF AppInv, Counted
<1>10. AppInv(t, w, o, c)
  BY <1>1, <1>4, <1>5, <1>6, <1>7, <1>8, <1>9 DEF AppInv
<1> QED
  BY <1>10 DEF t

(* Events may be set; an event of a job that is yet to be ingested may not *)
(* be cleared.                                                             *)
LEMMA EventsSet ==
    ASSUME NEW s, NEW w, NEW o, NEW c, AppInv(s, w, o, c), NEW e \in [Ids -> {"none", "clear", "set"}],
           \A i \in Busy(s, w) : e[i] \in {s.event[i], "set"}
    PROVE  AppInv([s EXCEPT !.event = e], w, o, c)
<1> DEFINE t == [s EXCEPT !.event = e]
<1>0. s \in UploadState
  BY DEF AppInv
<1>1. t \in UploadState
  BY <1>0 DEF UploadState
<1>2. /\ t.receipt = s.receipt /\ t.canon = s.canon /\ t.event = e /\ t.row = s.row /\ t.born = s.born
      /\ t.waiting = s.waiting /\ t.scheduled = s.scheduled /\ t.pending = s.pending /\ t.last = s.last
      /\ t.job = s.job
  BY <1>0 DEF UploadState
<1> HIDE DEF t
<1>3. ASSUME NEW i \in Paths PROVE JobOK(t, w, i)
  <2>1. JobOK(s, w, i) /\ (i \in Busy(s, w) => e[i] \in {s.event[i], "set"})
    BY DEF AppInv
  <2> QED
    BY <2>1, <1>2 DEF JobOK, Fits, Won, Sure, Virgin, Busy
<1>4. Sides(t) /\ WorkerOK(t, w) /\ OperationOK(t, w, o, c) /\ Counted(t, w, o)
  <2>1. Sides(t)
    BY <1>2 DEF AppInv, Sides
  <2>2. WorkerOK(t, w)
    BY <1>2 DEF AppInv, WorkerOK, Fits, Won, Sure
  <2>3. OperationOK(t, w, o, c)
    BY <1>2 DEF AppInv, OperationOK, Virgin
  <2>4. Counted(t, w, o)
    BY <1>2 DEF AppInv, Counted
  <2> QED
    BY <2>1, <2>2, <2>3, <2>4
<1>5. CancelOK(t, w, c)
  <2>1. CancelOK(s, w, c) /\ (c.id \in Busy(s, w) => e[c.id] \in {s.event[c.id], "set"})
    BY DEF AppInv
  <2> QED
    BY <2>1, <1>2 DEF CancelOK, Won, Sure, Busy
<1>6. AppInv(t, w, o, c)
  BY <1>1, <1>3, <1>4, <1>5 DEF AppInv
<1> QED
  BY <1>6 DEF t

-----------------------------------------------------------------------------
(* Signals, and the future a worker takes *)

(* Signalling jobs at shutdown keeps the invariant.                        *)
LEMMA SignalledKeeps ==
    ASSUME NEW s, NEW w, NEW o, NEW c, AppInv(s, w, o, c), NEW W
    PROVE  AppInv(Signalled(s, W), w, o, c) /\ Signalled(s, W).waiting = s.waiting
<1> DEFINE e == [i \in Ids |-> IF i \in W /\ s.event[i] # "none" THEN "set" ELSE s.event[i]]
<1>1. s \in UploadState
  BY DEF AppInv
<1>2. e \in [Ids -> {"none", "clear", "set"}]
  BY <1>1 DEF UploadState
<1>3. Busy(s, w) \subseteq Ids
  <2>1. Range(s.waiting) \subseteq Ids
    BY <1>1 DEF Range, UploadState
  <2>2. Starting(w) \subseteq Ids
    <3>1. w.pc # "idle" => w.id \in 1..s.last
      BY DEF AppInv, WorkerOK
    <3>2. s.last \in 0..MaxIds
      BY <1>1 DEF UploadState
    <3>3. w.pc # "idle" => w.id \in Ids
      BY <3>1, <3>2, Sizes DEF Ids
    <3> QED
      BY <3>3 DEF Starting
  <2> QED
    BY <2>1, <2>2 DEF Busy
<1>4. \A i \in Busy(s, w) : e[i] \in {s.event[i], "set"}
  BY <1>3
<1>5. Signalled(s, W) = [s EXCEPT !.event = e]
  BY <1>1 DEF Signalled, UploadState
<1> HIDE DEF e
<1>6. AppInv([s EXCEPT !.event = e], w, o, c)
  BY <1>2, <1>4, EventsSet
<1>7. [s EXCEPT !.event = e].waiting = s.waiting
  BY <1>1 DEF UploadState
<1> QED
  BY <1>5, <1>6, <1>7

(* The same for one event.                                                 *)
LEMMA EventSet ==
    ASSUME NEW s, NEW w, NEW o, NEW c, AppInv(s, w, o, c), NEW i \in Ids, NEW x \in {"none", "clear", "set"},
           x = "set" \/ i \notin Busy(s, w)
    PROVE  AppInv([s EXCEPT !.event[i] = x], w, o, c)
<1> DEFINE e == [s.event EXCEPT ![i] = x]
<1>1. s \in UploadState
  BY DEF AppInv
<1>2. e \in [Ids -> {"none", "clear", "set"}]
  BY <1>1 DEF UploadState
<1>3. \A j \in Busy(s, w) : e[j] \in {s.event[j], "set"}
  BY <1>1 DEF UploadState
<1>4. [s EXCEPT !.event[i] = x] = [s EXCEPT !.event = e]
  BY <1>1 DEF UploadState
<1> HIDE DEF e
<1> QED
  BY <1>2, <1>3, <1>4, EventsSet

(* The first lock section of cancel keeps the invariant.                   *)
LEMMA SignalCancelKeeps ==
    ASSUME UploadInv, NEW i \in Paths, SignalCancel(i)
    PROVE  UploadInv'
<1>1. /\ cn = NoCancel /\ op.pc # "running" /\ app.job[i].status # "none" /\ app.job[i].status \notin Final
      /\ app' = [app EXCEPT !.event[i] = "set"] /\ cn' = [id |-> i, job |-> app.job[i]]
      /\ wk' = wk /\ op' = op
  BY DEF SignalCancel, LockFree, Known
<1>2. AppInv(app', wk, op, cn)
  BY <1>1, Sizes, EventSet DEF UploadInv
<1>3. app \in UploadState /\ i \in Ids
  BY Sizes DEF UploadInv, AppInv
<1>4. app'.job = app.job /\ app'.event[i] = "set" /\ app'.last = app.last /\ app'.receipt = app.receipt
  BY <1>1, <1>3 DEF UploadState
<1>5. JobOK(app', wk, i)
  BY <1>2 DEF AppInv
<1>6. i \in 1..app'.last
  <2>1. ~(app'.last < i)
    BY <1>1, <1>4, <1>5 DEF JobOK, Virgin
  <2> QED
    BY <2>1, <1>3, <1>4, Sizes DEF UploadState, Paths
<1>7. cn' \in Canceller /\ cn'.id = i /\ cn'.job.status \notin Final
  BY <1>1, <1>3 DEF UploadState, Canceller
<1>8. Sure(app', i) => app'.job[i].status = "unknown" \/ Registering(wk, i)
  <2>1. app.job[i].status \in Status
    BY <1>3 DEF UploadState, UploadJob
  <2>2. app.job[i].status \in Open \cup {"unknown"}
    BY <2>1, <1>1 DEF Status, Open, Final, Recoverable
  <2> QED
    BY <2>2, <1>4, <1>5 DEF JobOK, Sure
<1>9. CancelOK(app', wk, cn')
  BY <1>4, <1>6, <1>7, <1>8 DEF CancelOK
<1>10. OperationOK(app', wk, op, cn')
  BY <1>1, <1>2 DEF AppInv, OperationOK
<1>11. AppInv(app', wk, op, cn')
  BY <1>2, <1>9, <1>10 DEF AppInv
<1> QED
  BY <1>1, <1>11 DEF UploadInv

(* The first element and the others.                                       *)
LEMMA TailFacts ==
    ASSUME NEW X, NEW q \in Seq(X), q # << >>
    PROVE  /\ Range(q) = {Head(q)} \cup Range(Tail(q))
           /\ IsInjective(q) => IsInjective(Tail(q)) /\ Head(q) \notin Range(Tail(q))
<1> DEFINE u == Tail(q)
           n == Len(q) - 1
<1>1. n \in Nat /\ DOMAIN u = 1..n /\ DOMAIN q = 1..(n + 1) /\ Head(q) = q[1]
  OBVIOUS
<1>2. \A k \in 1..n : u[k] = q[k + 1]
  OBVIOUS
<1> HIDE DEF u, n
<1>3. \A k \in 1..n : k + 1 \in 1..(n + 1) /\ k + 1 # 1
  BY <1>1
<1>4. \A k \in 1..(n + 1) : k = 1 \/ (k - 1 \in 1..n /\ u[k - 1] = q[k])
  BY <1>1, <1>2
<1>5. 1 \in 1..(n + 1)
  BY <1>1
<1>6. Range(q) = {Head(q)} \cup Range(u)
  <2>1. Range(q) \subseteq {Head(q)} \cup Range(u)
    BY <1>1, <1>4 DEF Range
  <2>2. Range(u) \subseteq Range(q)
    BY <1>1, <1>2, <1>3 DEF Range
  <2>3. Head(q) \in Range(q)
    BY <1>1, <1>5 DEF Range
  <2> QED
    BY <2>1, <2>2, <2>3
<1>7. ASSUME IsInjective(q) PROVE IsInjective(u) /\ Head(q) \notin Range(u)
  <2>1. Head(q) \notin Range(u)
    BY <1>1, <1>2, <1>3, <1>5, <1>7 DEF Range, IsInjective
  <2>2. ASSUME NEW k \in 1..n, NEW l \in 1..n, u[k] = u[l] PROVE k = l
    <3>1. q[k + 1] = q[l + 1]
      BY <1>2, <2>2
    <3>2. k + 1 = l + 1
      BY <3>1, <1>1, <1>3, <1>7 DEF IsInjective
    <3> QED
      BY <3>2
  <2> QED
    BY <2>1, <2>2, <1>1 DEF IsInjective
<1> QED
  BY <1>6, <1>7 DEF u

(* The executor takes a future.                                            *)
LEMMA TakeFutureKeeps ==
    ASSUME UploadInv, TakeFuture
    PROVE  UploadInv'
<1> DEFINE q == app.waiting
           i == Head(q)
<1>1. /\ wk = NoWork /\ q # << >> /\ app' = [app EXCEPT !.waiting = Tail(q)] /\ op' = op /\ cn' = cn
      /\ wk' = [NoWork EXCEPT !.pc = "start", !.id = i, !.path = i]
  BY DEF TakeFuture, UploadInv, AppInv, UploadState
<1>2. app \in UploadState /\ q \in Seq(Ids)
  BY DEF UploadInv, AppInv, UploadState
<1>q. IsInjective(q) /\ Range(q) \subseteq 1..app.last /\ app.last \in 0..MaxIds
  BY <1>2 DEF UploadInv, AppInv, Counted, UploadState
<1>t. Tail(q) \in Seq(Ids) /\ Len(Tail(q)) = Len(q) - 1 /\ Len(q) \in Nat /\ Len(q) > 0 /\ i = q[1]
  BY <1>1, <1>2
<1>3. i \notin Range(Tail(q)) /\ Range(q) = {i} \cup Range(Tail(q)) /\ IsInjective(Tail(q)) /\ i \in Range(q)
  <2> HIDE DEF q
  <2> QED
    BY <1>1, <1>2, <1>q, TailFacts
<1> HIDE DEF i
<1>4. i \in Paths /\ i \in 1..app.last
  BY <1>q, <1>3, Sizes DEF Paths
<1>5. /\ app'.receipt = app.receipt /\ app'.canon = app.canon /\ app'.event = app.event /\ app'.row = app.row
      /\ app'.born = app.born /\ app'.waiting = Tail(q) /\ app'.scheduled = app.scheduled
      /\ app'.pending = app.pending /\ app'.last = app.last /\ app'.job = app.job
  BY <1>1, <1>2 DEF UploadState
<1>6. app' \in UploadState
  BY <1>1, <1>2, <1>t DEF UploadState
<1>7. wk' \in Worker /\ wk'.pc = "start" /\ wk'.id = i /\ wk'.path = i /\ wk'.result = NoJob
  BY <1>1, <1>4, Idle DEF Worker, NoWork
<1>8. Busy(app', wk') = Busy(app, wk) /\ Starting(wk') = {i} /\ Held(wk') = {i}
  BY <1>1, <1>3, <1>5, <1>7, Idle DEF Busy, Starting, Held
<1>9. ASSUME NEW j \in Paths PROVE JobOK(app', wk', j)
  <2>1. JobOK(app, wk, j) /\ ~Registering(wk, j)
    BY <1>1, Idle DEF UploadInv, AppInv, Registering
  <2> QED
    BY <2>1, <1>5, <1>8 DEF JobOK, Fits, Won, Sure, Virgin
<1>10. Sides(app')
  BY <1>5 DEF UploadInv, AppInv, Sides
<1>11. WorkerOK(app', wk')
  BY <1>3, <1>4, <1>5, <1>7 DEF WorkerOK
<1>12. OperationOK(app', wk', op, cn)
  BY <1>3, <1>5, <1>7 DEF UploadInv, AppInv, OperationOK, Virgin
<1>13. CancelOK(app', wk', cn)
  BY <1>1, <1>5, <1>8, Idle DEF UploadInv, AppInv, CancelOK, Won, Sure, Registering
<1>14. Counted(app', wk', op)
  <2>1. app'.scheduled = Range(app'.waiting) \cup Held(wk')
    BY <1>1, <1>3, <1>5, <1>8, Idle DEF UploadInv, AppInv, Counted
  <2>2. app'.pending = Len(app'.waiting) + (IF wk'.pc = "idle" THEN 0 ELSE 1) + Submitting(op)
    <3>1. Submitting(op) \in {0, 1}
      BY DEF Submitting
    <3>2. app.pending = Len(q) + Submitting(op)
      BY <1>1, <1>t, <3>1, Idle DEF UploadInv, AppInv, Counted
    <3> QED
      BY <1>5, <1>7, <1>t, <3>1, <3>2
  <2> QED
    BY <2>1, <2>2, <1>3, <1>5, <1>q DEF UploadInv, AppInv, Counted
<1> QED
  BY <1>1, <1>6, <1>9, <1>10, <1>11, <1>12, <1>13, <1>14 DEF UploadInv, AppInv

-----------------------------------------------------------------------------
(* The worker thread *)

(* The worker goes on with its job.                                        *)
LEMMA WorkerMoves ==
    ASSUME NEW s, NEW w, NEW o, NEW c, AppInv(s, w, o, c), NEW v, WorkerOK(s, v),
           w.pc # "idle", v.pc # "idle", v.id = w.id, Starting(v) \subseteq Starting(w),
           w.pc = "register" => v.pc = "register"
    PROVE  AppInv(s, v, o, c)
<1>1. Busy(s, v) \subseteq Busy(s, w) /\ \A i : Registering(w, i) => Registering(v, i)
  BY DEF Busy, Registering
<1>2. ASSUME NEW i \in Paths PROVE JobOK(s, v, i)
  BY <1>1 DEF AppInv, JobOK
<1>3. OperationOK(s, v, o, c)
  BY DEF AppInv, OperationOK
<1>4. CancelOK(s, v, c)
  BY <1>1 DEF AppInv, CancelOK
<1>5. Counted(s, v, o)
  BY DEF AppInv, Counted, Held
<1> QED
  BY <1>2, <1>3, <1>4, <1>5 DEF AppInv

(* What the invariant says of the worker's job.                            *)
LEMMA WorkerFacts ==
    ASSUME UploadInv, wk.pc # "idle"
    PROVE  /\ wk.id \in Paths /\ wk.id \in Ids /\ wk.id \in 1..app.last /\ wk.id <= app.last /\ wk.path = wk.id
           /\ wk.id \notin Range(app.waiting) /\ wk \in Worker /\ app \in UploadState
           /\ JobOK(app, wk, wk.id)
           /\ op.pc = "running" /\ op.kind # "delete" => wk.id # op.id
<1>1. wk.id \in 1..app.last /\ app \in UploadState /\ wk \in Worker /\ wk.path = wk.id /\ wk.id \notin Range(app.waiting)
  BY DEF UploadInv, AppInv, WorkerOK
<1>2. app.last \in 0..MaxIds
  BY <1>1 DEF UploadState
<1>3. wk.id \in Paths /\ wk.id \in Ids /\ wk.id <= app.last
  BY <1>1, <1>2, Sizes DEF Paths
<1>4. JobOK(app, wk, wk.id)
  BY <1>3 DEF UploadInv, AppInv
<1>5. op.pc = "running" /\ op.kind # "delete" => wk.id # op.id
  BY DEF UploadInv, AppInv, OperationOK
<1> QED
  BY <1>1, <1>3, <1>4, <1>5

(* The worker enters the guard.                                            *)
LEMMA EnterAttemptKeeps ==
    ASSUME UploadInv, EnterAttempt
    PROVE  UploadInv'
<1> DEFINE to == IF wk.result = NoJob THEN "ingest" ELSE "register"
<1>1. /\ wk.pc = "attempt" /\ wk' = [wk EXCEPT !.pc = to] /\ app' = app /\ op' = op /\ cn' = cn
  BY DEF EnterAttempt, Working
<1>2. /\ wk \in Worker /\ wk.id \in 1..app.last /\ wk.path = wk.id /\ wk.id \notin Range(app.waiting)
      /\ JobOK(app, wk, wk.id)
  BY <1>1, WorkerFacts
<1>3. wk' \in Worker /\ wk'.pc = to /\ wk'.id = wk.id /\ wk'.path = wk.path /\ wk'.result = wk.result
  BY <1>1, <1>2 DEF Worker
<1>4. wk.result = NoJob \/ wk.result.status = "cancelled"
  BY <1>1 DEF UploadInv, AppInv, WorkerOK
<1>5. ~Won(app, wk.id)
  BY <1>1, <1>2 DEF JobOK, Busy, Starting
<1>6. WorkerOK(app, wk')
  <2>1. to = "register" => wk'.result.status = "cancelled"
    BY <1>3, <1>4
  <2>2. Fits(app, wk.id, "cancelled") /\ "cancelled" \in Answered
    BY <1>5 DEF Fits, Sure, Answered, Final
  <2>3. to \in {"ingest", "register"}
    OBVIOUS
  <2> HIDE DEF to
  <2> QED
    BY <2>1, <2>2, <2>3, <1>2, <1>3, <1>5 DEF WorkerOK, Sure
<1>7. Starting(wk') \subseteq Starting(wk)
  BY <1>1, <1>3 DEF Starting
<1>p. wk'.pc # "idle" /\ wk.pc # "idle" /\ wk.pc # "register"
  BY <1>1, <1>3
<1>8. AppInv(app, wk', op, cn)
  BY <1>p, <1>3, <1>6, <1>7, WorkerMoves DEF UploadInv
<1> QED
  BY <1>1, <1>8 DEF UploadInv

(* The first section of _complete_async_upload, which reads the event of   *)
(* the job.                                                                *)
LEMMA StartUploadKeeps ==
    ASSUME UploadInv, StartUpload
    PROVE  UploadInv' /\ app'.waiting = app.waiting
<1> DEFINE i == wk.id
           status == IF app.event[i] = "set" THEN "cancelled" ELSE "validating"
           job == [app.job[i] EXCEPT !.status = status]
           b == [app EXCEPT !.job[i] = job]
<1>1. wk.pc = "start" /\ op' = op /\ cn' = cn
  BY DEF StartUpload
<1>2. /\ i \in Paths /\ i \in Ids /\ i \in 1..app.last /\ i <= app.last /\ wk.path = i
      /\ i \notin Range(app.waiting) /\ wk \in Worker /\ app \in UploadState
      /\ JobOK(app, wk, i)
      /\ op.pc = "running" /\ op.kind # "delete" => i # op.id
  BY <1>1, WorkerFacts
<1>3. i \in Busy(app, wk)
  BY <1>1 DEF Busy, Starting
<1>4. job \in UploadJob /\ job.status = status
  <2>1. app.job[i] \in UploadJob /\ status \in Status
    BY <1>2 DEF UploadState, Status, Final, Recoverable
  <2> HIDE DEF status, i
  <2> QED
    BY <2>1 DEF UploadJob
<1>5. Settable(app, wk, op, cn, i, job)
  <2> HIDE DEF job, i
  <2>1. ~Won(app, i) /\ (app.row[i].status \in Lost => app.event[i] = "set")
    BY <1>2, <1>3 DEF JobOK
  <2>2. Fits(app, i, job.status)
    BY <2>1, <1>4, Statuses DEF Fits, Sure
  <2>3. job.status \in Open => app.event[i] # "set"
    BY <1>4 DEF Open
  <2>4. job.status # "unknown" /\ (job.status \in Lost => app.event[i] = "set")
    BY <1>4 DEF Lost
  <2> QED
    BY <2>1, <2>2, <2>3, <2>4, <1>2, <1>4 DEF Settable, Sure
<1>6. AppInv(b, wk, op, cn)
  <2> HIDE DEF job, i
  <2> QED
    BY <1>5, JobSet DEF UploadInv
<1>7. CASE i \in Known(app)
  <2>1. app' \in Journaled(b, i, job, wk.path) /\ wk' = [wk EXCEPT !.pc = "attempt", !.result = IF status = "cancelled" THEN job ELSE NoJob]
    BY <1>7 DEF StartUpload
  <2>2. b \in Near(b) /\ b.job[i] = job /\ b.waiting = app.waiting
    BY <1>2, <1>6, NearSelf DEF UploadState
  <2>3. May(b, i, job)
    BY <1>2, <1>4, <2>2 DEF May, Synthetic
  <2>4. app' \in Near(b)
    <3> HIDE DEF b, job, i
    <3> QED
      BY <2>1, <2>2, <2>3, <1>2, JournaledNear
  <2>5. AppInv(app', wk, op, cn)
    BY <2>4, <1>6, NearKeeps
  <2>6. wk' \in Worker /\ wk'.pc = "attempt" /\ wk'.id = i /\ wk'.path = wk.path /\ (wk'.result = NoJob \/ wk'.result.status = "cancelled")
    <3> DEFINE x == IF status = "cancelled" THEN job ELSE NoJob
    <3>1. x \in UploadJob /\ (x = NoJob \/ x.status = "cancelled")
      BY <1>4, Sizes
    <3> HIDE DEF x
    <3>2. wk' = [wk EXCEPT !.pc = "attempt", !.result = x]
      BY <2>1 DEF x
    <3> QED
      BY <3>1, <3>2, <1>2 DEF Worker
  <2>7. WorkerOK(app', wk')
    BY <2>5, <2>6, <1>1 DEF AppInv, WorkerOK
  <2>8. Starting(wk') \subseteq Starting(wk)
    BY <2>6, <1>1 DEF Starting
  <2>9. AppInv(app', wk', op, cn)
    BY <2>5, <2>6, <2>7, <2>8, <1>1, WorkerMoves
  <2> HIDE DEF b
  <2>10. app'.waiting = app.waiting
    BY <2>2, <2>4 DEF Near, Tidy
  <2> QED
    BY <2>9, <2>10, <1>1 DEF UploadInv
<1>8. CASE i \notin Known(app)
  <2>1. app' = app /\ wk' = [wk EXCEPT !.pc = "attempt"]
    BY <1>8 DEF StartUpload
  <2>r. wk.result = NoJob
    BY <1>1 DEF UploadInv, AppInv, WorkerOK
  <2>2. wk' \in Worker /\ wk'.pc = "attempt" /\ wk'.id = i /\ wk'.path = wk.path /\ wk'.result = wk.result
    BY <2>1, <1>2 DEF Worker
  <2>3. WorkerOK(app, wk')
    BY <2>2, <2>r, <1>1 DEF UploadInv, AppInv, WorkerOK
  <2>4. Starting(wk') \subseteq Starting(wk)
    BY <2>2, <1>1 DEF Starting
  <2>5. AppInv(app, wk', op, cn)
    BY <2>2, <2>3, <2>4, <1>1, WorkerMoves DEF UploadInv
  <2> QED
    BY <2>1, <2>5, <1>1 DEF UploadInv
<1> QED
  BY <1>7, <1>8

(* The last section of _complete_async_upload, which frees the slot.       *)
LEMMA FinishUploadKeeps ==
    ASSUME UploadInv, FinishUpload
    PROVE  UploadInv' /\ app'.waiting = app.waiting
<1> DEFINE i == wk.id
           e == [app.event EXCEPT ![i] = "none"]
<1>1. /\ wk.pc = "finish" /\ wk' = NoWork /\ op' = op /\ cn' = cn
      /\ app' = [app EXCEPT !.event[i] = "none", !.scheduled = @ \ {i}, !.pending = @ - 1]
  BY DEF FinishUpload
<1>2. i \in Ids /\ i \in Paths /\ i \notin Range(app.waiting) /\ app \in UploadState
  BY <1>1, WorkerFacts
<1>3. e \in [Ids -> {"none", "clear", "set"}] /\ app.scheduled \ {i} \in SUBSET Ids /\ app.pending - 1 \in Int
  BY <1>2 DEF UploadState
<1>4. app' = [app EXCEPT !.event = e, !.scheduled = app.scheduled \ {i}, !.pending = app.pending - 1]
  BY <1>1, <1>2 DEF UploadState
<1> HIDE DEF e
<1>5. app' \in UploadState
  BY <1>2, <1>3, <1>4 DEF UploadState
<1>6. /\ app'.receipt = app.receipt /\ app'.canon = app.canon /\ app'.event = e /\ app'.row = app.row
      /\ app'.born = app.born /\ app'.waiting = app.waiting /\ app'.scheduled = app.scheduled \ {i}
      /\ app'.pending = app.pending - 1 /\ app'.last = app.last /\ app'.job = app.job
  BY <1>2, <1>4 DEF UploadState
<1>7. \A j \in Ids : j # i => e[j] = app.event[j]
  BY <1>2 DEF e, UploadState
<1>8. Busy(app', wk') = Range(app.waiting) /\ Busy(app, wk) = Range(app.waiting)
  BY <1>1, <1>6, Idle DEF Busy, Starting
<1>9. ASSUME NEW j \in Paths PROVE JobOK(app', wk', j)
  <2>1. JobOK(app, wk, j) /\ ~Registering(wk, j)
    BY <1>1 DEF UploadInv, AppInv, Registering
  <2>2. j \in Busy(app', wk') => j \in Busy(app, wk) /\ e[j] = app.event[j]
    BY <1>2, <1>7, <1>8, Sizes
  <2> QED
    BY <2>1, <2>2, <1>6 DEF JobOK, Fits, Won, Sure, Virgin
<1>10. Sides(app')
  BY <1>6 DEF UploadInv, AppInv, Sides
<1>11. WorkerOK(app', wk')
  BY <1>1, Idle DEF WorkerOK
<1>12. OperationOK(app', wk', op, cn)
  BY <1>1, <1>6, Idle, Sizes DEF UploadInv, AppInv, OperationOK, Virgin, Paths
<1>13. CancelOK(app', wk', cn)
  <2>1. CancelOK(app, wk, cn) /\ ~Registering(wk, cn.id)
    BY <1>1 DEF UploadInv, AppInv, Registering
  <2>2. cn.id \in Busy(app', wk') => cn.id \in Busy(app, wk) /\ e[cn.id] = app.event[cn.id]
    <3>1. Range(app.waiting) \subseteq Ids
      BY <1>2 DEF UploadState, Range
    <3> QED
      BY <3>1, <1>2, <1>7, <1>8
  <2> QED
    BY <2>1, <2>2, <1>6 DEF CancelOK, Won, Sure
<1>14. Counted(app', wk', op)
  <2>1. Counted(app, wk, op)
    BY DEF UploadInv, AppInv
  <2>2. app'.scheduled = Range(app'.waiting) \cup Held(wk')
    BY <2>1, <1>1, <1>2, <1>6, Idle DEF Counted, Held
  <2>3. Len(app.waiting) \in Nat /\ Submitting(op) \in {0, 1} /\ app.pending \in Int
    BY <1>2 DEF UploadState, Submitting
  <2>4. app.pending = Len(app.waiting) + 1 + Submitting(op) /\ app.pending <= MaxJobs
    BY <2>1, <1>1 DEF Counted
  <2>5. app'.pending = Len(app'.waiting) + 0 + Submitting(op) /\ app'.pending <= MaxJobs
    BY <2>3, <2>4, <1>6, Sizes
  <2> QED
    BY <2>1, <2>2, <2>5, <1>1, <1>6, Idle DEF Counted
<1> QED
  BY <1>1, <1>5, <1>6, <1>9, <1>10, <1>11, <1>12, <1>13, <1>14 DEF UploadInv, AppInv

-----------------------------------------------------------------------------
(* The answers of the publication authority *)

(* Nothing but the receipts, the pipeline's jobs and the library differs.  *)
Judged(s, t, i) ==
    /\ t \in UploadState
    /\ t.event = s.event /\ t.row = s.row /\ t.born = s.born /\ t.waiting = s.waiting /\ t.job = s.job
    /\ t.scheduled = s.scheduled /\ t.pending = s.pending /\ t.last = s.last
    /\ t.path = s.path /\ t.retries = s.retries /\ t.file = s.file /\ t.asked = s.asked
    /\ \A j \in Ids : j # i => t.receipt[j] = s.receipt[j] /\ t.canon[j] = s.canon[j]

(* Such an answer: a receipt, the published documents and the pipeline's   *)
(* record of the job.                                                      *)
Judgement(s, i, r, L, job) == [s EXCEPT !.receipt[i] = r, !.live = L, !.canon[i] = job]

(* A judgement is an answer.                                               *)
LEMMA JudgedFrom ==
    ASSUME NEW s \in UploadState, NEW i \in Ids, NEW r \in Receipt, NEW job \in UploadJob, NEW L \in SUBSET Names
    PROVE  LET t == Judgement(s, i, r, L, job)
           IN  Judged(s, t, i) /\ t.receipt[i] = r /\ t.canon[i] = job
<1> DEFINE t == [s EXCEPT !.receipt[i] = r, !.live = L, !.canon[i] = job]
<1>1. t \in UploadState
  BY DEF UploadState
<1>2. /\ t.event = s.event /\ t.row = s.row /\ t.born = s.born /\ t.waiting = s.waiting /\ t.job = s.job
      /\ t.scheduled = s.scheduled /\ t.pending = s.pending /\ t.last = s.last
      /\ t.path = s.path /\ t.retries = s.retries /\ t.file = s.file /\ t.asked = s.asked
      /\ t.receipt = [s.receipt EXCEPT ![i] = r] /\ t.canon = [s.canon EXCEPT ![i] = job]
  BY DEF UploadState
<1>3. DOMAIN s.receipt = Ids /\ DOMAIN s.canon = Ids
  BY DEF UploadState
<1> HIDE DEF t
<1>4. Judged(s, t, i) /\ t.receipt[i] = r /\ t.canon[i] = job
  BY <1>1, <1>2, <1>3 DEF Judged
<1> QED
  BY <1>4 DEF t, Judgement

(* The pipeline's record of the job may be changed once more.              *)
LEMMA JudgedAgain ==
    ASSUME NEW s \in UploadState, NEW i \in Ids, NEW r, NEW job, NEW L
    PROVE  LET t == Judgement(s, i, r, L, job)
           IN  /\ \A new : [t EXCEPT !.canon[i] = new] = Judgement(s, i, r, L, new)
               /\ \A st : [t EXCEPT !.canon[i].status = st] = Judgement(s, i, r, L, [job EXCEPT !.status = st])
<1> DEFINE t == Judgement(s, i, r, L, job)
<1>1. DOMAIN s.canon = Ids /\ s.canon = [j \in Ids |-> s.canon[j]]
  BY DEF UploadState
<1>2. t = [s EXCEPT !.receipt = [s.receipt EXCEPT ![i] = r], !.live = L, !.canon = [s.canon EXCEPT ![i] = job]]
  BY DEF Judgement
<1>3. t.canon = [s.canon EXCEPT ![i] = job]
  BY <1>2 DEF UploadState
<1>4. ASSUME NEW new PROVE [t EXCEPT !.canon[i] = new] = Judgement(s, i, r, L, new)
  <2>1. [t.canon EXCEPT ![i] = new] = [s.canon EXCEPT ![i] = new]
    BY <1>1, <1>3
  <2>2. [t EXCEPT !.canon[i] = new] = [t EXCEPT !.canon = [s.canon EXCEPT ![i] = new]]
    BY <2>1
  <2> QED
    BY <2>2, <1>2 DEF Judgement, UploadState
<1>5. ASSUME NEW st PROVE [t EXCEPT !.canon[i].status = st] = Judgement(s, i, r, L, [job EXCEPT !.status = st])
  <2>1. [t EXCEPT !.canon[i].status = st] = [t EXCEPT !.canon[i] = [job EXCEPT !.status = st]]
    BY <1>1, <1>3
  <2> QED
    BY <2>1, <1>4
<1> QED
  BY <1>4, <1>5

(* So is no answer.                                                        *)
LEMMA JudgedSelf ==
    ASSUME NEW s \in UploadState, NEW i
    PROVE  Judged(s, s, i)
BY DEF Judged

(* The job that a receipt stands for.                                      *)
LEMMA ReceiptJobFacts ==
    ASSUME NEW r \in Receipt
    PROVE  /\ ReceiptJob(r) \in UploadJob /\ ReceiptJob(r).status \notin Open
           /\ r.outcome = "committed" => ReceiptJob(r).status = "published"
           /\ r.outcome = "pending" => ReceiptJob(r).status = "unknown"
           /\ r.outcome \notin {"committed", "pending"} => ReceiptJob(r).status = r.outcome
<1>1. r.outcome \in {"none", "pending", "committed", "failed", "cancelled"} /\ r.doc \in Names
  BY DEF Receipt
<1> DEFINE st == CASE r.outcome = "committed" -> "published"
                   [] r.outcome = "pending" -> "unknown"
                   [] OTHER -> r.outcome
<1>2. /\ st \in Status /\ st \notin Open
      /\ r.outcome = "committed" => st = "published"
      /\ r.outcome = "pending" => st = "unknown"
      /\ r.outcome \notin {"committed", "pending"} => st = r.outcome
  BY <1>1 DEF Status, Final, Recoverable, Open
<1>3. ReceiptJob(r) = [status |-> st, doc |-> r.doc, carried |-> Keep]
  BY DEF ReceiptJob
<1> HIDE DEF st
<1>4. ReceiptJob(r) \in UploadJob /\ ReceiptJob(r).status = st
  BY <1>1, <1>2, <1>3, Sizes DEF UploadJob, Keep
<1> QED
  BY <1>2, <1>4

(* An answer to an answer is an answer.                                    *)
LEMMA JudgedTwice ==
    ASSUME NEW s, NEW t, NEW u, NEW i, Judged(s, t, i), Judged(t, u, i)
    PROVE  Judged(s, u, i)
BY DEF Judged

(* Recovery resolves a pending receipt only, never takes one back, and     *)
(* answers with the job it stands for, or fails and leaves it unknown.     *)
(* Without a receipt a checkpoint asked to cancel is cancelled, or left.   *)
LEMMA RecoveredFacts ==
    ASSUME NEW s \in UploadState, NEW i \in Ids, NEW snapshot, NEW q \in Recovered(s, i, snapshot)
    PROVE  /\ q.ok \in BOOLEAN /\ Judged(s, q.s, i)
           /\ \/ q.s = s /\ (q.ok => s.receipt[i].outcome = "none" /\ s.asked[i] = {})
              \/ /\ s.receipt[i].outcome # "none" /\ q.s.receipt[i].outcome # "none"
                 /\ q.s.canon[i] = ReceiptJob(q.s.receipt[i]) \/ (~q.ok /\ q.s.canon[i].status = "unknown")
                 /\ q.s.receipt[i].outcome = s.receipt[i].outcome \/ s.receipt[i].outcome = "pending"
                 /\ q.s.receipt[i].doc = s.receipt[i].doc /\ q.s.receipt[i].unheard = s.receipt[i].unheard
              \/ /\ q.ok /\ s.receipt[i].outcome = "none" /\ s.asked[i] # {} /\ q.s.receipt[i] = s.receipt[i]
                 /\ q.s.canon[i].status \in {"cancelled", "validating"}
<1> DEFINE r == s.receipt[i]
           ends == IF r.outcome = "pending" THEN {"pending", "committed", "failed", "cancelled"}
                   ELSE {r.outcome}
           to(o) == Resolved(s, i, o)
           late(o) == [Resolved(s, i, o) EXCEPT !.canon[i].status = "unknown"]
           left(status) ==
               {[s EXCEPT !.canon[i] = [status |-> status, doc |-> d, carried |-> Keep]] : d \in s.asked[i]}
<1>1. r \in Receipt /\ r.doc \in Names /\ r.outcome \in {"none", "pending", "committed", "failed", "cancelled"}
      /\ r.unheard \in BOOLEAN
  <2>1. r \in Receipt
    BY DEF UploadState
  <2> QED
    BY <2>1 DEF Receipt
<1>2. \/ q \in Not({s})
      \/ r.outcome = "none" /\ s.asked[i] = {} /\ q \in Ok({s})
      \/ r.outcome = "none" /\ s.asked[i] # {} /\ \E status \in {"cancelled", "validating"} : q \in Ok(left(status))
      \/ r.outcome # "none" /\ q \in Ok({to(o) : o \in ends})
      \/ r.outcome # "none" /\ q \in Not({late(o) : o \in ends \ {"pending"}})
  <2>1. q \in CancelledCheckpoint(s, i, snapshot) =>
           q \in Not({s}) \/ \E status \in {"cancelled", "validating"} : q \in Ok(left(status))
    BY UnlessOf DEF CancelledCheckpoint
  <2>2. \/ q \in Not({s})
        \/ r.outcome = "none" /\ s.asked[i] = {} /\ q \in Ok({s})
        \/ r.outcome = "none" /\ s.asked[i] # {} /\ q \in CancelledCheckpoint(s, i, snapshot)
        \/ r.outcome # "none" /\ q \in Ok({to(o) : o \in ends})
        \/ r.outcome # "none" /\ q \in Unless("store", Not({late(o) : o \in ends \ {"pending"}}))
    BY UnlessOf DEF Recovered
  <2> HIDE DEF to, late, left, ends
  <2> QED
    BY <2>1, <2>2, UnlessOf
<1>3. CASE q \in Not({s})
  <2>1. q.s \in {s} /\ q.ok = FALSE
    BY <1>3, OkNot
  <2> QED
    BY <2>1, JudgedSelf
<1>4. CASE r.outcome = "none" /\ s.asked[i] = {} /\ q \in Ok({s})
  <2>1. q.s \in {s} /\ q.ok = TRUE
    BY <1>4, OkNot
  <2> QED
    BY <2>1, <1>4, JudgedSelf
<1> DEFINE new(o) == [r EXCEPT !.outcome = o]
           lib(o) == IF o = "committed" /\ o # r.outcome THEN s.live \cup {r.doc} ELSE s.live
<1>5. ASSUME NEW o \in ends, r.outcome # "none", NEW job \in UploadJob,
             q.s = Judgement(s, i, new(o), lib(o), job)
      PROVE  /\ Judged(s, q.s, i) /\ q.s.canon[i] = job /\ q.s.receipt[i] = [r EXCEPT !.outcome = o]
             /\ q.s.receipt[i].outcome = o /\ o # "none" /\ (o = r.outcome \/ r.outcome = "pending")
             /\ q.s.receipt[i].doc = r.doc /\ q.s.receipt[i].unheard = r.unheard
  <2> DEFINE n == new(o)
             L == lib(o)
  <2>1. o \in {"pending", "committed", "failed", "cancelled"} /\ (o = r.outcome \/ r.outcome = "pending")
    BY <1>1, <1>5
  <2>2. n \in Receipt /\ n.outcome = o /\ n.doc = r.doc /\ n.unheard = r.unheard
    BY <1>1, <2>1 DEF Receipt
  <2>3. L \in SUBSET Names
    BY <1>1 DEF UploadState
  <2>4. q.s = Judgement(s, i, n, L, job)
    BY <1>5
  <2>5. n = [r EXCEPT !.outcome = o]
    OBVIOUS
  <2> HIDE DEF n, L
  <2>6. Judged(s, q.s, i) /\ q.s.receipt[i] = n /\ q.s.canon[i] = job
    BY <2>2, <2>3, <2>4, JudgedFrom
  <2> QED
    BY <2>1, <2>2, <2>5, <2>6
<1>6. ASSUME NEW o \in ends PROVE ReceiptJob([r EXCEPT !.outcome = o]) \in UploadJob
  <2>1. [r EXCEPT !.outcome = o] \in Receipt
    BY <1>1 DEF Receipt
  <2> QED
    BY <2>1, ReceiptJobFacts
<1>t. ASSUME NEW o PROVE Resolved(s, i, o) = Judgement(s, i, new(o), lib(o), ReceiptJob(new(o)))
  BY DEF UploadState, Judgement, Resolved
<1>7. CASE r.outcome # "none" /\ q \in Ok({to(o) : o \in ends})
  <2>1. q.s \in {to(o) : o \in ends} /\ q.ok = TRUE
    <3> HIDE DEF to, ends
    <3> QED BY <1>7, OkNot
  <2>2. PICK o \in ends : q.s = to(o)
    BY <2>1
  <2> DEFINE job == ReceiptJob([r EXCEPT !.outcome = o])
  <2>3. job \in UploadJob
    BY <1>6
  <2>4. q.s = Judgement(s, i, new(o), lib(o), job)
    BY <2>2, <1>t
  <2>5. job = ReceiptJob([r EXCEPT !.outcome = o])
    OBVIOUS
  <2> HIDE DEF to, ends, job, new, lib
  <2>6. /\ Judged(s, q.s, i) /\ q.s.canon[i] = job /\ q.s.receipt[i] = [r EXCEPT !.outcome = o]
        /\ q.s.receipt[i].outcome = o /\ o # "none" /\ (o = r.outcome \/ r.outcome = "pending")
        /\ q.s.receipt[i].doc = r.doc /\ q.s.receipt[i].unheard = r.unheard
    BY <2>2, <2>3, <2>4, <1>5, <1>7
  <2> QED
    BY <2>1, <2>5, <2>6, <1>7
<1>8. CASE r.outcome # "none" /\ q \in Not({late(o) : o \in ends \ {"pending"}})
  <2>1. q.s \in {late(o) : o \in ends \ {"pending"}} /\ q.ok = FALSE
    <3> HIDE DEF late, ends
    <3> QED BY <1>8, OkNot
  <2>2. PICK o \in ends : q.s = late(o)
    BY <2>1
  <2> DEFINE job == [ReceiptJob([r EXCEPT !.outcome = o]) EXCEPT !.status = "unknown"]
  <2>3. job \in UploadJob /\ job.status = "unknown"
    BY <1>6 DEF UploadJob, Status, Recoverable
  <2>4. q.s = Judgement(s, i, new(o), lib(o), job)
    <3>1. q.s = [Resolved(s, i, o) EXCEPT !.canon[i].status = "unknown"]
      BY <2>2
    <3> DEFINE u == Resolved(s, i, o)
               n == new(o)
               L == lib(o)
               j == ReceiptJob(n)
    <3>2. u = Judgement(s, i, n, L, j)
      BY <1>t
    <3>3. q.s = [u EXCEPT !.canon[i].status = "unknown"] /\ job = [j EXCEPT !.status = "unknown"]
      BY <3>1
    <3> HIDE DEF u, n, L, j, job
    <3>4. q.s = Judgement(s, i, n, L, job)
      BY <3>2, <3>3, JudgedAgain
    <3> QED
      BY <3>4 DEF n, L
  <2> HIDE DEF to, ends, late, job, new, lib
  <2>5. /\ Judged(s, q.s, i) /\ q.s.canon[i] = job
        /\ q.s.receipt[i].outcome = o /\ o # "none" /\ (o = r.outcome \/ r.outcome = "pending")
        /\ q.s.receipt[i].doc = r.doc /\ q.s.receipt[i].unheard = r.unheard
    BY <2>2, <2>3, <2>4, <1>5, <1>8
  <2> QED
    BY <2>1, <2>3, <2>5, <1>8
<1>9. ASSUME r.outcome = "none", s.asked[i] # {}, NEW status \in {"cancelled", "validating"}, q \in Ok(left(status))
      PROVE  /\ q.ok = TRUE /\ Judged(s, q.s, i) /\ q.s.receipt[i] = s.receipt[i]
             /\ q.s.canon[i].status = status
  <2>1. q.s \in left(status) /\ q.ok = TRUE
    <3> HIDE DEF left
    <3> QED BY <1>9, OkNot
  <2>2. PICK d \in s.asked[i] : q.s = [s EXCEPT !.canon[i] = [status |-> status, doc |-> d, carried |-> Keep]]
    BY <2>1
  <2> DEFINE job == [status |-> status, doc |-> d, carried |-> Keep]
  <2>3. d \in Names
    BY <2>2 DEF UploadState
  <2>4. job \in UploadJob /\ job.status = status
    BY <2>3, Sizes DEF UploadJob, Status, Final, Recoverable, Keep
  <2>5. q.s = Judgement(s, i, r, s.live, job)
    BY <2>2 DEF UploadState, Judgement
  <2>6. s.live \in SUBSET Names
    BY DEF UploadState
  <2> HIDE DEF job
  <2>7. Judged(s, q.s, i) /\ q.s.receipt[i] = r /\ q.s.canon[i] = job
    BY <1>1, <2>4, <2>5, <2>6, JudgedFrom
  <2> QED
    BY <2>1, <2>4, <2>7
<1>10. CASE r.outcome = "none" /\ s.asked[i] # {} /\ \E status \in {"cancelled", "validating"} : q \in Ok(left(status))
  <2> HIDE DEF left
  <2> QED
    BY <1>9, <1>10
<1> HIDE DEF ends, to, late, left, new, lib
<1> QED
  BY <1>2, <1>3, <1>4, <1>7, <1>8, <1>10

(* An answer of ingest to the service: it agrees with the receipt, or the  *)
(* service is not told of the receipt.                                     *)
Told(s, x, i) ==
    /\ Judged(s, x.s, i) /\ x.job \in UploadJob /\ x.job.status \in Answered
    /\ Fits(x.s, i, x.job.status) /\ Fits(x.s, i, x.s.canon[i].status)
    /\ Sure(x.s, i) => x.job.status = "unknown" \/ x.s.canon[i].status \in Final
    /\ x.raised => x.job.status = "failed"

(* The pipeline returns its own job.                                       *)
LEMMA RepliedTold ==
    ASSUME NEW s \in UploadState, NEW i \in Ids, NEW t, Judged(s, t, i),
           t.canon[i].status \in Answered, Fits(t, i, t.canon[i].status)
    PROVE  Told(s, Replied(t, i), i) /\ Replied(t, i).s = t
<1>1. t.canon[i] \in UploadJob
  BY DEF Judged, UploadState
<1>2. Replied(t, i).s = t /\ Replied(t, i).job = t.canon[i] /\ Replied(t, i).raised = FALSE
  BY DEF Replied
<1> QED
  BY <1>1, <1>2 DEF Told, Answered

(* It raises.                                                              *)
LEMMA UnheardTold ==
    ASSUME NEW s \in UploadState, NEW i \in Ids, NEW t, Judged(s, t, i),
           t.canon[i].status = "published" => t.receipt[i].outcome = "committed"
    PROVE  Told(s, Unheard(t, i), i) /\ Unheard(t, i).s.receipt[i].outcome = t.receipt[i].outcome
<1> DEFINE x == Unheard(t, i)
           n == [t.receipt[i] EXCEPT !.unheard = TRUE]
           u == [t EXCEPT !.receipt[i].unheard = TRUE]
<1>1. t \in UploadState /\ t.receipt[i] \in Receipt /\ t.canon[i] \in UploadJob /\ t.job[i] \in UploadJob
      /\ t.live \in SUBSET Names
  <2>1. t \in UploadState
    BY DEF Judged
  <2> QED
    BY <2>1 DEF UploadState
<1>2. x.s = (IF t.receipt[i].outcome = "none" THEN t ELSE u)
      /\ x.job = [t.job[i] EXCEPT !.status = "failed"] /\ x.raised = TRUE
  BY DEF Unheard
<1>3. x.job \in UploadJob /\ x.job.status = "failed"
  BY <1>1, <1>2 DEF UploadJob, Status, Final
<1>4. n \in Receipt /\ n.outcome = t.receipt[i].outcome /\ n.unheard = TRUE
  BY <1>1 DEF Receipt
<1>5. u = Judgement(t, i, n, t.live, t.canon[i])
  BY <1>1 DEF UploadState, Judgement
<1> HIDE DEF x, n, u
<1>6. Judged(t, u, i) /\ u.receipt[i] = n /\ u.canon[i] = t.canon[i]
  BY <1>1, <1>4, <1>5, JudgedFrom
<1>7. Judged(s, x.s, i) /\ x.s.canon[i] = t.canon[i] /\ x.s.receipt[i].outcome = t.receipt[i].outcome /\ ~Sure(x.s, i)
  <2>1. CASE t.receipt[i].outcome = "none"
    BY <2>1, <1>2 DEF Sure, Won
  <2>2. CASE t.receipt[i].outcome # "none"
    BY <2>2, <1>2, <1>4, <1>6, JudgedTwice DEF Sure
  <2> QED
    BY <2>1, <2>2
<1>8. Told(s, x, i)
  BY <1>3, <1>7 DEF Told, Fits, Answered, Final
<1> QED
  BY <1>7, <1>8 DEF x

(* It recovers what it finds, and the service takes the answer.            *)
LEMMA TakenTold ==
    ASSUME NEW s \in UploadState, NEW i \in Ids, NEW u, Judged(s, u, i), NEW snapshot,
           u.canon[i].status = "published" => u.receipt[i].outcome = "committed",
           u.receipt[i].outcome # "none" \/ u.asked[i] # {},
           NEW x \in Taken(Recovered(u, i, snapshot), i)
    PROVE  Told(s, x, i) /\ (Won(x.s, i) => Won(u, i))
<1>1. u \in UploadState
  BY DEF Judged
<1>2. PICK q \in Recovered(u, i, snapshot) :
         x = IF q.ok /\ q.s.canon[i].status # "validating" THEN Replied(q.s, i) ELSE Unheard(q.s, i)
  BY DEF Taken
<1>3. /\ q.ok \in BOOLEAN /\ Judged(u, q.s, i)
      /\ \/ q.s = u /\ (q.ok => u.receipt[i].outcome = "none" /\ u.asked[i] = {})
         \/ /\ u.receipt[i].outcome # "none" /\ q.s.receipt[i].outcome # "none"
            /\ q.s.canon[i] = ReceiptJob(q.s.receipt[i]) \/ (~q.ok /\ q.s.canon[i].status = "unknown")
            /\ q.s.receipt[i].outcome = u.receipt[i].outcome \/ u.receipt[i].outcome = "pending"
         \/ /\ q.ok /\ u.receipt[i].outcome = "none" /\ q.s.receipt[i] = u.receipt[i]
            /\ q.s.canon[i].status \in {"cancelled", "validating"}
  BY <1>1, <1>2, RecoveredFacts
<1>4. Judged(s, q.s, i) /\ q.s.receipt[i] \in Receipt
  <2>1. Judged(s, q.s, i)
    BY <1>3, JudgedTwice
  <2> QED
    BY <2>1 DEF Judged, UploadState
<1>5. q.s.receipt[i].outcome \in {"none", "pending", "committed", "failed", "cancelled"}
  BY <1>4 DEF Receipt
<1>6. Won(q.s, i) => Won(u, i)
  BY <1>3 DEF Won
<1>7. q.s.canon[i].status = "published" => q.s.receipt[i].outcome = "committed"
  <2>1. CASE q.s.canon[i] = ReceiptJob(q.s.receipt[i])
    BY <2>1, <1>4, <1>5, ReceiptJobFacts
  <2> QED
    BY <2>1, <1>3
<1>8. CASE q.ok /\ q.s.canon[i].status # "validating"
  <2>1. CASE q.s.receipt[i].outcome # "none" /\ q.s.canon[i] = ReceiptJob(q.s.receipt[i])
    <3>1. q.s.canon[i].status \in Answered /\ Fits(q.s, i, q.s.canon[i].status)
      BY <2>1, <1>4, <1>5, ReceiptJobFacts DEF Fits, Won, Sure, Answered, Final, Lost
    <3> QED
      BY <3>1, <1>2, <1>4, <1>6, <1>8, RepliedTold
  <2>2. CASE q.s.receipt[i].outcome = "none" /\ q.s.canon[i].status = "cancelled"
    <3>1. q.s.canon[i].status \in Answered /\ Fits(q.s, i, q.s.canon[i].status)
      BY <2>2 DEF Fits, Won, Sure, Answered, Final
    <3> QED
      BY <3>1, <1>2, <1>4, <1>6, <1>8, RepliedTold
  <2> QED
    BY <2>1, <2>2, <1>3, <1>8
<1>9. CASE ~(q.ok /\ q.s.canon[i].status # "validating")
  <2>1. Told(s, Unheard(q.s, i), i) /\ Unheard(q.s, i).s.receipt[i].outcome = q.s.receipt[i].outcome
    BY <1>4, <1>7, UnheardTold
  <2> QED
    BY <2>1, <1>2, <1>6, <1>9 DEF Won
<1> QED
  BY <1>8, <1>9

(* It publishes, or fails on the way.                                      *)
LEMMA AttemptedTold ==
    ASSUME NEW s \in UploadState, NEW i \in Ids, NEW d \in Names, ~Won(s, i), Fits(s, i, s.canon[i].status),
           NEW x \in Attempted(s, i, d)
    PROVE  Told(s, x, i)
<1> DEFINE named(status) == [status |-> status, doc |-> d, carried |-> Keep]
           at(o) == [s EXCEPT !.receipt[i] = [outcome |-> o, doc |-> d, unheard |-> FALSE],
                              !.live = IF o = "committed" THEN @ \cup {d} ELSE @]
           ends(o, status) == [at(o) EXCEPT !.canon[i] = named(status)]
<1>1. \/ x = Replied(ends("committed", "published"), i)
      \/ \E o \in {"pending", "committed"} : x = Replied(ends(o, "unknown"), i)
      \/ x = Unheard(at("committed"), i)
      \/ x \in Taken(Recovered(at("pending"), i, named("validating")), i)
  BY UnlessOf DEF Attempted
<1>2. s.canon[i] \in UploadJob /\ s.canon[i].status # "published"
  BY DEF UploadState, Fits, Won
<1> DEFINE lib(o) == IF o = "committed" THEN s.live \cup {d} ELSE s.live
           rec(o) == [outcome |-> o, doc |-> d, unheard |-> FALSE]
<1>3. ASSUME NEW o \in {"pending", "committed"}, NEW job \in UploadJob,
             NEW t, t = Judgement(s, i, rec(o), lib(o), job)
      PROVE  Judged(s, t, i) /\ t.canon[i] = job /\ t.receipt[i].outcome = o
  <2>1. lib(o) \in SUBSET Names /\ rec(o) \in Receipt /\ rec(o).outcome = o
    BY DEF UploadState, Receipt
  <2> HIDE DEF lib, rec
  <2>2. Judged(s, t, i) /\ t.receipt[i] = rec(o) /\ t.canon[i] = job
    BY <2>1, <1>3, JudgedFrom
  <2> QED
    BY <2>1, <2>2
<1>4. ASSUME NEW o \in {"pending", "committed"}
      PROVE  Judged(s, at(o), i) /\ at(o).canon[i] = s.canon[i] /\ at(o).receipt[i].outcome = o
  <2> DEFINE t == at(o)
  <2>1. t = Judgement(s, i, rec(o), lib(o), s.canon[i])
    BY DEF UploadState, Judgement
  <2> HIDE DEF t, rec, lib
  <2>2. Judged(s, t, i) /\ t.canon[i] = s.canon[i] /\ t.receipt[i].outcome = o
    BY <2>1, <1>2, <1>3
  <2> QED
    BY <2>2 DEF t
<1>5. ASSUME NEW o \in {"pending", "committed"}, NEW status \in {"published", "unknown"},
             status = "published" => o = "committed"
      PROVE  Told(s, Replied(ends(o, status), i), i)
  <2> DEFINE job == named(status)
             t == ends(o, status)
  <2>1. job \in UploadJob /\ job.status = status
    BY Sizes DEF UploadJob, Status, Final, Recoverable, Keep
  <2>2. t = Judgement(s, i, rec(o), lib(o), job)
    BY DEF UploadState, Judgement
  <2> HIDE DEF job, t, rec, lib
  <2>3. Judged(s, t, i) /\ t.canon[i] = job /\ t.receipt[i].outcome = o
    BY <2>1, <2>2, <1>3
  <2>4. t.canon[i].status \in Answered /\ Fits(t, i, t.canon[i].status)
    BY <2>1, <2>3, <1>5 DEF Fits, Answered, Final, Lost
  <2>5. Told(s, Replied(t, i), i)
    BY <2>3, <2>4, RepliedTold
  <2> QED
    BY <2>5 DEF t
<1> HIDE DEF named, at, ends
<1>6. CASE x = Unheard(at("committed"), i)
  BY <1>2, <1>4, <1>6, UnheardTold
<1>7. CASE x \in Taken(Recovered(at("pending"), i, named("validating")), i)
  BY <1>2, <1>4, <1>7, TakenTold
<1> QED
  BY <1>1, <1>5, <1>6, <1>7

(* The answer of ingest agrees with the receipt, and nothing is published  *)
(* of a job whose event is set.                                            *)
LEMMA IngestedFacts ==
    ASSUME NEW s \in UploadState, NEW i \in Ids, NEW p \in Paths, ~Won(s, i), Fits(s, i, s.canon[i].status),
           NEW x \in Ingested(s, i, p)
    PROVE  Told(s, x, i) /\ (Won(x.s, i) => s.event[i] # "set")
<1> DEFINE left == [s EXCEPT !.canon[i] = [NoJob EXCEPT !.status = "failed"]]
<1>1. s.content[p] \in Names /\ s.receipt[i] \in Receipt /\ s.live \in SUBSET Names
  BY DEF UploadState
<1>2. \/ x = Unheard(s, i)
      \/ /\ s.receipt[i].outcome \in {"pending", "committed", "cancelled"} \/ s.asked[i] # {}
         /\ x \in Taken(Recovered(s, i, NoJob), i)
      \/ x = Replied(left, i)
      \/ x = Unheard(left, i)
      \/ s.event[i] # "set" /\ x \in Attempted(s, i, s.content[p])
  BY UnlessOf DEF Ingested
<1>3. s.canon[i].status = "published" => s.receipt[i].outcome = "committed"
  BY DEF Fits
<1>4. CASE x = Unheard(s, i)
  BY <1>3, <1>4, JudgedSelf, UnheardTold DEF Won
<1>5. CASE /\ s.receipt[i].outcome \in {"pending", "committed", "cancelled"} \/ s.asked[i] # {}
           /\ x \in Taken(Recovered(s, i, NoJob), i)
  <2>1. s.receipt[i].outcome # "none" \/ s.asked[i] # {}
    BY <1>5
  <2> QED
    BY <2>1, <1>3, <1>5, JudgedSelf, TakenTold
<1>6. Judged(s, left, i) /\ left.canon[i].status = "failed" /\ left.receipt[i] = s.receipt[i]
  <2> DEFINE job == [NoJob EXCEPT !.status = "failed"]
  <2>1. job \in UploadJob /\ job.status = "failed"
    BY Sizes DEF NoJob, UploadJob, Status, Final
  <2> HIDE DEF job
  <2>2. left = Judgement(s, i, s.receipt[i], s.live, job)
    BY DEF UploadState, Judgement, job
  <2> HIDE DEF left
  <2> QED
    BY <1>1, <2>1, <2>2, JudgedFrom
<1> HIDE DEF left
<1>7. CASE x = Replied(left, i)
  <2>1. left.canon[i].status \in Answered /\ Fits(left, i, left.canon[i].status)
    BY <1>6 DEF Fits, Won, Sure, Answered, Final
  <2> QED
    BY <2>1, <1>6, <1>7, RepliedTold DEF Won
<1>8. CASE x = Unheard(left, i)
  BY <1>6, <1>8, UnheardTold DEF Won
<1>9. CASE s.event[i] # "set" /\ x \in Attempted(s, i, s.content[p])
  BY <1>1, <1>9, AttemptedTold
<1> QED
  BY <1>2, <1>4, <1>5, <1>7, <1>8, <1>9

-----------------------------------------------------------------------------
(* The worker registers an answer *)

(* The conditions under which an answer on job i may reach the service.    *)
Judgeable(s, t, v, o, c, i) ==
    /\ i \in Paths /\ i <= s.last
    /\ Fits(t, i, s.job[i].status) /\ Fits(t, i, s.row[i].status) /\ Fits(t, i, t.canon[i].status)
    /\ s.job[i].status \in Open /\ Won(t, i) => Registering(v, i)
    /\ i \in Busy(s, v) => ~Won(t, i)
    /\ o.pc = "running" /\ o.kind # "delete" => i # o.id
    /\ c # NoCancel /\ c.id = i /\ Sure(t, i) =>
          t.canon[i].status \in Final \/ s.job[i].status = "unknown" \/ Registering(v, i)

(* Under those conditions it keeps the invariant.                          *)
LEMMA JudgedKeeps ==
    ASSUME NEW s, NEW w, NEW o, NEW c, AppInv(s, w, o, c), NEW t, NEW v, NEW i, Judged(s, t, i),
           WorkerOK(t, v), Held(v) = Held(w), v.pc = "idle" <=> w.pc = "idle", v.id = w.id,
           Starting(v) \subseteq Starting(w), \A j : j # i /\ Registering(w, j) => Registering(v, j),
           Judgeable(s, t, v, o, c, i)
    PROVE  AppInv(t, v, o, c)
<1>1. /\ t \in UploadState /\ i \in Paths /\ Paths \subseteq Ids
      /\ t.event = s.event /\ t.row = s.row /\ t.born = s.born /\ t.waiting = s.waiting /\ t.job = s.job
      /\ t.scheduled = s.scheduled /\ t.pending = s.pending /\ t.last = s.last
      /\ \A j \in Ids : j # i => t.receipt[j] = s.receipt[j] /\ t.canon[j] = s.canon[j]
  BY Sizes DEF Judged, Judgeable
<1>2. Busy(t, v) \subseteq Busy(s, w) /\ Busy(t, v) = Busy(s, v)
  BY <1>1 DEF Busy
<1>n. s.last \in Int /\ i \in Int
  BY <1>1, Sizes DEF AppInv, UploadState
<1>3. ASSUME NEW j \in Paths PROVE JobOK(t, v, j)
  <2>1. JobOK(s, w, j)
    BY DEF AppInv
  <2>2. CASE j # i
    <3>1. t.receipt[j] = s.receipt[j] /\ t.canon[j] = s.canon[j] /\ (Registering(w, j) => Registering(v, j))
      BY <2>2, <1>1
    <3> QED
      BY <3>1, <2>1, <1>1, <1>2 DEF JobOK, Fits, Won, Sure, Virgin
  <2>3. CASE j = i
    <3>1. ~(t.last < i)
      BY <1>1, <1>n DEF Judgeable
    <3>2. /\ Fits(t, i, t.job[i].status) /\ Fits(t, i, t.row[i].status) /\ Fits(t, i, t.canon[i].status)
          /\ t.row[i].status \in Lost => t.job[i].status \notin Open
          /\ t.job[i].status \in Open /\ Won(t, i) => Registering(v, i)
      BY <2>1, <2>3, <1>1 DEF JobOK, Judgeable
    <3>3. i \in Busy(t, v) =>
             /\ ~Won(t, i) /\ t.job[i].status # "unknown"
             /\ t.job[i].status \in Lost \/ t.row[i].status \in Lost => t.event[i] = "set"
      BY <2>1, <2>3, <1>1, <1>2 DEF JobOK, Judgeable
    <3> QED
      BY <2>3, <3>1, <3>2, <3>3 DEF JobOK
  <2> QED
    BY <2>2, <2>3
<1>4. Sides(t)
  BY <1>1 DEF AppInv, Sides, Synthetic
<1>5. OperationOK(t, v, o, c)
  BY <1>1 DEF AppInv, OperationOK, Judgeable, Virgin
<1>6. CancelOK(t, v, c)
  <2>1. c # NoCancel => c.id \in Paths
    BY Sizes DEF AppInv, CancelOK, UploadState, Paths
  <2>2. CancelOK(s, w, c)
    BY DEF AppInv
  <2>3. CASE c = NoCancel
    BY <2>2, <2>3 DEF CancelOK
  <2>4. CASE c # NoCancel /\ c.id = i
    BY <2>2, <2>4, <1>1, <1>2 DEF CancelOK, Judgeable
  <2>5. CASE c # NoCancel /\ c.id # i
    <3>1. t.receipt[c.id] = s.receipt[c.id] /\ t.canon[c.id] = s.canon[c.id] /\ (Registering(w, c.id) => Registering(v, c.id))
      BY <2>1, <2>5, <1>1
    <3> QED
      BY <3>1, <2>2, <2>5, <1>1, <1>2 DEF CancelOK, Won, Sure
  <2> QED
    BY <2>3, <2>4, <2>5
<1>7. Counted(t, v, o)
  BY <1>1 DEF AppInv, Counted
<1> QED
  BY <1>1, <1>3, <1>4, <1>5, <1>6, <1>7 DEF AppInv

(* The pipeline answers the worker.                                        *)
LEMMA IngestReturnsKeeps ==
    ASSUME UploadInv, IngestReturns
    PROVE  UploadInv' /\ app'.waiting = app.waiting
<1> DEFINE i == wk.id
<1>1. wk.pc = "ingest" /\ op' = op /\ cn' = cn
  BY DEF IngestReturns
<1>2. PICK x \in Ingested(app, wk.id, wk.path) :
         /\ app' = x.s \/ app' = [x.s EXCEPT !.job[wk.id] = x.job]
         /\ wk' = [wk EXCEPT !.pc = "register", !.result = x.job]
  BY Zenon DEF IngestReturns
<1>3. /\ i \in Paths /\ i \in Ids /\ i \in 1..app.last /\ i <= app.last /\ wk.path = i
      /\ i \notin Range(app.waiting) /\ wk \in Worker /\ app \in UploadState
      /\ JobOK(app, wk, i)
      /\ op.pc = "running" /\ op.kind # "delete" => i # op.id
  BY <1>1, WorkerFacts
<1>4. /\ i \in Busy(app, wk) /\ ~Won(app, i) /\ Fits(app, i, app.canon[i].status)
      /\ app.row[i].status \in Lost \/ app.job[i].status \in Lost => app.event[i] = "set"
  BY <1>1, <1>3 DEF JobOK, Busy, Starting
<1>t. Told(app, x, i) /\ (Won(x.s, i) => app.event[i] # "set")
  BY <1>2, <1>3, <1>4, IngestedFacts
<1>5. /\ Judged(app, x.s, i) /\ x.job \in UploadJob /\ x.job.status \in Answered
      /\ Fits(x.s, i, x.job.status) /\ Fits(x.s, i, x.s.canon[i].status)
      /\ Sure(x.s, i) => x.job.status = "unknown" \/ x.s.canon[i].status \in Final
      /\ Won(x.s, i) => app.event[i] # "set"
  BY <1>t DEF Told
<1>6. wk' \in Worker /\ wk'.pc = "register" /\ wk'.id = i /\ wk'.path = i /\ wk'.result = x.job
  BY <1>2, <1>3, <1>5 DEF Worker
<1>7. x.s.last = app.last /\ x.s.waiting = app.waiting /\ x.s.row = app.row
  BY <1>5 DEF Judged
<1>8. WorkerOK(x.s, wk')
  BY <1>3, <1>5, <1>6, <1>7 DEF WorkerOK
<1>9. Held(wk') = Held(wk) /\ Starting(wk') = {} /\ \A j : ~Registering(wk, j)
  BY <1>1, <1>6 DEF Held, Starting, Registering
<1>10. ASSUME NEW status, status = app.job[i].status \/ status = app.row[i].status PROVE Fits(x.s, i, status)
  <2>1. Fits(app, i, status) /\ (status \in Lost => app.event[i] = "set")
    BY <1>3, <1>4, <1>10 DEF JobOK
  <2>2. status # "published"
    BY <2>1, <1>4 DEF Fits, Won, Sure
  <2> QED
    BY <2>1, <2>2, <1>5 DEF Fits, Sure
<1>r. Registering(wk', i)
  BY <1>6 DEF Registering
<1>11. Judgeable(app, x.s, wk', op, cn, i)
  <2>2. i \notin Busy(app, wk')
    BY <1>3, <1>9 DEF Busy
  <2> HIDE DEF i
  <2> QED
    BY <2>2, <1>r, <1>3, <1>5, <1>10 DEF Judgeable
<1>12. AppInv(x.s, wk', op, cn)
  BY <1>1, <1>5, <1>6, <1>8, <1>9, <1>11, JudgedKeeps DEF UploadInv
<1>13. CASE app' = x.s
  BY <1>1, <1>7, <1>12, <1>13 DEF UploadInv
<1>14. CASE app' = [x.s EXCEPT !.job[i] = x.job]
  <2>1. i \notin Busy(x.s, wk')
    BY <1>3, <1>7, <1>9 DEF Busy
  <2>2. x.job.status \notin Open
    BY <1>5, Statuses
  <2>3. Settable(x.s, wk', op, cn, i, x.job)
    <3> HIDE DEF i
    <3> QED
      BY <2>1, <2>2, <1>r, <1>3, <1>5, <1>7 DEF Settable
  <2>4. AppInv([x.s EXCEPT !.job[i] = x.job], wk', op, cn)
    <3> HIDE DEF i
    <3> QED
      BY <2>3, <1>12, JobSet
  <2>5. [x.s EXCEPT !.job[i] = x.job].waiting = x.s.waiting
    BY <1>5 DEF Judged, UploadState
  <2> QED
    BY <2>4, <2>5, <1>1, <1>7, <1>14 DEF UploadInv
<1> QED
  BY <1>2, <1>13, <1>14

(* A cancellation reaches the checkpoint of the pipeline.                  *)
LEMMA FlagCancelKeeps ==
    ASSUME UploadInv, FlagCancel
    PROVE  UploadInv' /\ app'.waiting = app.waiting
<1>1. wk.pc = "ingest" /\ op' = op /\ wk' = wk /\ cn' = cn
  BY DEF FlagCancel
<1>2. /\ wk.id \in Ids /\ wk.path = wk.id /\ wk.id \in Paths /\ app \in UploadState
  BY <1>1, WorkerFacts
<1>3. PICK d \in {"none", app.content[wk.path]} : app' = [app EXCEPT !.asked[wk.id] = {d}]
  BY DEF FlagCancel
<1>4. d \in Names
  BY <1>2, <1>3 DEF UploadState, Names
<1>5. app' \in UploadState
  BY <1>2, <1>3, <1>4 DEF UploadState
<1>6. /\ app'.receipt = app.receipt /\ app'.canon = app.canon /\ app'.event = app.event /\ app'.waiting = app.waiting
      /\ app'.scheduled = app.scheduled /\ app'.pending = app.pending /\ app'.last = app.last /\ app'.born = app.born
      /\ app'.job = app.job /\ app'.row = app.row
  BY <1>2, <1>3 DEF UploadState
<1>7. AppInv(app', wk, op, cn)
  BY <1>5, <1>6, LikeKeeps DEF UploadInv
<1> QED
  BY <1>1, <1>6, <1>7 DEF UploadInv

(* _record_result keeps the invariant when the job may be set.             *)
LEMMA RecordResultKeeps ==
    ASSUME NEW s, NEW w, NEW o, NEW c, NEW i, NEW job, NEW p \in Paths, NEW prev \in Paths \cup {0},
           AppInv(s, w, o, c), Settable(s, w, o, c, i, job), NEW t \in RecordResult(s, i, job, p, prev)
    PROVE  AppInv(t, w, o, c) /\ t.waiting = s.waiting
<1> DEFINE b == [s EXCEPT !.job[i] = job]
<1>1. AppInv(b, w, o, c)
  BY JobSet
<1>2. b \in Near(b)
  BY <1>1, NearSelf
<1>3. s \in UploadState /\ i \in Paths /\ i \in Ids /\ job \in UploadJob
  BY Sizes DEF AppInv, Settable
<1>4. b.job[i] = job /\ b.waiting = s.waiting
  BY <1>3 DEF UploadState
<1>5. May(b, i, job)
  BY <1>3, <1>4 DEF May, Synthetic
<1>6. t \in Near(b)
  <2> DEFINE z == b
  <2>1. z = b
    OBVIOUS
  <2> HIDE DEF z
  <2> QED
    BY <2>1, <1>2, <1>3, <1>5, RecordResultNear
<1> HIDE DEF b
<1> QED
  BY <1>1, <1>4, <1>6, NearKeeps DEF Near, Tidy

(* The worker registers the answer it holds.                               *)
LEMMA RegisterKeeps ==
    ASSUME UploadInv, Register
    PROVE  UploadInv' /\ app'.waiting = app.waiting
<1> DEFINE i == wk.id
           job == wk.result
           v == [wk EXCEPT !.pc = "finish"]
<1>1. wk.pc = "register" /\ wk' = v /\ op' = op /\ cn' = cn /\ app' \in RecordResult(app, i, job, wk.path, 0)
  BY DEF Register, Working
<1>2. /\ i \in Paths /\ i \in Ids /\ i \in 1..app.last /\ i <= app.last /\ wk.path = i
      /\ i \notin Range(app.waiting) /\ wk \in Worker /\ app \in UploadState
      /\ JobOK(app, wk, i)
      /\ op.pc = "running" /\ op.kind # "delete" => i # op.id
  BY <1>1, WorkerFacts
<1>3. /\ Fits(app, i, job.status) /\ job.status \in Answered
      /\ Sure(app, i) => job.status = "unknown" \/ app.canon[i].status \in Final
  BY <1>1 DEF UploadInv, AppInv, WorkerOK
<1>4. v \in Worker /\ v.pc = "finish" /\ v.id = i /\ v.path = i /\ job \in UploadJob
  BY <1>2 DEF Worker
<1> HIDE DEF v, job, i
<1>5. i \notin Busy(app, wk)
  BY <1>1, <1>2 DEF Busy, Starting
<1>6. Settable(app, wk, op, cn, i, job)
  <2>1. job.status \notin Open
    BY <1>3, Statuses
  <2> QED
    BY <2>1, <1>2, <1>3, <1>4, <1>5 DEF Settable
<1> DEFINE b == [app EXCEPT !.job[i] = job]
<1>7. AppInv(b, wk, op, cn)
  BY <1>6, JobSet DEF UploadInv
<1>8. /\ b.job[i] = job /\ b.receipt = app.receipt /\ b.canon = app.canon /\ b.waiting = app.waiting /\ b.last = app.last
  BY <1>2 DEF UploadState
<1> HIDE DEF b
<1>9. AppInv(b, v, op, cn)
  <2>1. Busy(b, v) = Busy(b, wk) /\ Held(v) = Held(wk) /\ \A j : ~Registering(v, j)
    BY <1>1, <1>4 DEF Busy, Starting, Held, Registering, i
  <2>2. ASSUME NEW j \in Paths PROVE JobOK(b, v, j)
    <3>1. JobOK(b, wk, j)
      BY <1>7 DEF AppInv
    <3>2. CASE j = i
      <4>1. b.job[i].status \notin Open
        BY <1>3, <1>8, Statuses
      <4> QED
        BY <4>1, <3>1, <3>2, <2>1 DEF JobOK
    <3>3. CASE j # i
      <4>1. ~Registering(wk, j)
        BY <3>3 DEF Registering, i
      <4> QED
        BY <4>1, <3>1, <2>1 DEF JobOK
    <3> QED
      BY <3>2, <3>3
  <2>3. WorkerOK(b, v)
    BY <1>2, <1>4, <1>8 DEF WorkerOK
  <2>4. OperationOK(b, v, op, cn)
    BY <1>4, <1>7 DEF AppInv, OperationOK, i
  <2>5. CancelOK(b, v, cn)
    <3>1. CancelOK(b, wk, cn)
      BY <1>7 DEF AppInv
    <3>2. ASSUME cn # NoCancel, Sure(b, cn.id) PROVE b.canon[cn.id].status \in Final \/ b.job[cn.id].status = "unknown"
      <4>1. CASE cn.id = i
        BY <4>1, <3>2, <1>3, <1>8 DEF Won, Sure
      <4>2. CASE cn.id # i
        <5>1. ~Registering(wk, cn.id)
          BY <4>2 DEF Registering, i
        <5> QED
          BY <5>1, <3>1, <3>2 DEF CancelOK
      <4> QED
        BY <4>1, <4>2
    <3> QED
      BY <3>1, <3>2, <2>1 DEF CancelOK
  <2>6. Counted(b, v, op)
    BY <1>1, <1>4, <1>7, <2>1 DEF AppInv, Counted
  <2> QED
    BY <1>7, <2>2, <2>3, <2>4, <2>5, <2>6 DEF AppInv
<1>10. b \in Near(b) /\ May(b, i, job)
  BY <1>2, <1>4, <1>8, <1>9, NearSelf DEF May, Synthetic
<1>11. app' \in Near(b)
  <2>1. [app EXCEPT !.job[i] = job] \in Near(b)
    BY <1>10 DEF b
  <2> QED
    BY <2>1, <1>1, <1>2, <1>10, RecordResultNear DEF i
<1>12. AppInv(app', v, op, cn)
  BY <1>9, <1>11, NearKeeps
<1>13. app'.waiting = app.waiting
  BY <1>8, <1>11 DEF Near, Tidy
<1> QED
  BY <1>1, <1>12, <1>13 DEF UploadInv

-----------------------------------------------------------------------------
(* The end of an operation *)

(* An answer that the worker is not concerned with.                        *)
LEMMA JudgedAside ==
    ASSUME NEW s, NEW w, NEW o, NEW c, AppInv(s, w, o, c), NEW t, NEW i, Judged(s, t, i),
           ~Registering(w, i), Judgeable(s, t, w, o, c, i)
    PROVE  AppInv(t, w, o, c)
<1>1. /\ t.waiting = s.waiting /\ t.last = s.last
      /\ \A j \in Ids : j # i => t.receipt[j] = s.receipt[j] /\ t.canon[j] = s.canon[j]
  BY DEF Judged
<1>2. WorkerOK(s, w)
  BY DEF AppInv
<1>3. w.pc = "register" => w.id \in Ids /\ w.id # i
  <2>1. w.pc # "idle" => w.id \in 1..s.last
    BY <1>2 DEF WorkerOK
  <2>2. s.last \in 0..MaxIds
    BY DEF AppInv, UploadState
  <2> QED
    BY <2>1, <2>2, Sizes DEF Ids, Registering
<1>4. WorkerOK(t, w)
  BY <1>1, <1>2, <1>3 DEF WorkerOK, Fits, Won, Sure
<1> QED
  BY <1>4, JudgedKeeps

(* What the invariant says of a running operation's job.                   *)
LEMMA RunningFacts ==
    ASSUME UploadInv, op.pc = "running", op.kind # "delete"
    PROVE  /\ op.id \in Paths /\ op.id \in Ids /\ op.id = app.last /\ op.id <= app.last /\ op.path \in Paths
           /\ op.prev \in Paths \cup {0} /\ op.doc \in Names /\ app \in UploadState
           /\ op.id \notin Busy(app, wk) /\ op.id \notin Range(app.waiting) /\ ~Registering(wk, op.id)
           /\ wk.id # op.id /\ (cn # NoCancel => cn.id # op.id) /\ JobOK(app, wk, op.id)
           /\ op.kind # "submit" => Virgin(app, op.id)
           /\ op.kind = "submit" => app.job[op.id].status = "queued" /\ app.receipt[op.id].outcome = "none"
<1>1. /\ op.id = app.last /\ op.id \in Paths /\ op.path \in Paths
      /\ op.id \notin Range(app.waiting) /\ wk.id # op.id /\ cn.id # op.id
      /\ op.kind # "submit" => Virgin(app, op.id)
      /\ op.kind = "submit" => app.job[op.id].status = "queued" /\ app.receipt[op.id].outcome = "none"
  BY DEF UploadInv, AppInv, OperationOK
<1>2. op.prev \in Paths \cup {0} /\ op.doc \in Names /\ app \in UploadState
  BY DEF UploadInv, AppInv, OperationOK, Operation
<1>3. op.id \in Ids /\ op.id \in Nat
  BY <1>1, Sizes
<1>l. op.id <= app.last
  BY <1>1, <1>3
<1>4. op.id \notin Busy(app, wk) /\ ~Registering(wk, op.id)
  BY <1>1 DEF Busy, Starting, Registering
<1>5. JobOK(app, wk, op.id)
  BY <1>1 DEF UploadInv, AppInv
<1> QED
  BY <1>1, <1>2, <1>3, <1>l, <1>4, <1>5

(* A synchronous operation ends: the pipeline answers and the result is    *)
(* recorded, or the file is given up.                                      *)
LEMMA FinishSyncKeeps ==
    ASSUME UploadInv, FinishSync
    PROVE  UploadInv' /\ app'.waiting = app.waiting
<1> DEFINE i == op.id
<1>1. op.pc = "running" /\ op.kind \in {"upload", "retry", "reindex"} /\ op' = NoOp /\ wk' = wk /\ cn' = cn
  BY DEF FinishSync, Running
<1>2. /\ i \in Paths /\ i \in Ids /\ i <= app.last /\ op.path \in Paths
      /\ op.prev \in Paths \cup {0} /\ app \in UploadState /\ i \notin Busy(app, wk) /\ ~Registering(wk, i)
      /\ (cn # NoCancel => cn.id # i) /\ JobOK(app, wk, i) /\ Virgin(app, i)
  BY <1>1, RunningFacts
<1>3. AppInv(app, wk, NoOp, cn)
  BY <1>1, OperationEnds DEF UploadInv, Submitting
<1>4. PICK x \in Ingested(app, i, op.path) :
         \/ app' \in IF op.path = op.prev THEN {x.s} ELSE RemoveOrQuarantine(x.s, op.path)
         \/ \E t \in RecordResult(x.s, i, x.job, op.path, op.prev) :
              app' \in {t, [t EXCEPT !.docs = WithoutDoc(t, op.doc), !.live = @ \ {op.doc}]}
  BY DEF FinishSync
<1>5. ~Won(app, i) /\ Fits(app, i, app.canon[i].status)
  BY <1>2 DEF Virgin, Won, Sure, JobOK
<1>t. Told(app, x, i)
  BY <1>2, <1>4, <1>5, IngestedFacts
<1>6. /\ Judged(app, x.s, i) /\ x.job \in UploadJob /\ x.job.status \in Answered
      /\ Fits(x.s, i, x.job.status) /\ Fits(x.s, i, x.s.canon[i].status)
  BY <1>t DEF Told
<1>w. x.s.waiting = app.waiting
  BY <1>6 DEF Judged
<1> HIDE DEF i
<1>7. Judgeable(app, x.s, wk, NoOp, cn, i)
  BY <1>2, <1>6, Idle, Statuses DEF Judgeable, Fits, Virgin
<1>8. AppInv(x.s, wk, NoOp, cn)
  BY <1>2, <1>3, <1>6, <1>7, JudgedAside
<1>9. CASE app' \in IF op.path = op.prev THEN {x.s} ELSE RemoveOrQuarantine(x.s, op.path)
  <2>1. app' \in Near(x.s)
    BY <1>2, <1>8, <1>9, NearSelf, RemoveOrQuarantineNear
  <2> QED
    BY <2>1, <1>1, <1>w, <1>8, NearKeeps DEF UploadInv, Near, Tidy
<1>10. CASE \E t \in RecordResult(x.s, i, x.job, op.path, op.prev) :
              app' \in {t, [t EXCEPT !.docs = WithoutDoc(t, op.doc), !.live = @ \ {op.doc}]}
  <2>1. PICK t \in RecordResult(x.s, i, x.job, op.path, op.prev) :
              app' \in {t, [t EXCEPT !.docs = WithoutDoc(t, op.doc), !.live = @ \ {op.doc}]}
    BY <1>10
  <2>2. Settable(x.s, wk, NoOp, cn, i, x.job)
    <3>1. x.s.last = app.last /\ x.s.row = app.row /\ x.s.waiting = app.waiting
      BY <1>6 DEF Judged
    <3>2. x.job.status \notin Open /\ i \notin Busy(x.s, wk) /\ x.s.row[i].status \notin Lost
      BY <1>2, <1>6, <3>1, Statuses DEF Busy, Virgin
    <3> QED
      BY <3>1, <3>2, <1>2, <1>6, Idle DEF Settable
  <2>3. AppInv(t, wk, NoOp, cn) /\ t.waiting = app.waiting
    BY <2>1, <2>2, <1>2, <1>w, <1>8, RecordResultKeeps
  <2> DEFINE u == [t EXCEPT !.docs = WithoutDoc(t, op.doc), !.live = @ \ {op.doc}]
  <2>4. t \in UploadState
    BY <2>3 DEF AppInv
  <2>5. WithoutDoc(t, op.doc) \in Seq([doc : Names, path : Paths]) /\ t.live \ {op.doc} \in SUBSET Names
    BY <2>4, DocFacts DEF UploadState
  <2>6. u \in UploadState
    BY <2>4, <2>5 DEF UploadState
  <2>7. /\ u.receipt = t.receipt /\ u.canon = t.canon /\ u.event = t.event /\ u.waiting = t.waiting
        /\ u.scheduled = t.scheduled /\ u.pending = t.pending /\ u.last = t.last /\ u.born = t.born
        /\ u.job = t.job /\ u.row = t.row
    BY <2>4 DEF UploadState
  <2>8. app' \in {t, u}
    BY <2>1
  <2> HIDE DEF u
  <2>9. AppInv(u, wk, NoOp, cn)
    BY <2>3, <2>6, <2>7, LikeKeeps
  <2> QED
    BY <2>3, <2>7, <2>8, <2>9, <1>1 DEF UploadInv
<1> QED
  BY <1>4, <1>9, <1>10 DEF i

(* A submission ends: its job is queued, or given up with its file; only   *)
(* an accepting service queues one.                                        *)
LEMMA FinishSubmitKeeps ==
    ASSUME UploadInv, FinishSubmit
    PROVE  UploadInv' /\ (accepting \/ app'.waiting = app.waiting)
<1> DEFINE i == op.id
<1>1. op.pc = "running" /\ op.kind = "submit" /\ op' = NoOp /\ wk' = wk /\ cn' = cn
  BY DEF FinishSubmit, Running
<1>2. /\ i \in Paths /\ i \in Ids /\ i = app.last /\ i <= app.last /\ op.path \in Paths
      /\ app \in UploadState /\ i \notin Busy(app, wk) /\ ~Registering(wk, i) /\ i \notin Range(app.waiting)
      /\ wk.id # i /\ (cn # NoCancel => cn.id # i) /\ JobOK(app, wk, i)
      /\ app.job[i].status = "queued" /\ app.receipt[i].outcome = "none"
  BY <1>1, RunningFacts
<1>c. /\ Submitting(op) = 1 /\ Len(app.waiting) \in Nat /\ app.pending \in Int /\ app.waiting \in Seq(Ids)
      /\ app.scheduled \in SUBSET Ids
  BY <1>1, <1>2 DEF Submitting, UploadState
<1>w. ~Won(app, i) /\ app.row[i].status \notin Lost
  BY <1>2 DEF Won, Sure, JobOK, Open
<1>i. UploadInv
  OBVIOUS
<1> HIDE DEF i
<1>3. CASE accepting
  <2> DEFINE q == Append(app.waiting, i)
  <2>1. app' = [app EXCEPT !.scheduled = app.scheduled \cup {i}, !.waiting = q]
    BY <1>2, <1>3 DEF FinishSubmit, UploadState, i
  <2>2. /\ q \in Seq(Ids) /\ Range(q) = Range(app.waiting) \cup {i} /\ Len(q) = Len(app.waiting) + 1
        /\ IsInjective(app.waiting) => IsInjective(q)
    BY <1>2, <1>c, AppendFacts
  <2>3. app.scheduled \cup {i} \in SUBSET Ids
    BY <1>2, <1>c
  <2> HIDE DEF q
  <2>4. app' \in UploadState
    BY <2>1, <2>2, <2>3, <1>2 DEF UploadState
  <2>5. /\ app'.receipt = app.receipt /\ app'.canon = app.canon /\ app'.event = app.event /\ app'.waiting = q
        /\ app'.scheduled = app.scheduled \cup {i} /\ app'.pending = app.pending /\ app'.last = app.last
        /\ app'.born = app.born /\ app'.job = app.job /\ app'.row = app.row
    BY <2>1, <1>2 DEF UploadState
  <2>6. Busy(app', wk) = Busy(app, wk) \cup {i}
    BY <2>2, <2>5 DEF Busy
  <2>7. ASSUME NEW j \in Paths PROVE JobOK(app', wk, j)
    <3>1. JobOK(app, wk, j)
      BY <1>i DEF UploadInv, AppInv
    <3>2. CASE j = i
      BY <3>1, <3>2, <2>5, <1>2, <1>w, Statuses DEF JobOK, Fits, Won, Sure, Virgin, Open, Lost
    <3>3. CASE j # i
      BY <3>1, <3>3, <2>5, <2>6 DEF JobOK, Fits, Won, Sure, Virgin
    <3> QED
      BY <3>2, <3>3
  <2>8. Sides(app')
    BY <2>5 DEF UploadInv, AppInv, Sides
  <2>9. WorkerOK(app', wk)
    BY <2>2, <2>5, <1>2 DEF UploadInv, AppInv, WorkerOK, Fits, Won, Sure
  <2>10. OperationOK(app', wk, NoOp, cn)
    BY Idle DEF OperationOK
  <2>11. CancelOK(app', wk, cn)
    BY <2>5, <2>6, <1>2 DEF UploadInv, AppInv, CancelOK, Won, Sure
  <2>12. Counted(app', wk, NoOp)
    <3>1. Counted(app, wk, op)
      BY <1>i DEF UploadInv, AppInv
    <3>2. Range(app'.waiting) \subseteq 1..app'.last
      BY <3>1, <2>2, <2>5, <1>2, Sizes DEF Counted, Paths
    <3>3. app'.scheduled = Range(app'.waiting) \cup Held(wk)
      BY <3>1, <2>2, <2>5 DEF Counted
    <3>4. app'.pending = Len(app'.waiting) + (IF wk.pc = "idle" THEN 0 ELSE 1) + Submitting(NoOp)
      <4> DEFINE h == IF wk.pc = "idle" THEN 0 ELSE 1
      <4>1. app.pending = Len(app.waiting) + h + 1 /\ h \in {0, 1}
        BY <3>1, <1>c DEF Counted
      <4> HIDE DEF h
      <4>2. app.pending = Len(q) + h + 0
        BY <4>1, <2>2, <1>c
      <4> QED
        BY <4>2, <2>5, Idle DEF h
    <3> QED
      BY <3>1, <3>2, <3>3, <3>4, <2>2, <2>5 DEF Counted
  <2>13. AppInv(app', wk, NoOp, cn)
    BY <2>4, <2>7, <2>8, <2>9, <2>10, <2>11, <2>12 DEF AppInv
  <2> QED
    BY <2>13, <1>1, <1>3 DEF UploadInv
<1>4. CASE ~accepting
  <2> DEFINE job == [app.job[i] EXCEPT !.status = "failed"]
             e == [app EXCEPT !.event[i] = "none"]
             f == [e EXCEPT !.pending = app.pending - 1]
             b == [f EXCEPT !.job[i] = job]
             a == [app EXCEPT !.event[i] = "none", !.job[i] = job]
  <2>1. job \in UploadJob /\ job.status = "failed"
    <3>1. app.job[i] \in UploadJob /\ "failed" \in Status
      BY <1>2 DEF UploadState, Status, Final
    <3> QED
      BY <3>1 DEF UploadJob
  <2> HIDE DEF job
  <2>2. AppInv(e, wk, op, cn) /\ e \in UploadState
    BY <1>2, <1>i, EventSet DEF UploadInv, AppInv
  <2>3. /\ e.receipt = app.receipt /\ e.canon = app.canon /\ e.waiting = app.waiting /\ e.row = app.row
        /\ e.scheduled = app.scheduled /\ e.pending = app.pending /\ e.last = app.last /\ e.job = app.job
    BY <1>2 DEF UploadState
  <2> HIDE DEF e
  <2>4. f \in UploadState
    <3>1. app.pending - 1 \in Int
      BY <1>c
    <3> QED
      BY <2>2, <3>1 DEF UploadState
  <2>5. /\ f.receipt = e.receipt /\ f.canon = e.canon /\ f.event = e.event /\ f.waiting = e.waiting /\ f.row = e.row
        /\ f.scheduled = e.scheduled /\ f.pending = e.pending - 1 /\ f.last = e.last /\ f.born = e.born /\ f.job = e.job
    BY <2>2, <2>3 DEF UploadState
  <2> HIDE DEF f
  <2>6. AppInv(f, wk, NoOp, cn)
    <3>1. ASSUME NEW j \in Paths PROVE JobOK(f, wk, j)
      BY <2>2, <2>5 DEF AppInv, JobOK, Fits, Won, Sure, Virgin, Busy
    <3>2. Sides(f)
      BY <2>2, <2>5 DEF AppInv, Sides
    <3>3. WorkerOK(f, wk)
      BY <2>2, <2>5 DEF AppInv, WorkerOK, Fits, Won, Sure
    <3>4. OperationOK(f, wk, NoOp, cn)
      BY Idle DEF OperationOK
    <3>5. CancelOK(f, wk, cn)
      BY <2>2, <2>5 DEF AppInv, CancelOK, Won, Sure, Busy
    <3>6. Counted(f, wk, NoOp)
      <4>1. Counted(e, wk, op)
        BY <2>2 DEF AppInv
      <4> DEFINE h == IF wk.pc = "idle" THEN 0 ELSE 1
      <4>h. app.pending = Len(app.waiting) + h + 1 /\ h \in {0, 1} /\ app.pending <= MaxJobs
        BY <4>1, <2>3, <1>c DEF Counted
      <4> HIDE DEF h
      <4>x. app.pending - 1 = Len(app.waiting) + h + 0 /\ app.pending - 1 <= MaxJobs
        BY <4>h, <1>c, Sizes
      <4>2. f.pending = Len(f.waiting) + (IF wk.pc = "idle" THEN 0 ELSE 1) + Submitting(NoOp)
        BY <4>x, <2>3, <2>5, Idle DEF h
      <4>3. f.pending <= MaxJobs
        BY <4>x, <2>3, <2>5
      <4> QED
        BY <4>1, <4>2, <4>3, <2>5 DEF Counted
    <3> QED
      BY <2>4, <3>1, <3>2, <3>3, <3>4, <3>5, <3>6 DEF AppInv
  <2>7. Settable(f, wk, NoOp, cn, i, job)
    <3>1. f.last = app.last /\ f.row = app.row /\ f.receipt = app.receipt /\ f.waiting = app.waiting
      BY <2>3, <2>5
    <3>2. ~Won(f, i) /\ i \notin Busy(f, wk)
      BY <3>1, <1>2, <1>w DEF Won, Sure, Busy
    <3> QED
      BY <3>1, <3>2, <1>2, <2>1, Idle, Statuses DEF Settable, Sure, Fits, Open, Lost
  <2>8. AppInv(b, wk, NoOp, cn)
    BY <2>6, <2>7, JobSet
  <2>9. PICK r \in CleanupJobSource(a, i, job, op.path) :
           app' = [r.s EXCEPT !.pending = @ - 1, !.job[i] = IF r.ok THEN NoJob ELSE @]
    BY <1>4 DEF FinishSubmit, i, job
  <2> HIDE DEF b
  <2>10. a \in Near(a) /\ a \in UploadState /\ a.job[i] = job /\ a.pending = app.pending /\ Synthetic \subseteq Ids
    <3>1. a \in UploadState
      BY <1>2, <2>1 DEF UploadState
    <3>2. /\ a.row = app.row /\ a.born = app.born /\ a.job = [app.job EXCEPT ![i] = job] /\ a.pending = app.pending
      BY <1>2 DEF UploadState
    <3>3. \A j \in Ids : a.job[j] = app.job[j] \/ (j = i /\ a.job[j] = job)
      BY <3>2, <1>2 DEF UploadState
    <3>4. a.job[i] = job
      BY <3>2, <1>2 DEF UploadState
    <3>5. Synthetic \subseteq Ids
      BY DEF Synthetic
    <3>6. Tidy(a, a)
      BY <3>2, <3>3, <3>5, <2>1 DEF Tidy, UploadInv, AppInv, Sides, Counted
    <3> QED
      BY <3>1, <3>2, <3>4, <3>5, <3>6 DEF Near
  <2>11. May(a, i, job)
    BY <2>1, <2>10, <1>2 DEF May, Synthetic
  <2> HIDE DEF a
  <2>12. r.s \in Near(a) /\ r.ok \in BOOLEAN
    BY <2>9, <2>10, <2>11, <1>2, CleanupJobSourceNear, HeardOf
  <2>13. r.s \in UploadState /\ r.s.pending = app.pending /\ r.s.job[i] \in UploadJob
    BY <2>10, <2>12, <1>2 DEF Near, Tidy, UploadState
  <2> DEFINE u == r.s
             g == IF r.ok THEN NoJob ELSE u.job[i]
  <2>14. app' = [u EXCEPT !.pending = u.pending - 1, !.job[i] = g]
    BY <2>9, <2>13 DEF UploadState
  <2>15. g \in UploadJob /\ g.status \in {"none", u.job[i].status} /\ u.pending - 1 \in Int
    BY <2>12, <2>13, <1>c, Sizes DEF NoJob
  <2> HIDE DEF u, g
  <2>16. u \in UploadState /\ u \in Near(a)
    BY <2>12, <2>13 DEF u
  <2>17. app' \in UploadState
    BY <2>14, <2>15, <2>16, <1>2 DEF UploadState
  <2>18. /\ app'.receipt = u.receipt /\ app'.canon = u.canon /\ app'.event = u.event /\ app'.waiting = u.waiting
         /\ app'.scheduled = u.scheduled /\ app'.pending = u.pending - 1 /\ app'.last = u.last /\ app'.born = u.born
         /\ app'.job = [u.job EXCEPT ![i] = g] /\ app'.row = u.row
    BY <2>14, <2>16 DEF UploadState
  <2>19. \A j \in Ids : app'.job[j] = u.job[j] \/ (j = i /\ app'.job[j].status \in {"none", u.job[i].status})
    BY <2>15, <2>16, <2>18, <1>2 DEF UploadState
  <2>20. app' \in Near(b)
    <3>1. /\ a.receipt = b.receipt /\ a.canon = b.canon /\ a.event = b.event
          /\ a.waiting = b.waiting /\ a.scheduled = b.scheduled /\ a.pending - 1 = b.pending /\ a.last = b.last
          /\ a.born = b.born /\ a.job = b.job /\ a.row = b.row
      BY <1>2 DEF a, b, e, f, UploadState
    <3>2. Tidy(a, u)
      BY <2>16 DEF Near
    <3>3. a.job[i].status \in Final
      BY <2>1, <2>10 DEF Final
    <3>4. Paths \subseteq Ids
      BY Sizes
    <3>5. \A j \in Paths : \/ app'.job[j].status = b.job[j].status
                           \/ b.job[j].status \in Final /\ app'.job[j].status = "none"
      BY <3>1, <3>2, <3>3, <3>4, <2>19 DEF Tidy
    <3>6. \A j \in Synthetic : app'.job[j].status \in {"none", "failed"}
      BY <3>2, <2>10, <2>19 DEF Tidy
    <3>7. Tidy(b, app')
      BY <3>1, <3>2, <3>5, <3>6, <2>18 DEF Tidy
    <3> QED
      BY <3>7, <2>17 DEF Near
  <2>21. AppInv(app', wk, NoOp, cn)
    BY <2>8, <2>20, NearKeeps
  <2>22. app'.waiting = app.waiting
    <3>1. a.waiting = app.waiting
      BY <1>2 DEF a, UploadState
    <3> QED
      BY <3>1, <2>16, <2>18 DEF Near, Tidy
  <2> QED
    BY <2>21, <2>22, <1>1 DEF UploadInv
<1> QED
  BY <1>3, <1>4

-----------------------------------------------------------------------------
(* A new file for an operation *)

(* An id is given out.                                                     *)
NextId(s) == [s EXCEPT !.last = s.last + 1]

(* Job i is new, and nobody's.                                             *)
Fresh(s, w, c, i) ==
    /\ i \in Paths /\ s.last = i /\ Virgin(s, i)
    /\ i \notin Range(s.waiting) /\ i \notin Range(s.born) /\ w.id # i /\ c.id # i

(* The next id is a new job.                                               *)
LEMMA NextIdKeeps ==
    ASSUME NEW s, NEW w, NEW c, AppInv(s, w, NoOp, c), s.last < MaxIds
    PROVE  AppInv(NextId(s), w, NoOp, c) /\ Fresh(NextId(s), w, c, s.last + 1)
<1> DEFINE i == s.last + 1
           t == [s EXCEPT !.last = i]
<1>1. s \in UploadState /\ s.last \in 0..MaxIds
  BY DEF AppInv, UploadState
<1>2. i \in 0..MaxIds /\ i \in Paths /\ s.last < i /\ i \notin 1..s.last /\ 1..s.last \subseteq 1..i /\ i # 0 /\ s.last \in Nat
  BY <1>1, Sizes DEF Paths
<1> HIDE DEF i
<1>3. t \in UploadState
  BY <1>1, <1>2 DEF UploadState
<1>4. /\ t.receipt = s.receipt /\ t.canon = s.canon /\ t.event = s.event /\ t.row = s.row /\ t.born = s.born
      /\ t.waiting = s.waiting /\ t.scheduled = s.scheduled /\ t.pending = s.pending /\ t.last = i /\ t.job = s.job
  BY <1>1 DEF UploadState
<1> HIDE DEF t
<1>5. ASSUME NEW j \in Paths PROVE JobOK(t, w, j)
  <2>1. JobOK(s, w, j)
    BY DEF AppInv
  <2>2. t.last < j => s.last < j
    BY <1>1, <1>2, <1>4, Sizes DEF i
  <2> QED
    BY <2>1, <2>2, <1>4 DEF JobOK, Fits, Won, Sure, Virgin, Busy
<1>6. Sides(t)
  BY <1>4 DEF AppInv, Sides
<1>7. WorkerOK(t, w)
  BY <1>2, <1>4 DEF AppInv, WorkerOK, Fits, Won, Sure
<1>8. OperationOK(t, w, NoOp, c)
  BY Idle DEF OperationOK
<1>9. CancelOK(t, w, c)
  BY <1>2, <1>4 DEF AppInv, CancelOK, Won, Sure, Busy
<1>10. Counted(t, w, NoOp)
  BY <1>2, <1>4 DEF AppInv, Counted
<1>11. AppInv(t, w, NoOp, c)
  BY <1>3, <1>5, <1>6, <1>7, <1>8, <1>9, <1>10 DEF AppInv
<1>12. Virgin(t, i)
  BY <1>2, <1>4 DEF AppInv, JobOK, Virgin
<1>13. i \notin Range(s.waiting) /\ i \notin Range(s.born)
  BY <1>2 DEF AppInv, Counted, Synthetic
<1>14. w.id # i /\ c.id # i
  <2>1. w.pc = "idle" => w.id = 0
    BY Idle DEF AppInv, WorkerOK
  <2>2. w.pc # "idle" => w.id \in 1..s.last
    BY DEF AppInv, WorkerOK
  <2>3. c = NoCancel \/ c.id \in 1..s.last
    BY DEF AppInv, CancelOK
  <2> QED
    BY <2>1, <2>2, <2>3, <1>2, Idle
<1>15. Fresh(t, w, c, i)
  BY <1>2, <1>4, <1>12, <1>13, <1>14 DEF Fresh
<1> QED
  BY <1>11, <1>15 DEF t, i, NextId

(* Cleanups do not touch a new job.                                        *)
LEMMA FreshNear ==
    ASSUME NEW s, NEW w, NEW c, NEW i, Fresh(s, w, c, i), NEW t \in Near(s)
    PROVE  Fresh(t, w, c, i)
<1>1. i \in Paths /\ Virgin(s, i) /\ Tidy(s, t)
  BY DEF Fresh, Near
<1>2. Virgin(t, i)
  BY <1>1, Statuses DEF Virgin, Tidy
<1>3. i \notin Range(t.born)
  BY <1>1 DEF Tidy, Fresh, Synthetic
<1> QED
  BY <1>1, <1>2, <1>3 DEF Fresh, Tidy

(* _write_staged keeps the invariant, and its file is a new job's.         *)
LEMMA StagedKeeps ==
    ASSUME NEW s, NEW w, NEW c, AppInv(s, w, NoOp, c), s.last < MaxIds, NEW a \in Near(s), NEW d \in Names,
           NEW r \in WriteStaged(a, d)
    PROVE  /\ AppInv(r.s, w, NoOp, c) /\ r.ok \in BOOLEAN /\ r.s.waiting = s.waiting
           /\ r.ok => Fresh(r.s, w, c, r.s.last)
<1>1. s \in UploadState
  BY DEF AppInv
<1>2. /\ r.ok \in BOOLEAN
      /\ r.ok => r.s \in Near(NextId(s))
      /\ r.s \in Near(s) \cup Near(NextId(s))
  BY <1>1, WriteStagedNear DEF NextId
<1>3. AppInv(NextId(s), w, NoOp, c) /\ Fresh(NextId(s), w, c, s.last + 1)
  BY NextIdKeeps
<1>4. AppInv(r.s, w, NoOp, c)
  BY <1>2, <1>3, NearKeeps
<1>5. ASSUME r.ok PROVE Fresh(r.s, w, c, r.s.last)
  <2>1. Fresh(r.s, w, c, s.last + 1)
    BY <1>2, <1>3, <1>5, FreshNear
  <2>2. r.s.last = s.last + 1
    BY <2>1 DEF Fresh
  <2> QED
    BY <2>1, <2>2
<1>6. NextId(s).waiting = s.waiting
  BY <1>1 DEF NextId, UploadState
<1>7. r.s.waiting = s.waiting
  BY <1>2, <1>6 DEF Near, Tidy
<1> QED
  BY <1>2, <1>4, <1>5, <1>7

(* A synchronous operation starts on a fresh id.                           *)
LEMMA RunsFresh ==
    ASSUME NEW s, NEW w, NEW c, AppInv(s, w, NoOp, c), NEW i, Fresh(s, w, c, i),
           NEW o \in Operation, o.pc = "running", o.kind \in {"upload", "retry", "reindex"}, o.id = i, o.path \in Paths
    PROVE  AppInv([s EXCEPT !.born = Append(s.born, i)], w, o, c)
<1> DEFINE q == Append(s.born, i)
           t == [s EXCEPT !.born = q]
<1>1. s \in UploadState /\ s.born \in Seq(Ids) /\ i \in Ids /\ i \in Paths /\ i = s.last
  BY Sizes DEF AppInv, UploadState, Fresh
<1>2. q \in Seq(Ids) /\ Range(q) = Range(s.born) \cup {i} /\ (IsInjective(s.born) => IsInjective(q))
  BY <1>1, AppendFacts DEF Fresh
<1> HIDE DEF q
<1>3. t \in UploadState
  BY <1>1, <1>2 DEF UploadState
<1>4. /\ t.receipt = s.receipt /\ t.canon = s.canon /\ t.event = s.event /\ t.row = s.row /\ t.born = q
      /\ t.waiting = s.waiting /\ t.scheduled = s.scheduled /\ t.pending = s.pending /\ t.last = s.last /\ t.job = s.job
  BY <1>1 DEF UploadState
<1> HIDE DEF t
<1>5. ASSUME NEW j \in Paths PROVE JobOK(t, w, j)
  BY <1>4 DEF AppInv, JobOK, Fits, Won, Sure, Virgin, Busy
<1>6. Sides(t)
  BY <1>4 DEF AppInv, Sides
<1>7. WorkerOK(t, w)
  BY <1>4 DEF AppInv, WorkerOK, Fits, Won, Sure
<1>8. OperationOK(t, w, o, c)
  BY <1>1, <1>4 DEF OperationOK, Fresh, Virgin
<1>9. CancelOK(t, w, c)
  BY <1>4 DEF AppInv, CancelOK, Won, Sure, Busy
<1>10. Counted(t, w, o)
  <2>1. Counted(s, w, NoOp) /\ Submitting(o) = 0
    BY DEF AppInv, Submitting
  <2>2. i \in 1..s.last
    BY <1>1, Sizes DEF Paths
  <2> QED
    BY <2>1, <2>2, <1>2, <1>4, Idle DEF Counted
<1>11. AppInv(t, w, o, c)
  BY <1>3, <1>5, <1>6, <1>7, <1>8, <1>9, <1>10 DEF AppInv
<1> QED
  BY <1>11 DEF t, q

(* What the invariant says of an admitted operation.                       *)
LEMMA AdmittedFacts ==
    ASSUME UploadInv, op.pc = "admitted"
    PROVE  /\ AppInv(app, wk, NoOp, cn) /\ app \in UploadState /\ op \in Operation /\ app \in Near(app)
           /\ op.kind \in {"submit", "upload", "retry", "reindex"} => app.last < MaxIds
<1>1. AppInv(app, wk, NoOp, cn)
  BY OperationEnds DEF UploadInv, Submitting
<1> QED
  BY <1>1, NearSelf DEF UploadInv, AppInv, OperationOK

(* Staging a file for a synchronous operation keeps the invariant.         *)
LEMMA StagingKeeps ==
    ASSUME UploadInv, op.pc = "admitted", op.kind \in {"upload", "retry", "reindex"}, wk' = wk, cn' = cn,
           NEW a \in Near(app), NEW d \in Names, NEW prev \in Paths \cup {0}, NEW doc \in Names,
           Staging(WriteStaged(a, d), prev, doc)
    PROVE  UploadInv' /\ app'.waiting = app.waiting
<1>1. AppInv(app, wk, NoOp, cn) /\ op \in Operation /\ app.last < MaxIds
  BY AdmittedFacts
<1>2. PICK r \in WriteStaged(a, d) :
         IF r.ok THEN /\ op' = [op EXCEPT !.pc = "running", !.id = r.s.last, !.path = r.s.last, !.prev = prev, !.doc = doc]
                      /\ app' = [r.s EXCEPT !.born = Append(@, r.s.last)]
         ELSE op' = NoOp /\ app' = r.s
  BY DEF Staging
<1>3. AppInv(r.s, wk, NoOp, cn) /\ r.s.waiting = app.waiting /\ (r.ok => Fresh(r.s, wk, cn, r.s.last))
  BY <1>1, <1>2, StagedKeeps
<1>4. CASE ~r.ok
  BY <1>2, <1>3, <1>4 DEF UploadInv
<1>5. CASE r.ok
  <2> DEFINE i == r.s.last
  <2>1. i \in Paths /\ r.s \in UploadState
    BY <1>3, <1>5 DEF Fresh, AppInv
  <2>2. op' = [op EXCEPT !.pc = "running", !.id = i, !.path = i, !.prev = prev, !.doc = doc]
    BY <1>2, <1>5
  <2>3. op' \in Operation /\ op'.pc = "running" /\ op'.kind = op.kind /\ op'.id = i /\ op'.path = i
    BY <2>1, <2>2, <1>1 DEF Operation
  <2>4. app' = [r.s EXCEPT !.born = Append(r.s.born, i)]
    BY <1>2, <1>5, <2>1 DEF UploadState
  <2> HIDE DEF i
  <2>5. Fresh(r.s, wk, cn, i)
    BY <1>3, <1>5 DEF i
  <2>6. AppInv(app', wk, op', cn)
    BY <2>1, <2>3, <2>4, <2>5, <1>3, RunsFresh
  <2> QED
    BY <2>1, <2>4, <2>6, <1>3 DEF UploadInv, UploadState
<1> QED
  BY <1>4, <1>5

(* upload begins.                                                          *)
LEMMA BeginUploadKeeps ==
    ASSUME UploadInv, NEW d \in Documents, BeginUpload(d)
    PROVE  UploadInv' /\ app'.waiting = app.waiting
<1>1. op.pc = "admitted" /\ op.kind = "upload" /\ wk' = wk /\ cn' = cn /\ Staging(WriteStaged(app, d), 0, "none")
  BY DEF BeginUpload, Entered
<1>2. app \in Near(app) /\ d \in Names /\ "none" \in Names /\ 0 \in Paths \cup {0}
  BY <1>1, AdmittedFacts DEF Names
<1> QED
  BY <1>1, <1>2, StagingKeeps

(* retry begins.                                                           *)
LEMMA BeginRetryKeeps ==
    ASSUME UploadInv, NEW i \in Paths, NEW d \in Documents, BeginRetry(i, d)
    PROVE  UploadInv' /\ app'.waiting = app.waiting
<1> DEFINE n == app.retries[i] + 1
<1>1. /\ op.pc = "admitted" /\ op.kind = "retry" /\ wk' = wk /\ cn' = cn
      /\ app.job[i].status = "failed" /\ app.retries[i] < MaxRetries
  BY DEF BeginRetry, Entered
<1>2. /\ app \in Near(app) /\ app \in UploadState /\ AppInv(app, wk, NoOp, cn) /\ d \in Names /\ "none" \in Names
      /\ 0 \in Paths \cup {0} /\ i \in Ids
  BY <1>1, AdmittedFacts, Sizes DEF Names
<1>3. app.retries[i] \in 0..MaxRetries /\ n \in 0..MaxRetries /\ n \in -1..MaxRetries /\ app.path[i] \in Paths \cup {0}
  BY <1>1, <1>2, Sizes DEF UploadState
<1>4. PICK r \in JournalUpsert(app, i, app.job[i], app.path[i], n, FALSE) :
         IF r.ok THEN Staging(WriteStaged([r.s EXCEPT !.retries[i] = @ + 1], d), 0, "none")
         ELSE app' = r.s /\ op' = NoOp
  BY DEF BeginRetry, n
<1>5. May(app, i, app.job[i])
  BY <1>2, MaySame
<1> HIDE DEF n
<1>6. r.s \in Near(app)
  BY <1>2, <1>3, <1>4, <1>5, JournalUpsertNear, HeardOf
<1>7. CASE ~r.ok
  <2>1. AppInv(app', wk, NoOp, cn) /\ app'.waiting = app.waiting
    BY <1>2, <1>4, <1>6, <1>7, NearKeeps DEF Near, Tidy
  <2> QED
    BY <2>1, <1>1, <1>4, <1>7 DEF UploadInv
<1>8. CASE r.ok
  <2> DEFINE u == r.s
             t == [u EXCEPT !.retries[i] = u.retries[i] + 1]
  <2>1. u.retries = app.retries /\ u \in UploadState
    <3>1. u \in {app} \/ \E source : u \in {Upserted(app, i, app.job[i], source, n)}
      <4> DEFINE source == IF app.job[i].status \in {"failed", "cancelled"} /\ ~FALSE THEN 0 ELSE app.path[i]
                 one == {Upserted(app, i, app.job[i], source, n)}
      <4>1. r \in Ok(one) \cup Unless("journal", Not({app})) \cup Not({app})
        BY <1>4 DEF JournalUpsert
      <4> HIDE DEF one
      <4>2. r.s \in one \/ r.s \in {app}
        BY <4>1, OkNot, UnlessOf
      <4> QED
        BY <4>2 DEF one
    <3>2. \A source : Upserted(app, i, app.job[i], source, n).retries = app.retries
      BY <1>2 DEF Upserted, UploadState
    <3>3. u \in UploadState
      BY <1>6 DEF Near
    <3> QED
      BY <3>1, <3>2, <3>3
  <2>2. u.retries[i] + 1 \in 0..MaxRetries
    BY <2>1, <1>3 DEF n
  <2>3. [r.s EXCEPT !.retries[i] = @ + 1] = t
    BY <2>1 DEF UploadState
  <2> HIDE DEF u
  <2>4. t \in UploadState
    BY <2>1, <2>2, <1>2 DEF UploadState
  <2>5. /\ t.receipt = u.receipt /\ t.canon = u.canon /\ t.event = u.event /\ t.waiting = u.waiting
        /\ t.scheduled = u.scheduled /\ t.pending = u.pending /\ t.last = u.last /\ t.born = u.born
        /\ t.job = u.job /\ t.row = u.row
    BY <2>1 DEF UploadState
  <2>6. u \in Near(app)
    BY <1>6 DEF u
  <2> HIDE DEF t
  <2>7. t \in Near(app)
    BY <2>4, <2>5, <2>6, NearLike
  <2>8. Staging(WriteStaged(t, d), 0, "none")
    BY <2>3, <1>4, <1>8
  <2> QED
    BY <2>7, <2>8, <1>1, <1>2, StagingKeeps
<1> QED
  BY <1>7, <1>8

(* reindex begins.                                                         *)
LEMMA BeginReindexKeeps ==
    ASSUME UploadInv, NEW d \in Documents, NEW n \in Names, BeginReindex(d, n)
    PROVE  UploadInv' /\ app'.waiting = app.waiting
<1> DEFINE p == DocPath(app, d)
<1>1. op.pc = "admitted" /\ op.kind = "reindex" /\ wk' = wk /\ cn' = cn
  BY DEF BeginReindex, Entered
<1>2. /\ app \in Near(app) /\ app \in UploadState /\ AppInv(app, wk, NoOp, cn) /\ d \in Names /\ op \in Operation
      /\ app.last < MaxIds
  BY <1>1, AdmittedFacts DEF Names
<1>3. p \in Paths \cup {0}
  BY <1>2, DocFacts
<1>4. CASE n # "none"
  <2>1. Staging(WriteStaged(app, n), p, d)
    BY <1>4 DEF BeginReindex
  <2> QED
    BY <2>1, <1>1, <1>2, <1>3, StagingKeeps
<1>5. CASE n = "none"
  <2> DEFINE i == app.last + 1
             s == NextId(app)
  <2>1. /\ p \in app.file /\ app' = [app EXCEPT !.last = i, !.born = Append(@, i)]
        /\ op' = [op EXCEPT !.pc = "running", !.id = i, !.path = p, !.prev = p, !.doc = d]
    BY <1>5 DEF BeginReindex
  <2>2. AppInv(s, wk, NoOp, cn) /\ Fresh(s, wk, cn, i)
    BY <1>2, NextIdKeeps
  <2>3. i \in Paths /\ p \in Paths
    BY <2>1, <2>2, <1>2 DEF Fresh, UploadState
  <2>4. app' = [s EXCEPT !.born = Append(s.born, i)] /\ app'.waiting = app.waiting
    BY <2>1, <1>2 DEF NextId, UploadState
  <2> HIDE DEF i, s, p
  <2>5. op' \in Operation /\ op'.pc = "running" /\ op'.kind = op.kind /\ op'.id = i /\ op'.path = p
    BY <2>1, <2>3, <1>2 DEF Operation
  <2>6. AppInv(app', wk, op', cn)
    BY <2>2, <2>3, <2>4, <2>5, <1>1, RunsFresh
  <2> QED
    BY <2>4, <2>6, <1>1 DEF UploadInv
<1> QED
  BY <1>4, <1>5

-----------------------------------------------------------------------------
(* Submission and reconciliation *)

(* A submission may take a slot for a new job.                             *)
LEMMA QueuesFresh ==
    ASSUME NEW s, NEW w, NEW c, AppInv(s, w, NoOp, c), NEW i, Fresh(s, w, c, i), s.pending < MaxJobs,
           NEW job \in UploadJob, job.status = "queued",
           NEW o \in Operation, o.pc = "running", o.kind = "submit", o.id = i, o.path \in Paths
    PROVE  AppInv([s EXCEPT !.job[i] = job, !.path[i] = i, !.event[i] = "clear",
                            !.pending = s.pending + 1, !.born = Append(s.born, i)], w, o, c)
<1> DEFINE q == Append(s.born, i)
           t == [s EXCEPT !.job[i] = job, !.path[i] = i, !.event[i] = "clear", !.pending = s.pending + 1, !.born = q]
<1>1. /\ s \in UploadState /\ s.born \in Seq(Ids) /\ i \in Ids /\ i \in Paths /\ i = s.last /\ s.last \in Int
      /\ Paths \subseteq Ids /\ s.pending \in Int
  <2>1. s \in UploadState /\ i = s.last /\ i \in Paths
    BY DEF AppInv, Fresh
  <2>2. s.born \in Seq(Ids) /\ s.pending \in Int /\ s.last \in 0..MaxIds
    BY <2>1 DEF UploadState
  <2> QED
    BY <2>1, <2>2, Sizes
<1>2. q \in Seq(Ids) /\ Range(q) = Range(s.born) \cup {i} /\ (IsInjective(s.born) => IsInjective(q))
  BY <1>1, AppendFacts DEF Fresh
<1> HIDE DEF q
<1>3. t \in UploadState
  <2>1. /\ [s.job EXCEPT ![i] = job] \in [Ids -> UploadJob] /\ [s.path EXCEPT ![i] = i] \in [Ids -> Paths \cup {0}]
        /\ [s.event EXCEPT ![i] = "clear"] \in [Ids -> {"none", "clear", "set"}] /\ s.pending + 1 \in Int
    BY <1>1 DEF UploadState
  <2>2. t = [s EXCEPT !.job = [s.job EXCEPT ![i] = job], !.path = [s.path EXCEPT ![i] = i],
                      !.event = [s.event EXCEPT ![i] = "clear"], !.pending = s.pending + 1, !.born = q]
    BY <1>1 DEF UploadState
  <2> QED
    BY <2>1, <2>2, <1>1, <1>2 DEF UploadState
<1>4. /\ t.receipt = s.receipt /\ t.canon = s.canon /\ t.row = s.row /\ t.born = q
      /\ t.waiting = s.waiting /\ t.scheduled = s.scheduled /\ t.pending = s.pending + 1 /\ t.last = s.last
      /\ t.job = [s.job EXCEPT ![i] = job] /\ t.event = [s.event EXCEPT ![i] = "clear"]
  BY <1>1 DEF UploadState
<1>x. t.job[i] = job /\ \A j \in Ids : j # i => t.job[j] = s.job[j] /\ t.event[j] = s.event[j]
  BY <1>1, <1>4 DEF UploadState
<1> HIDE DEF t
<1>b. Busy(t, w) = Busy(s, w) /\ i \notin Busy(s, w)
  BY <1>4 DEF Busy, Starting, Fresh
<1>5. ASSUME NEW j \in Paths PROVE JobOK(t, w, j)
  <2>1. JobOK(s, w, j)
    BY DEF AppInv
  <2>2. CASE j # i
    <3>1. t.job[j] = s.job[j] /\ t.event[j] = s.event[j]
      BY <2>2, <1>1, <1>x
    <3> QED
      BY <3>1, <2>1, <1>4, <1>b DEF JobOK, Fits, Won, Sure, Virgin
  <2>3. CASE j = i
    <3>1. ~(t.last < i) /\ t.job[i].status = "queued" /\ i \notin Busy(t, w)
      BY <1>1, <1>4, <1>x, <1>b
    <3>2. t.row[i].status = "none" /\ t.receipt[i].outcome = "none" /\ t.canon[i].status = "none"
      BY <1>4 DEF Fresh, Virgin
    <3> QED
      BY <2>3, <3>1, <3>2 DEF JobOK, Fits, Won, Sure, Lost
  <2> QED
    BY <2>2, <2>3
<1>6. Sides(t)
  BY <1>1, <1>4, <1>x DEF AppInv, Sides, Synthetic
<1>7. WorkerOK(t, w)
  BY <1>4 DEF AppInv, WorkerOK, Fits, Won, Sure
<1>8. OperationOK(t, w, o, c)
  BY <1>1, <1>4, <1>x DEF OperationOK, Fresh, Virgin
<1>9. CancelOK(t, w, c)
  <2>1. CancelOK(s, w, c) /\ c.id # i
    BY DEF AppInv, Fresh
  <2>2. c # NoCancel => c.id \in Ids
    BY <2>1, <1>1, Sizes DEF CancelOK, UploadState, Paths
  <2>3. c # NoCancel => t.job[c.id] = s.job[c.id] /\ t.event[c.id] = s.event[c.id]
    BY <2>1, <2>2, <1>x
  <2> QED
    BY <2>1, <2>3, <1>4, <1>b DEF CancelOK, Won, Sure
<1>10. Counted(t, w, o)
  <2>1. Counted(s, w, NoOp) /\ Submitting(o) = 1
    BY DEF AppInv, Submitting
  <2>2. i \in 1..s.last
    BY <1>1, Sizes DEF Paths
  <2>3. s.waiting \in Seq(Ids) /\ Len(s.waiting) \in Nat
    BY <1>1 DEF UploadState
  <2>4. t.pending = Len(t.waiting) + (IF w.pc = "idle" THEN 0 ELSE 1) + Submitting(o)
    BY <2>1, <2>3, <1>4, Idle DEF Counted
  <2>5. t.pending <= MaxJobs
    BY <1>1, <1>4, Sizes
  <2> QED
    BY <2>1, <2>2, <2>4, <2>5, <1>2, <1>4, Idle DEF Counted
<1>11. AppInv(t, w, o, c)
  BY <1>3, <1>5, <1>6, <1>7, <1>8, <1>9, <1>10 DEF AppInv
<1> QED
  BY <1>11 DEF t, q

(* submit begins, if a slot is free.                                       *)
LEMMA BeginSubmitKeeps ==
    ASSUME UploadInv, NEW d \in Documents, BeginSubmit(d)
    PROVE  UploadInv' /\ app'.waiting = app.waiting
<1> DEFINE job == [NoJob EXCEPT !.status = "queued"]
<1>1. op.pc = "admitted" /\ op.kind = "submit" /\ wk' = wk /\ cn' = cn /\ app.pending < MaxJobs
  BY DEF BeginSubmit, Entered
<1>2. /\ app \in Near(app) /\ app \in UploadState /\ AppInv(app, wk, NoOp, cn) /\ d \in Names /\ op \in Operation
      /\ app.last < MaxIds
  BY <1>1, AdmittedFacts DEF Names
<1>3. PICK r \in WriteStaged(app, d) :
         IF r.ok THEN /\ op' = [op EXCEPT !.pc = "running", !.id = r.s.last, !.path = r.s.last]
                      /\ app' \in UNION {EvictIfNeeded(u) : u \in Journaled(
                            [r.s EXCEPT !.job[r.s.last] = job, !.path[r.s.last] = r.s.last, !.event[r.s.last] = "clear",
                                        !.pending = @ + 1, !.born = Append(@, r.s.last)], r.s.last, job, r.s.last)}
         ELSE op' = NoOp /\ app' = r.s
  BY DEF BeginSubmit
<1>4. AppInv(r.s, wk, NoOp, cn) /\ r.s.waiting = app.waiting /\ (r.ok => Fresh(r.s, wk, cn, r.s.last))
  BY <1>2, <1>3, StagedKeeps
<1>5. CASE ~r.ok
  BY <1>1, <1>3, <1>4, <1>5 DEF UploadInv
<1>6. CASE r.ok
  <2> DEFINE i == r.s.last
             t == [r.s EXCEPT !.job[i] = job, !.path[i] = i, !.event[i] = "clear",
                              !.pending = r.s.pending + 1, !.born = Append(r.s.born, i)]
  <2>1. Fresh(r.s, wk, cn, i) /\ i \in Paths /\ r.s \in UploadState /\ i \in Ids
    BY <1>4, <1>6, Sizes DEF Fresh, AppInv
  <2>2. r.s.pending = app.pending
    <3>1. r.s \in Near([app EXCEPT !.last = app.last + 1])
      BY <1>2, <1>3, <1>6, WriteStagedNear
    <3>2. [app EXCEPT !.last = app.last + 1].pending = app.pending
      BY <1>2 DEF UploadState
    <3> QED
      BY <3>1, <3>2 DEF Near, Tidy
  <2>3. job \in UploadJob /\ job.status = "queued"
    BY Sizes DEF NoJob, UploadJob, Status, Recoverable
  <2>4. op' = [op EXCEPT !.pc = "running", !.id = i, !.path = i]
    BY <1>3, <1>6
  <2>5. op' \in Operation /\ op'.pc = "running" /\ op'.kind = "submit" /\ op'.id = i /\ op'.path = i
    BY <2>1, <2>4, <1>1, <1>2 DEF Operation
  <2>6. [r.s EXCEPT !.job[i] = job, !.path[i] = i, !.event[i] = "clear", !.pending = @ + 1, !.born = Append(@, i)] = t
    BY <2>1 DEF UploadState
  <2>j. t.job[i] = job /\ t.waiting = app.waiting
    BY <2>1, <1>4 DEF UploadState
  <2> HIDE DEF job
  <2>7. AppInv(t, wk, op', cn)
    <3> HIDE DEF i
    <3> QED
      BY <2>1, <2>2, <2>3, <2>5, <1>1, <1>4, QueuesFresh
  <2>8. app' \in UNION {EvictIfNeeded(u) : u \in Journaled(t, i, job, i)}
    BY <2>6, <1>3, <1>6
  <2> HIDE DEF t, i
  <2>9. t \in Near(t)
    BY <2>7, NearSelf
  <2>10. May(t, i, job)
    BY <2>1, <2>3, <2>j DEF May, Synthetic
  <2>11. Journaled(t, i, job, i) \subseteq Near(t)
    BY <2>1, <2>9, <2>10, JournaledNear
  <2>12. app' \in Near(t)
    BY <2>8, <2>11, EvictIfNeededNear
  <2>13. AppInv(app', wk, op', cn)
    BY <2>7, <2>12, NearKeeps
  <2> QED
    BY <2>j, <2>12, <2>13, <1>1 DEF UploadInv, Near, Tidy
<1> QED
  BY <1>5, <1>6

(* reconcile_publication keeps the invariant.                              *)
LEMMA ReconcilePublicationKeeps ==
    ASSUME UploadInv, NEW i \in Paths, ReconcilePublication(i)
    PROVE  UploadInv' /\ app'.waiting = app.waiting
<1> DEFINE old == app.job[i]
           p == app.path[i]
           snapshot == IF app.canon[i] # NoJob THEN app.canon[i] ELSE old
           register(s, job) ==
               IF p = 0 THEN Journaled(s, i, job, 0)
               ELSE IF job.status = "published" /\ DocPath(s, old.doc) = p THEN {s}
               ELSE RecordResult(s, i, job, p, 0)
<1>1. /\ op.pc = "admitted" /\ op.kind = "reconcile" /\ GuardFree /\ wk' = wk /\ cn' = cn /\ op' = NoOp
      /\ app.job[i].status # "none"
  BY DEF ReconcilePublication, Entered, Known
<1>2. app \in UploadState /\ AppInv(app, wk, NoOp, cn) /\ i \in Ids /\ wk.pc # "register" /\ NoOp.pc = "none"
  BY <1>1, AdmittedFacts, Sizes, Idle DEF GuardFree
<1>3. p \in Paths \cup {0} /\ old \in UploadJob /\ app.last \in Int /\ i \in Int
  BY <1>2, Sizes DEF UploadState
<1>4. JobOK(app, wk, i)
  BY <1>2 DEF AppInv
<1>5. ~Registering(wk, i) /\ i <= app.last
  BY <1>1, <1>2, <1>3, <1>4 DEF Registering, JobOK, Virgin
<1>6. ASSUME NEW s, NEW job, AppInv(s, wk, NoOp, cn), Settable(s, wk, NoOp, cn, i, job), s.job[i] = job,
             NEW t \in register(s, job)
      PROVE  AppInv(t, wk, NoOp, cn) /\ t.waiting = s.waiting
  <2> HIDE DEF p, old
  <2>1. CASE t \in Journaled(s, i, job, 0)
    <3>1. s \in Near(s) /\ May(s, i, job)
      BY <1>2, <1>6, NearSelf DEF May, Settable, Synthetic
    <3>2. t \in Near(s)
      BY <2>1, <3>1, JournaledNear
    <3> QED
      BY <3>2, <1>6, NearKeeps DEF Near, Tidy
  <2>2. CASE t \in {s}
    BY <2>2, <1>6
  <2>3. CASE p \in Paths /\ t \in RecordResult(s, i, job, p, 0)
    BY <2>3, <1>6, RecordResultKeeps
  <2> QED
    BY <2>1, <2>2, <2>3, <1>3, <1>6
<1>7. CASE old.status # "unknown"
  <2>1. app' \in register(app, old)
    BY <1>7 DEF ReconcilePublication
  <2>2. Settable(app, wk, NoOp, cn, i, old)
    <3>1. cn # NoCancel /\ cn.id = i /\ Sure(app, i) => app.canon[i].status \in Final \/ old.status = "unknown" \/ Registering(wk, i)
      BY <1>2 DEF AppInv, CancelOK
    <3> QED
      BY <3>1, <1>2, <1>3, <1>4, <1>5 DEF Settable, JobOK
  <2> HIDE DEF register
  <2>3. AppInv(app', wk, NoOp, cn) /\ app'.waiting = app.waiting
    BY <2>1, <2>2, <1>2, <1>6
  <2> QED
    BY <2>3, <1>1 DEF UploadInv
<1>8. CASE old.status = "unknown"
  <2>1. PICK r \in Recovered(app, i, snapshot) :
           \/ app' = r.s
           \/ /\ r.ok /\ RecoveredJob(r.s, i, old).status # "validating"
              /\ app' \in register([r.s EXCEPT !.job[i] = RecoveredJob(r.s, i, old)], RecoveredJob(r.s, i, old))
    BY <1>8 DEF ReconcilePublication
  <2> DEFINE job == RecoveredJob(r.s, i, old)
             s == r.s
             b == [s EXCEPT !.job[i] = job]
  <2>2. /\ r.ok \in BOOLEAN /\ Judged(app, s, i)
        /\ \/ s = app /\ (r.ok => app.receipt[i].outcome = "none" /\ app.asked[i] = {})
           \/ /\ app.receipt[i].outcome # "none" /\ s.receipt[i].outcome # "none"
              /\ s.canon[i] = ReceiptJob(s.receipt[i]) \/ (~r.ok /\ s.canon[i].status = "unknown")
              /\ s.receipt[i].outcome = app.receipt[i].outcome \/ app.receipt[i].outcome = "pending"
              /\ s.receipt[i].unheard = app.receipt[i].unheard
           \/ /\ r.ok /\ app.receipt[i].outcome = "none" /\ app.asked[i] # {} /\ s.receipt[i] = app.receipt[i]
              /\ s.canon[i].status \in {"cancelled", "validating"}
    BY <2>1, <1>2, RecoveredFacts
  <2>3. i \notin Busy(app, wk)
    BY <1>4, <1>8 DEF JobOK
  <2>s. s \in UploadState /\ s.receipt[i] \in Receipt /\ s.canon[i] \in UploadJob
    BY <2>2, <1>2 DEF Judged, UploadState
  <2>e. /\ s.job = app.job /\ s.row = app.row /\ s.event = app.event /\ s.last = app.last /\ s.waiting = app.waiting
        /\ s.asked = app.asked
    BY <2>2 DEF Judged
  <2> HIDE DEF register, snapshot, old, p
  <2>4. CASE s = app /\ (r.ok => app.receipt[i].outcome = "none" /\ app.asked[i] = {})
    <3>1. Fits(app, i, old.status) /\ Fits(app, i, app.canon[i].status)
      BY <1>4 DEF JobOK, old
    <3>2. CASE ~r.ok
      <4>1. app' = app
        BY <2>1, <2>4, <3>2
      <4> QED
        BY <4>1, <1>1, <1>2 DEF UploadInv
    <3>3. CASE r.ok
      <4>1. app.receipt[i].outcome = "none" /\ app.asked[i] = {} /\ ~Won(app, i) /\ ~Sure(app, i)
        BY <2>2, <2>4, <3>3 DEF Won, Sure
      <4>2. job = old
        BY <4>1, <2>4 DEF RecoveredJob
      <4>3. Settable(app, wk, NoOp, cn, i, job)
        BY <4>1, <4>2, <3>1, <2>3, <1>2, <1>3, <1>5, <1>8, Statuses DEF Settable
      <4>4. AppInv(b, wk, NoOp, cn) /\ b.job[i] = job /\ b.waiting = app.waiting
        BY <4>3, <2>4, <1>2, JobSet DEF UploadState
      <4>5. Settable(b, wk, NoOp, cn, i, job)
        BY <4>3, <2>4, <1>2 DEF Settable, UploadState, Won, Sure, Fits, Busy
      <4>6. app' = app \/ app' \in register(b, job)
        BY <2>1, <2>4
      <4> HIDE DEF b, job
      <4>7. AppInv(app', wk, NoOp, cn) /\ app'.waiting = app.waiting
        BY <4>4, <4>5, <4>6, <1>2, <1>6
      <4> QED
        BY <4>7, <1>1 DEF UploadInv
    <3> QED
      BY <3>2, <3>3, <2>2
  <2>5. CASE /\ s.receipt[i].outcome # "none" \/ s.asked[i] # {}
             /\ \/ /\ s.canon[i] = ReceiptJob(s.receipt[i]) \/ (~r.ok /\ s.canon[i].status = "unknown")
                   /\ s.receipt[i].outcome # "none"
                   /\ s.receipt[i].outcome = app.receipt[i].outcome \/ app.receipt[i].outcome = "pending"
                   /\ s.receipt[i].unheard = app.receipt[i].unheard
                \/ /\ s.receipt[i].outcome = "none" /\ s.receipt[i] = app.receipt[i]
                   /\ s.canon[i].status \in {"cancelled", "validating"}
    <3> DEFINE c == s.receipt[i]
    <3>1. job = s.canon[i]
      BY <2>5 DEF RecoveredJob
    <3>2. /\ ReceiptJob(c) \in UploadJob /\ ReceiptJob(c).status \notin Open
          /\ c.outcome = "committed" => ReceiptJob(c).status = "published"
          /\ c.outcome = "pending" => ReceiptJob(c).status = "unknown"
          /\ c.outcome \notin {"committed", "pending"} => ReceiptJob(c).status = c.outcome
      BY <2>s, ReceiptJobFacts
    <3>3. c.outcome \in {"none", "pending", "committed", "failed", "cancelled"}
      BY <2>s DEF Receipt
    <3>4. Fits(s, i, s.canon[i].status)
      <4>1. CASE c.outcome # "none" /\ s.canon[i] = ReceiptJob(c)
        BY <4>1, <3>2, <3>3 DEF Fits, Won, Sure, Lost
      <4>2. CASE s.canon[i].status = "unknown"
        BY <4>2, Statuses DEF Fits
      <4>3. CASE c.outcome = "none" /\ s.canon[i].status \in {"cancelled", "validating"}
        BY <4>3 DEF Fits, Won, Sure
      <4> QED
        BY <4>1, <4>2, <4>3, <2>5
    <3>5. Fits(s, i, s.job[i].status) /\ s.job[i].status = "unknown"
      BY <1>8, <2>e, Statuses DEF Fits, old
    <3>6. Fits(s, i, s.row[i].status)
      BY <2>e, <2>5, <1>4 DEF JobOK, Fits, Won, Sure
    <3>7. i \notin Busy(s, wk)
      BY <2>3, <2>e DEF Busy
    <3>8. Judgeable(app, s, wk, NoOp, cn, i)
      BY <3>4, <3>5, <3>6, <2>3, <2>e, <1>2, <1>5, Statuses DEF Judgeable
    <3>9. AppInv(s, wk, NoOp, cn)
      BY <3>8, <2>2, <1>2, <1>5, JudgedAside
    <3>w. CASE app' = s
      BY <3>w, <3>9, <2>e, <1>1 DEF UploadInv
    <3>k. CASE r.ok /\ job.status # "validating" /\ app' \in register(b, job)
      <4>o. s.canon[i].status \notin Open /\ (Sure(s, i) => s.canon[i].status \in {"unknown", "published"})
        <5>1. CASE c.outcome # "none" /\ s.canon[i] = ReceiptJob(c)
          BY <5>1, <3>2, <3>3 DEF Won, Sure
        <5>2. CASE c.outcome = "none" /\ s.canon[i].status = "cancelled"
          BY <5>2 DEF Won, Sure, Open
        <5> QED
          BY <5>1, <5>2, <3>1, <3>k, <2>5
      <4>10. Settable(s, wk, NoOp, cn, i, job)
        <5>2. Sure(s, i) => s.canon[i].status \in Final \/ job.status = "unknown"
          BY <4>o, <3>1, Statuses
        <5>3. job \in UploadJob /\ job.status \notin Open /\ Fits(s, i, job.status)
          BY <4>o, <3>1, <3>4, <2>s
        <5> HIDE DEF job, s
        <5> QED
          BY <5>2, <5>3, <3>7, <2>e, <1>2, <1>5 DEF Settable
      <4>11. AppInv(b, wk, NoOp, cn) /\ b.job[i] = job /\ b.waiting = app.waiting
        BY <3>9, <4>10, <2>s, <2>e, <1>2, JobSet DEF UploadState
      <4>12. Settable(b, wk, NoOp, cn, i, job)
        BY <4>10, <2>s, <1>2 DEF Settable, UploadState, Won, Sure, Fits, Busy
      <4> HIDE DEF b, job, s
      <4>14. AppInv(app', wk, NoOp, cn) /\ app'.waiting = app.waiting
        BY <4>11, <4>12, <3>k, <1>6
      <4> QED
        BY <4>14, <1>1 DEF UploadInv
    <3> QED
      BY <3>w, <3>k, <2>1
  <2> QED
    BY <2>2, <2>4, <2>5, <2>e
<1> QED
  BY <1>7, <1>8

-----------------------------------------------------------------------------
(* Cancellation *)

(* cancel may end.                                                         *)
LEMMA CancelEnds ==
    ASSUME NEW s, NEW w, NEW o, NEW c, AppInv(s, w, o, c)
    PROVE  AppInv(s, w, o, NoCancel)
<1>1. OperationOK(s, w, o, NoCancel)
  <2>1. \A i \in Paths : i # 0
    BY Sizes DEF Paths
  <2> QED
    BY <2>1, Idle DEF AppInv, OperationOK
<1>2. CancelOK(s, w, NoCancel)
  BY Idle DEF CancelOK
<1> QED
  BY <1>1, <1>2 DEF AppInv

(* A row may become unknown.                                               *)
LEMMA UnknownRow ==
    ASSUME NEW s, NEW w, NEW o, NEW c, AppInv(s, w, o, c), NEW i \in Paths, i <= s.last, o.pc # "running",
           NEW row \in JournalRow, row.status \in {s.row[i].status, "unknown"}
    PROVE  AppInv([s EXCEPT !.row[i] = row], w, o, c)
<1> DEFINE t == [s EXCEPT !.row[i] = row]
<1>0. s \in UploadState /\ i \in Ids /\ Paths \subseteq Ids /\ s.last \in Int /\ i \in Int
  <2>1. s \in UploadState
    BY DEF AppInv
  <2>2. s.last \in 0..MaxIds
    BY <2>1 DEF UploadState
  <2>3. i \in Ids /\ i \in Int /\ s.last \in Int
    BY <2>2, Sizes
  <2> QED
    BY <2>1, <2>3, Sizes
<1>1. t \in UploadState
  BY <1>0 DEF UploadState
<1>2. /\ t.receipt = s.receipt /\ t.canon = s.canon /\ t.event = s.event /\ t.job = s.job /\ t.born = s.born
      /\ t.waiting = s.waiting /\ t.scheduled = s.scheduled /\ t.pending = s.pending /\ t.last = s.last
      /\ t.row = [s.row EXCEPT ![i] = row]
  BY <1>0 DEF UploadState
<1>3. t.row[i] = row /\ \A j \in Ids : j # i => t.row[j] = s.row[j]
  BY <1>0, <1>2 DEF UploadState
<1> HIDE DEF t
<1>4. ASSUME NEW j \in Paths PROVE JobOK(t, w, j)
  <2>1. JobOK(s, w, j)
    BY DEF AppInv
  <2>2. CASE j # i
    <3>1. t.row[j] = s.row[j]
      BY <2>2, <1>0, <1>3
    <3> QED
      BY <3>1, <2>1, <1>2 DEF JobOK, Fits, Won, Sure, Virgin, Busy
  <2>3. CASE j = i
    <3>1. ~(t.last < i) /\ t.row[i].status \in {s.row[i].status, "unknown"}
      BY <1>0, <1>2, <1>3
    <3> QED
      BY <2>1, <2>3, <3>1, <1>2, Statuses DEF JobOK, Fits, Won, Sure, Busy
  <2> QED
    BY <2>2, <2>3
<1>5. Sides(t)
  BY <1>0, <1>2, <1>3 DEF AppInv, Sides, Synthetic
<1>6. WorkerOK(t, w)
  BY <1>2 DEF AppInv, WorkerOK, Fits, Won, Sure
<1>7. OperationOK(t, w, o, c)
  BY <1>2 DEF AppInv, OperationOK
<1>8. CancelOK(t, w, c)
  BY <1>2 DEF AppInv, CancelOK, Busy, Won, Sure
<1>9. Counted(t, w, o)
  BY <1>2 DEF AppInv, Counted
<1>10. AppInv(t, w, o, c)
  BY <1>1, <1>4, <1>5, <1>6, <1>7, <1>8, <1>9 DEF AppInv
<1> QED
  BY <1>10 DEF t

(* Cleanups do not depend on the events.                                   *)
LEMMA NearEvent ==
    ASSUME NEW b \in UploadState, NEW s \in Near(b), NEW i \in Ids, NEW e \in {"none", "clear", "set"}
    PROVE  [s EXCEPT !.event[i] = e] \in Near([b EXCEPT !.event[i] = e])
<1> DEFINE t == [s EXCEPT !.event[i] = e]
           z == [b EXCEPT !.event[i] = e]
<1>1. s \in UploadState /\ Tidy(b, s)
  BY DEF Near
<1>2. t \in UploadState
  BY <1>1 DEF UploadState
<1>3. /\ t.receipt = s.receipt /\ t.canon = s.canon /\ t.row = s.row /\ t.job = s.job /\ t.born = s.born
      /\ t.waiting = s.waiting /\ t.scheduled = s.scheduled /\ t.pending = s.pending /\ t.last = s.last
      /\ t.event = [s.event EXCEPT ![i] = e]
  BY <1>1 DEF UploadState
<1>4. /\ z.receipt = b.receipt /\ z.canon = b.canon /\ z.row = b.row /\ z.job = b.job /\ z.born = b.born
      /\ z.waiting = b.waiting /\ z.scheduled = b.scheduled /\ z.pending = b.pending /\ z.last = b.last
      /\ z.event = [b.event EXCEPT ![i] = e]
  BY DEF UploadState
<1> HIDE DEF t, z
<1>5. Tidy(z, t)
  BY <1>1, <1>3, <1>4 DEF Tidy
<1>6. t \in Near(z)
  BY <1>2, <1>5 DEF Near
<1> QED
  BY <1>6 DEF t, z

(* Releasing the source of a cancelled job is a cleanup.                   *)
LEMMA ReleasedNear ==
    ASSUME NEW b, NEW s \in Near(b), NEW i, NEW job, May(b, i, job)
    PROVE  Released(s, i, job) \subseteq Near(b)
<1> DEFINE p == s.path[i]
<1>1. s \in UploadState /\ i \in Ids
  BY DEF Near, May
<1>2. p \in Paths \cup {0} /\ 0 \in Paths \cup {0}
  BY <1>1 DEF UploadState
<1> HIDE DEF p
<1>3. [s EXCEPT !.path[i] = 0] \in Near(b)
  BY <1>1, <1>2, NearPath
<1>4. Journaled([s EXCEPT !.path[i] = 0], i, job, 0) \subseteq Near(b)
  BY <1>2, <1>3, JournaledNear
<1>5. States(CleanupJobSource(s, i, job, p)) \subseteq Near(b)
  BY <1>2, CleanupJobSourceNear, HeardOf
<1> QED
  BY <1>4, <1>5 DEF Released, p

(* The second lock section of cancel keeps the invariant: a job with a     *)
(* receipt is not cancelled.                                               *)
LEMMA ReconcileCancelKeeps ==
    ASSUME UploadInv, ReconcileCancel
    PROVE  UploadInv' /\ app'.waiting = app.waiting
<1> DEFINE i == cn.id
           known == app.job[i].status # "none"
           base == IF known THEN app.job[i] ELSE cn.job
           job == CancelledJob(app, i, base)
           kept == IF known \/ app.canon[i].status \in Final THEN [app EXCEPT !.job[i] = job] ELSE app
           journaled == Journaled(kept, i, job, app.path[i])
           z == [app EXCEPT !.job[i] = job]
<1>1. cn # NoCancel /\ GuardFree /\ cn' = NoCancel /\ op' = op /\ wk' = wk
  BY DEF ReconcileCancel
<1>2. app \in UploadState /\ CancelOK(app, wk, cn) /\ AppInv(app, wk, op, cn) /\ AppInv(app, wk, op, NoCancel)
  BY CancelEnds DEF UploadInv, AppInv
<1>3. /\ i \in 1..app.last /\ cn.job.status \notin Final /\ cn.job \in UploadJob
      /\ Sure(app, i) => app.canon[i].status \in Final \/ app.job[i].status = "unknown" \/ Registering(wk, i)
      /\ i \in Busy(app, wk) => app.event[i] = "set"
  BY <1>1, <1>2 DEF CancelOK, Canceller
<1>4. i \in Paths /\ i \in Ids /\ i <= app.last /\ app.last \in Int
  BY <1>2, <1>3, Sizes DEF UploadState, Paths
<1>5. op.pc # "running" /\ ~Registering(wk, i)
  BY <1>1 DEF GuardFree, LockFree, Registering
<1>6. JobOK(app, wk, i) /\ app.job[i] \in UploadJob /\ app.canon[i] \in UploadJob /\ app.path[i] \in Paths \cup {0}
  BY <1>2, <1>4 DEF AppInv, UploadState
<1>k. i \in Known(app) <=> known
  BY <1>4 DEF Known
<1>7. app' \in IF i \in app.scheduled \/ job.status # "cancelled" THEN journaled
               ELSE UNION {IF s.path[i] = 0 THEN {[s EXCEPT !.event[i] = "none"]}
                           ELSE Released([s EXCEPT !.event[i] = "none"], i, job) : s \in journaled}
  BY <1>k DEF ReconcileCancel
<1>8. base \in UploadJob
  BY <1>3, <1>6
<1> HIDE DEF base
<1>9. job \in UploadJob
  BY <1>6, <1>8 DEF CancelledJob, UploadJob, Status, Final
<1> HIDE DEF i, known, job
<1>10. CASE ~known /\ app.canon[i].status \notin Final /\ job.status = "unknown"
  <2>1. app' \in Journaled(app, i, job, app.path[i])
    BY <1>7, <1>10
  <2>2. PICK r \in JournalUpsert(app, i, job, app.path[i], Keep, FALSE) : app' = r.s
    BY <2>1 DEF Journaled, States
  <2> DEFINE source == IF job.status \in {"failed", "cancelled"} /\ ~FALSE THEN 0 ELSE app.path[i]
             row == NewRow(app, i, job, source, Keep)
             one == {[app EXCEPT !.row[i] = row]}
  <2>3. r \in Ok(one) \cup Unless("journal", Not({app})) \cup Not({app})
    BY <2>2 DEF JournalUpsert, Upserted
  <2> HIDE DEF one
  <2>4. r.s \in one \/ r.s \in {app}
    BY <2>3, OkNot, UnlessOf
  <2>5. source \in Paths \cup {0} /\ Keep \in -1..MaxRetries
    BY <1>6, Sizes DEF Keep
  <2> HIDE DEF source
  <2>6. row \in JournalRow /\ row.status \in {app.row[i].status, job.status}
    BY <2>5, <1>2, <1>4, <1>9, NewRowFacts
  <2> HIDE DEF row
  <2>7. AppInv([app EXCEPT !.row[i] = row], wk, op, NoCancel)
    BY <2>6, <1>2, <1>4, <1>5, <1>10, UnknownRow
  <2>8. AppInv(app', wk, op, NoCancel) /\ app'.waiting = app.waiting
    BY <2>2, <2>4, <2>7, <1>2 DEF one, UploadState
  <2> QED
    BY <2>8, <1>1 DEF UploadInv
<1>11. CASE known \/ app.canon[i].status \in Final \/ job.status # "unknown"
  <2>1. CASE job.status = "unknown"
    <3>1. app.canon[i].status \notin Final /\ known /\ job = app.job[i]
      BY <2>1, <1>11, Statuses DEF CancelledJob, job, base
    <3>2. Settable(app, wk, op, NoCancel, i, job)
      BY <3>1, <1>4, <1>5, <1>6 DEF Settable, JobOK
    <3>3. AppInv(z, wk, op, NoCancel) /\ z.job[i] = job /\ z.waiting = app.waiting
      BY <3>2, <1>2, <1>4, JobSet DEF UploadState
    <3>4. app' \in Journaled(z, i, job, app.path[i])
      BY <2>1, <3>1, <1>7
    <3> HIDE DEF z
    <3>5. z \in Near(z) /\ May(z, i, job)
      BY <3>3, <1>4, <1>9, NearSelf DEF May, Synthetic
    <3>6. app' \in Near(z)
      BY <3>4, <3>5, <1>6, JournaledNear
    <3>7. AppInv(app', wk, op, NoCancel) /\ app'.waiting = app.waiting
      BY <3>3, <3>6, NearKeeps DEF Near, Tidy
    <3> QED
      BY <3>7, <1>1 DEF UploadInv
  <2>2. CASE job.status # "unknown"
    <3>1. job.status \in Final /\ Fits(app, i, job.status)
      <4>1. CASE app.canon[i].status \in Final
        <5>1. job = app.canon[i]
          BY <4>1 DEF CancelledJob, job
        <5> QED
          BY <5>1, <4>1, <1>6 DEF JobOK
      <4>2. CASE app.canon[i].status \notin Final
        <5>1. base.status # "unknown" /\ job = [base EXCEPT !.status = "cancelled"]
          BY <4>2, <2>2 DEF CancelledJob, job
        <5>2. job.status = "cancelled"
          BY <5>1, <1>8 DEF UploadJob
        <5>3. ~Sure(app, i)
          BY <4>2, <5>1, <1>3, <1>5 DEF base, known, i
        <5> QED
          BY <5>2, <5>3 DEF Fits, Final
      <4> QED
        BY <4>1, <4>2
    <3>2. Settable(app, wk, op, NoCancel, i, job)
      BY <3>1, <1>3, <1>4, <1>5, <1>9, Statuses DEF Settable, i
    <3>3. AppInv(z, wk, op, NoCancel) /\ z.job[i] = job /\ z \in UploadState
      BY <3>2, <1>2, <1>4, JobSet DEF UploadState, AppInv
    <3>4. /\ z.receipt = app.receipt /\ z.canon = app.canon /\ z.event = app.event /\ z.row = app.row /\ z.born = app.born
          /\ z.waiting = app.waiting /\ z.scheduled = app.scheduled /\ z.pending = app.pending /\ z.last = app.last
          /\ \A j \in Ids : j # i => z.job[j] = app.job[j]
      BY <1>2, <1>4 DEF UploadState
    <3> HIDE DEF z
    <3>5. z \in Near(z) /\ May(z, i, job)
      BY <3>3, <1>4, <1>9, NearSelf DEF May, Synthetic
    <3>6. app \in Near(z) \/ known
      <4>1. ASSUME ~known PROVE Tidy(z, app)
        <5>1. app.job[i].status = "none" /\ Paths \subseteq Ids
          BY <4>1, Sizes DEF known
        <5>2. \A j \in Paths : \/ app.job[j].status = z.job[j].status
                               \/ z.job[j].status \in Final /\ app.job[j].status = "none"
          BY <5>1, <3>1, <3>3, <3>4
        <5>3. Tidy(z, z)
          BY <3>5 DEF Near
        <5>4. \A j \in Synthetic : app.job[j] = z.job[j]
          BY <3>4, <1>4 DEF Synthetic
        <5> QED
          BY <5>2, <5>3, <5>4, <3>4 DEF Tidy
      <4> QED
        BY <4>1, <1>2 DEF Near
    <3>7. kept \in Near(z)
      BY <3>5, <3>6 DEF z
    <3> HIDE DEF kept
    <3>8. journaled \subseteq Near(z)
      BY <3>5, <3>7, <1>6, JournaledNear
    <3> HIDE DEF journaled
    <3>9. CASE i \in app.scheduled \/ job.status # "cancelled"
      <4>1. AppInv(app', wk, op, NoCancel) /\ app'.waiting = app.waiting
        BY <3>3, <3>4, <3>8, <3>9, <1>7, NearKeeps DEF Near, Tidy
      <4> QED
        BY <4>1, <1>1 DEF UploadInv
    <3>10. CASE ~(i \in app.scheduled \/ job.status # "cancelled")
      <4> DEFINE y == [z EXCEPT !.event[i] = "none"]
      <4>1. i \notin Busy(z, wk)
        <5>1. Counted(app, wk, op)
          BY <1>2 DEF AppInv
        <5> QED
          BY <5>1, <3>4, <3>10 DEF Counted, Busy, Starting, Held
      <4>2. AppInv(y, wk, op, NoCancel) /\ y.job = z.job /\ y.waiting = z.waiting
        BY <4>1, <3>3, <1>4, EventSet DEF UploadState
      <4>3. May(y, i, job)
        BY <4>2, <3>5 DEF May
      <4>4. PICK s \in journaled :
               app' \in IF s.path[i] = 0 THEN {[s EXCEPT !.event[i] = "none"]}
                        ELSE Released([s EXCEPT !.event[i] = "none"], i, job)
        BY <3>10, <1>7
      <4>5. [s EXCEPT !.event[i] = "none"] \in Near(y)
        BY <4>4, <3>3, <3>8, <1>4, NearEvent
      <4> HIDE DEF y
      <4>6. app' \in Near(y)
        BY <4>3, <4>4, <4>5, ReleasedNear
      <4>7. AppInv(app', wk, op, NoCancel) /\ app'.waiting = app.waiting
        BY <4>2, <4>6, <3>4, NearKeeps DEF Near, Tidy
      <4> QED
        BY <4>7, <1>1 DEF UploadInv
    <3> QED
      BY <3>9, <3>10
  <2> QED
    BY <2>1, <2>2
<1> QED
  BY <1>10, <1>11

-----------------------------------------------------------------------------
(* Deletion, and a future that leaves the queue *)

(* A finite set listed as a sequence.                                      *)
LEMMA SetToSeqFacts ==
    ASSUME NEW S, IsFiniteSet(S)
    PROVE  SetToSeq(S) \in Seq(S)
<1> DEFINE n == Cardinality(S)
<1>1. n \in Nat /\ ExistsBijection(1..n, S)
  BY FS_CardinalityType
<1>2. \E f \in [1..n -> S] : IsInjective(f)
  BY <1>1 DEF ExistsBijection, Bijection, Injection
<1>3. SetToSeq(S) \in [1..n -> S]
  BY <1>2 DEF SetToSeq
<1> HIDE DEF n
<1> QED
  BY <1>1, <1>3

(* A chain of cleanups is a cleanup.                                       *)
LEMMA EachNear ==
    ASSUME NEW b, NEW s \in Near(b), NEW seq \in Seq(Ids), NEW F,
           \A i \in Ids : \A t \in Near(b) : F[i][t] \subseteq Near(b)
    PROVE  Each({s}, seq, F) \subseteq Near(b)
<1> DEFINE A == [k \in 0..Len(seq) |-> Near(b)]
<1>1. Len(seq) \in Nat /\ \A k \in 1..Len(seq) : seq[k] \in Ids /\ k - 1 \in 0..Len(seq) /\ k \in 0..Len(seq)
  OBVIOUS
<1>2. A[0] = Near(b) /\ A[Len(seq)] = Near(b) /\ \A k \in 1..Len(seq) : A[k - 1] = Near(b) /\ A[k] = Near(b)
  BY <1>1
<1> HIDE DEF A
<1>3. \A k \in 1..Len(seq) : \A t \in A[k - 1] : F[seq[k]][t] \subseteq A[k]
  BY <1>1, <1>2
<1>4. {s} \subseteq A[0]
  BY <1>2
<1>5. Each({s}, seq, F) \subseteq A[Len(seq)]
  BY <1>1, <1>3, <1>4, EachStays
<1> QED
  BY <1>2, <1>5

(* The retained source of a deleted document is removed.                   *)
LEMMA FinishDeleteKeeps ==
    ASSUME UploadInv, FinishDelete
    PROVE  UploadInv' /\ app'.waiting = app.waiting
<1> DEFINE p == DocPath(app, op.doc)
           s == [app EXCEPT !.docs = WithoutDoc(app, op.doc)]
           owners == {i \in Known(s) : p # 0 /\ s.path[i] = p}
           F == [i \in Ids |-> [t \in UploadState |-> States(CleanupJobSource(t, i, t.job[i], p))]]
<1>1. /\ op.kind = "delete" /\ op' = NoOp /\ wk' = wk /\ cn' = cn
      /\ app' \in IF p = 0 THEN {s}
                  ELSE IF owners = {} THEN RemoveOrQuarantine(s, p)
                  ELSE IF p \in DocPaths(s) THEN Disowned(s, p)
                  ELSE Each({s}, SetToSeq(owners), F)
  BY DEF FinishDelete, Running
<1>2. AppInv(app, wk, NoOp, cn) /\ app \in UploadState /\ app \in Near(app)
  BY <1>1, OperationEnds, NearSelf DEF UploadInv, AppInv, Submitting
<1>3. p \in Paths \cup {0} /\ WithoutDoc(app, op.doc) \in Seq([doc : Names, path : Paths])
  BY <1>2, DocFacts
<1>4. s \in Near(app)
  BY <1>2, <1>3, NearDocs
<1>5. owners \subseteq Ids /\ IsFiniteSet(Ids)
  <2>1. IsFiniteSet(Ids)
    <3> DEFINE m == 2 * MaxIds
    <3>1. m \in Int /\ 1 \in Int /\ Ids = 1..m
      BY Sizes DEF Ids
    <3> HIDE DEF m
    <3> QED
      BY <3>1, FS_Interval
  <2> QED
    BY <2>1 DEF Known
<1> HIDE DEF owners, s, p
<1>6. IsFiniteSet(owners)
  BY <1>5, FS_Subset
<1>7. SetToSeq(owners) \in Seq(Ids)
  <2> DEFINE q == SetToSeq(owners)
  <2>1. q \in Seq(owners)
    BY <1>6, SetToSeqFacts
  <2> HIDE DEF q
  <2>2. q \in Seq(Ids)
    BY <2>1, <1>5
  <2> QED
    BY <2>2 DEF q
<1>8. ASSUME NEW i \in Ids, NEW t \in Near(app) PROVE F[i][t] \subseteq Near(app)
  <2>1. t \in UploadState /\ May(app, i, t.job[i])
    BY MaySame DEF Near
  <2>2. F[i][t] = States(CleanupJobSource(t, i, t.job[i], p))
    BY <2>1
  <2> QED
    BY <2>1, <2>2, <1>3, CleanupJobSourceNear, HeardOf
<1> HIDE DEF F
<1>9. app' \in Near(app)
  <2>1. CASE p = 0
    BY <2>1, <1>1, <1>4
  <2>2. CASE p # 0 /\ owners = {}
    BY <2>2, <1>1, <1>3, <1>4, RemoveOrQuarantineNear
  <2>3. CASE p # 0 /\ owners # {} /\ p \in DocPaths(s)
    BY <2>3, <1>1, <1>4, DisownedNear
  <2>4. CASE p # 0 /\ owners # {} /\ p \notin DocPaths(s)
    <3>1. Each({s}, SetToSeq(owners), F) \subseteq Near(app)
      BY <1>4, <1>7, <1>8, EachNear
    <3> QED
      BY <2>4, <3>1, <1>1
  <2> QED
    BY <2>1, <2>2, <2>3, <2>4
<1>10. AppInv(app', wk, NoOp, cn) /\ app'.waiting = app.waiting
  BY <1>2, <1>9, NearKeeps DEF Near, Tidy
<1> QED
  BY <1>1, <1>10 DEF UploadInv

(* The first future leaves the queue.                                      *)
LEMMA FutureLeaves ==
    ASSUME NEW s, NEW w, NEW o, NEW c, AppInv(s, w, o, c), s.waiting # << >>, NEW i, i = Head(s.waiting)
    PROVE  /\ AppInv([s EXCEPT !.waiting = Tail(s.waiting), !.scheduled = s.scheduled \ {i},
                               !.event[i] = "none", !.pending = s.pending - 1], w, o, c)
           /\ i \in Paths /\ i <= s.last /\ ~Won(s, i) /\ i \notin Range(Tail(s.waiting)) /\ i \notin Held(w)
           /\ o.pc = "running" /\ o.kind # "delete" => i # o.id
<1> DEFINE q == s.waiting
           t == [s EXCEPT !.waiting = Tail(q), !.scheduled = s.scheduled \ {i},
                          !.event[i] = "none", !.pending = s.pending - 1]
<1>1. s \in UploadState /\ q \in Seq(Ids) /\ s.pending \in Int /\ s.last \in 0..MaxIds
  BY DEF AppInv, UploadState
<1>2. IsInjective(q) /\ Range(q) \subseteq 1..s.last /\ s.scheduled = Range(q) \cup Held(w) /\ Counted(s, w, o)
  BY DEF AppInv, Counted
<1>3. Tail(q) \in Seq(Ids) /\ Len(Tail(q)) = Len(q) - 1 /\ Len(q) \in Nat /\ Len(q) > 0
  BY <1>1
<1>4. i \notin Range(Tail(q)) /\ Range(q) = {i} \cup Range(Tail(q)) /\ IsInjective(Tail(q)) /\ i \in Range(q)
  <2> HIDE DEF q
  <2> QED
    BY <1>1, <1>2, TailFacts DEF q
<1>5. i \in Paths /\ i \in Ids /\ i <= s.last /\ i \in 1..s.last
  <2>1. i \in 1..s.last
    BY <1>2, <1>4
  <2> QED
    BY <2>1, <1>1, Sizes DEF Paths
<1>6. i \notin Held(w) /\ i \notin Starting(w)
  BY <1>4 DEF AppInv, WorkerOK, Held, Starting
<1>7. i \in Busy(s, w) /\ ~Won(s, i)
  BY <1>4, <1>5 DEF Busy, AppInv, JobOK
<1>8. o.pc = "running" /\ o.kind # "delete" => i # o.id
  BY <1>4 DEF AppInv, OperationOK
<1>9. t \in UploadState
  <2>1. [s.event EXCEPT ![i] = "none"] \in [Ids -> {"none", "clear", "set"}] /\ s.pending - 1 \in Int
    BY <1>1, <1>5 DEF UploadState
  <2>2. t = [s EXCEPT !.waiting = Tail(q), !.scheduled = s.scheduled \ {i},
                      !.event = [s.event EXCEPT ![i] = "none"], !.pending = s.pending - 1]
    BY <1>1 DEF UploadState
  <2>3. s.scheduled \ {i} \in SUBSET Ids
    BY <1>1 DEF UploadState
  <2> HIDE DEF q
  <2> QED
    BY <2>1, <2>2, <2>3, <1>1, <1>3 DEF UploadState
<1>10. /\ t.receipt = s.receipt /\ t.canon = s.canon /\ t.row = s.row /\ t.born = s.born /\ t.job = s.job
       /\ t.waiting = Tail(q) /\ t.scheduled = s.scheduled \ {i} /\ t.pending = s.pending - 1 /\ t.last = s.last
       /\ \A j \in Ids : j # i => t.event[j] = s.event[j]
  BY <1>1, <1>5 DEF UploadState
<1> HIDE DEF t, q
<1>11. Busy(t, w) = Busy(s, w) \ {i}
  BY <1>4, <1>6, <1>10 DEF Busy, q
<1>12. ASSUME NEW j \in Paths PROVE JobOK(t, w, j)
  <2>1. JobOK(s, w, j) /\ j \in Ids
    BY Sizes DEF AppInv
  <2>2. j \in Busy(t, w) => j \in Busy(s, w) /\ t.event[j] = s.event[j]
    BY <2>1, <1>10, <1>11
  <2> QED
    BY <2>1, <2>2, <1>10 DEF JobOK, Fits, Won, Sure, Virgin
<1>13. Sides(t)
  BY <1>10 DEF AppInv, Sides
<1>14. WorkerOK(t, w)
  <2>1. WorkerOK(s, w) /\ Range(t.waiting) \subseteq Range(s.waiting)
    BY <1>4, <1>10 DEF AppInv, q
  <2> QED
    BY <2>1, <1>10 DEF WorkerOK, Fits, Won, Sure
<1>15. OperationOK(t, w, o, c)
  <2>1. OperationOK(s, w, o, c) /\ Range(t.waiting) \subseteq Range(s.waiting)
    BY <1>4, <1>10 DEF AppInv, q
  <2> QED
    BY <2>1, <1>10 DEF OperationOK, Virgin
<1>16. CancelOK(t, w, c)
  <2>1. CancelOK(s, w, c)
    BY DEF AppInv
  <2>2. c # NoCancel => c.id \in Ids
    BY <2>1, <1>1, Sizes DEF CancelOK, Paths
  <2>3. c # NoCancel /\ c.id \in Busy(t, w) => c.id \in Busy(s, w) /\ t.event[c.id] = s.event[c.id]
    BY <2>2, <1>10, <1>11
  <2> QED
    BY <2>1, <2>3, <1>10 DEF CancelOK, Won, Sure
<1>17. Counted(t, w, o)
  <2>1. t.scheduled = Range(t.waiting) \cup Held(w)
    BY <1>2, <1>4, <1>6, <1>10
  <2>2. Submitting(o) \in {0, 1}
    BY DEF Submitting
  <2>3. /\ t.pending = Len(t.waiting) + (IF w.pc = "idle" THEN 0 ELSE 1) + Submitting(o)
        /\ t.pending <= MaxJobs
    <3>1. s.pending = Len(q) + (IF w.pc = "idle" THEN 0 ELSE 1) + Submitting(o) /\ s.pending <= MaxJobs
      BY <1>2 DEF Counted, q
    <3> QED
      BY <3>1, <2>2, <1>1, <1>3, <1>10, Sizes
  <2>4. Range(t.waiting) \subseteq 1..t.last
    BY <1>2, <1>4, <1>10
  <2> QED
    BY <2>1, <2>3, <2>4, <1>2, <1>4, <1>10 DEF Counted
<1>18. AppInv(t, w, o, c)
  BY <1>9, <1>12, <1>13, <1>14, <1>15, <1>16, <1>17 DEF AppInv
<1> QED
  BY <1>4, <1>5, <1>6, <1>7, <1>8, <1>18 DEF t, q

-----------------------------------------------------------------------------
(* Shutdown cancels the queue *)

(* A queued future is cancelled.                                           *)
LEMMA CancelFutureKeeps ==
    ASSUME NEW s, NEW w, NEW o, NEW c, AppInv(s, w, o, c), s.waiting # << >>, NEW i, i = Head(s.waiting),
           NEW u \in CancelFuture(s, i)
    PROVE  AppInv(u, w, o, c) /\ u.waiting = Tail(s.waiting)
<1> DEFINE job == [s.job[i] EXCEPT !.status = "cancelled"]
           t == [s EXCEPT !.waiting = Tail(s.waiting), !.scheduled = s.scheduled \ {i},
                          !.event[i] = "none", !.pending = s.pending - 1]
           b == [t EXCEPT !.job[i] = job]
<1>1. /\ AppInv(t, w, o, c)
      /\ i \in Paths /\ i <= s.last /\ ~Won(s, i) /\ i \notin Range(Tail(s.waiting)) /\ i \notin Held(w)
      /\ o.pc = "running" /\ o.kind # "delete" => i # o.id
  BY FutureLeaves
<1>2. s \in UploadState /\ i \in Ids /\ s.job[i] \in UploadJob
  <2>1. s \in UploadState /\ i \in Ids
    BY <1>1, Sizes DEF AppInv
  <2> QED
    BY <2>1 DEF UploadState
<1>3. u \in IF i \in Known(s) THEN Released(b, i, job) ELSE States(Removed(t, s.path[i]))
  <2>1. [s EXCEPT !.waiting = Tail(@), !.scheduled = @ \ {i}, !.event[i] = "none", !.pending = @ - 1] = t
    BY <1>2 DEF UploadState
  <2> QED
    BY <2>1 DEF CancelFuture
<1>4. /\ t.receipt = s.receipt /\ t.canon = s.canon /\ t.row = s.row /\ t.job = s.job
      /\ t.waiting = Tail(s.waiting) /\ t.last = s.last /\ t \in UploadState
  <2>1. t \in UploadState
    BY <1>1 DEF AppInv
  <2>2. /\ t.receipt = s.receipt /\ t.canon = s.canon /\ t.row = s.row /\ t.job = s.job
        /\ t.waiting = Tail(s.waiting) /\ t.last = s.last
    BY <1>2 DEF UploadState
  <2> QED
    BY <2>1, <2>2
<1>5. job \in UploadJob /\ job.status = "cancelled"
  BY <1>2 DEF UploadJob, Status, Final
<1> HIDE DEF t, job
<1>6. CASE i \in Known(s)
  <2>1. i \notin Busy(t, w) /\ ~Won(t, i)
    BY <1>1, <1>4 DEF Busy, Held, Starting, Won, Sure
  <2>2. Settable(t, w, o, c, i, job)
    BY <2>1, <1>1, <1>4, <1>5, Statuses DEF Settable, Sure, Fits, Open
  <2>3. AppInv(b, w, o, c) /\ b.job[i] = job /\ b.waiting = t.waiting
    BY <2>2, <1>1, <1>2, <1>4, JobSet DEF UploadState
  <2> HIDE DEF b
  <2>4. b \in Near(b) /\ May(b, i, job)
    BY <2>3, <1>1, <1>2, <1>5, NearSelf DEF May, Synthetic
  <2>5. u \in Near(b)
    BY <2>4, <1>3, <1>6, ReleasedNear
  <2> QED
    BY <2>3, <2>5, <1>4, NearKeeps DEF Near, Tidy
<1>7. CASE i \notin Known(s)
  <2>1. t \in Near(t)
    BY <1>1, NearSelf
  <2>2. u \in Near(t)
    BY <2>1, <1>3, <1>7, RemovedNear, HeardOf
  <2> QED
    BY <2>2, <1>1, <1>4, NearKeeps DEF Near, Tidy
<1> QED
  BY <1>6, <1>7

(* _cancel_queued_for_shutdown keeps the invariant, and cancels the whole  *)
(* queue when its deadline does not pass.                                  *)
LEMMA CancelQueuedKeeps ==
    ASSUME UploadInv, NEW n \in 0..MaxIds, CancelQueued(n)
    PROVE  UploadInv' /\ (n = Len(app.waiting) => app'.waiting = << >>)
<1> DEFINE q == app.waiting
           running == Signalled(app, app.scheduled \ Range(q))
           seq == SubSeq(q, 1, n)
           F == [i \in Ids |-> [s \in UploadState |-> CancelFuture(s, i)]]
           done == Each({running}, seq, F)
           After(k) == {s \in UploadState : /\ AppInv(s, wk, op, cn) /\ Len(s.waiting) = Len(q) - k
                                            /\ \A j \in 1..(Len(q) - k) : s.waiting[j] = q[j + k]}
           A == [k \in 0..n |-> After(k)]
<1>1. /\ n <= Len(q) /\ op' = op /\ wk' = wk /\ cn' = cn
      /\ app' \in done \cup {Signalled(s, s.scheduled) : s \in done}
  BY DEF CancelQueued
<1>2. app \in UploadState /\ q \in Seq(Ids) /\ AppInv(app, wk, op, cn)
  BY DEF UploadInv, AppInv, UploadState
<1>3. n \in Nat /\ Len(q) \in Nat
  BY <1>2, Sizes
<1>4. Len(seq) = n /\ \A k \in 1..n : seq[k] = q[k] /\ q[k] \in Ids
  BY <1>1, <1>2, <1>3
<1>5. running \in After(0)
  <2>1. AppInv(running, wk, op, cn) /\ running.waiting = q
    BY <1>2, SignalledKeeps
  <2> HIDE DEF running
  <2>2. running \in UploadState
    BY <2>1 DEF AppInv
  <2>3. \A j \in 1..(Len(q) - 0) : running.waiting[j] = q[j + 0]
    BY <2>1, <1>3
  <2> QED
    BY <2>1, <2>2, <2>3, <1>3
<1>6. ASSUME NEW k \in 1..n, NEW s \in After(k - 1) PROVE F[q[k]][s] \subseteq After(k)
  <2>1. /\ AppInv(s, wk, op, cn) /\ s \in UploadState /\ s.waiting \in Seq(Ids) /\ Len(s.waiting) = Len(q) - (k - 1)
        /\ \A j \in 1..(Len(q) - (k - 1)) : s.waiting[j] = q[j + (k - 1)]
    BY DEF UploadState
  <2>2. F[q[k]][s] = CancelFuture(s, q[k])
    BY <2>1, <1>4
  <2> DEFINE v == s.waiting
  <2> HIDE DEF v, q
  <2>3. v \in Seq(Ids) /\ Len(v) = Len(q) - (k - 1) /\ \A j \in 1..Len(v) : v[j] = q[j + (k - 1)]
    BY <2>1 DEF v
  <2>4. Len(v) > 0 /\ v # << >> /\ Head(v) = v[1]
    BY <2>3, <1>1, <1>3
  <2>5. v[1] = q[k]
    <3>1. 1 \in 1..Len(v) /\ 1 + (k - 1) = k
      BY <2>3, <2>4, <1>3
    <3> QED
      BY <2>3, <3>1
  <2>6. Len(Tail(v)) = Len(q) - k
    BY <2>3, <2>4, <1>3
  <2>7. \A j \in 1..(Len(q) - k) : Tail(v)[j] = q[j + k]
    <3> SUFFICES ASSUME NEW j \in 1..(Len(q) - k) PROVE Tail(v)[j] = q[j + k]
      OBVIOUS
    <3>1. Tail(v)[j] = v[j + 1] /\ j + 1 \in 1..Len(v) /\ (j + 1) + (k - 1) = j + k
      BY <2>3, <2>4, <2>6, <1>3
    <3> QED
      BY <3>1, <2>3
  <2>8. ASSUME NEW u \in CancelFuture(s, q[k]) PROVE u \in After(k)
    <3>1. AppInv(u, wk, op, cn) /\ u.waiting = Tail(v)
      BY <2>1, <2>4, <2>5, CancelFutureKeeps DEF v
    <3>2. u \in UploadState
      BY <3>1 DEF AppInv
    <3> QED
      BY <3>1, <3>2, <2>6, <2>7
  <2> QED
    BY <2>2, <2>8
<1>7. Each({running}, seq, F) \subseteq After(n)
  <2> HIDE DEF F, After, running, seq, q
  <2>1. \A k \in 1..n : k \in 0..n /\ k - 1 \in 0..n
    BY <1>3
  <2>2. A[0] = After(0) /\ A[n] = After(n) /\ \A k \in 1..n : A[k] = After(k) /\ A[k - 1] = After(k - 1)
    BY <2>1, <1>3
  <2> HIDE DEF A
  <2>3. \A k \in 1..Len(seq) : \A s \in A[k - 1] : F[seq[k]][s] \subseteq A[k]
    BY <2>2, <1>4, <1>6
  <2>4. {running} \subseteq A[0] /\ Len(seq) \in Nat
    BY <2>2, <1>3, <1>4, <1>5
  <2>5. Each({running}, seq, F) \subseteq A[Len(seq)]
    BY <2>3, <2>4, EachStays
  <2> QED
    BY <2>2, <2>5, <1>4
<1>8. \A s \in done : AppInv(s, wk, op, cn) /\ (n = Len(q) => s.waiting = << >>)
  <2> SUFFICES ASSUME NEW s \in done PROVE AppInv(s, wk, op, cn) /\ (n = Len(q) => s.waiting = << >>)
    OBVIOUS
  <2>1. s \in UploadState /\ AppInv(s, wk, op, cn) /\ Len(s.waiting) = Len(q) - n
    BY <1>7
  <2>2. s.waiting \in Seq(Ids)
    BY <2>1 DEF UploadState
  <2> HIDE DEF q
  <2>3. n = Len(q) => Len(s.waiting) = 0
    BY <2>1, <1>3
  <2> QED
    BY <2>1, <2>2, <2>3
<1> HIDE DEF done
<1>9. AppInv(app', wk, op, cn) /\ (n = Len(q) => app'.waiting = << >>)
  BY <1>1, <1>8, SignalledKeeps
<1> QED
  BY <1>1, <1>9 DEF UploadInv

-----------------------------------------------------------------------------
(* A service without threads *)

(* The invariant of a service that is being restored: no thread works and  *)
(* nothing is queued.                                                      *)
Calm(s) == AppInv(s, NoWork, NoOp, NoCancel) /\ s.waiting = << >>

(* Cleanups keep it.                                                       *)
LEMMA CalmFacts ==
    ASSUME NEW s, Calm(s)
    PROVE  /\ s \in UploadState /\ s \in Near(s) /\ \A t \in Near(s) : Calm(t)
           /\ Busy(s, NoWork) = {} /\ \A i : ~Registering(NoWork, i)
<1>1. Range(<< >>) = {}
  BY DEF Range
<1>2. Busy(s, NoWork) = {}
  BY <1>1, Idle DEF Calm, Busy
<1>3. \A t \in Near(s) : Calm(t)
  BY NearKeeps DEF Calm, Near, Tidy
<1> QED
  BY <1>2, <1>3, NearSelf, Idle DEF Calm, AppInv, Registering

(* A job that agrees with its row and its receipt may be set.              *)
LEMMA CalmJob ==
    ASSUME NEW s, Calm(s), NEW i \in Paths, i <= s.last, NEW job \in UploadJob, Fits(s, i, job.status),
           s.row[i].status \in Lost => job.status \notin Open, job.status \in Open => ~Won(s, i)
    PROVE  Calm([s EXCEPT !.job[i] = job])
<1>1. s \in UploadState /\ Busy(s, NoWork) = {}
  BY CalmFacts
<1>2. Settable(s, NoWork, NoOp, NoCancel, i, job)
  BY <1>1, Idle DEF Settable
<1>3. AppInv([s EXCEPT !.job[i] = job], NoWork, NoOp, NoCancel)
  BY <1>2, JobSet DEF Calm
<1> QED
  BY <1>1, <1>3 DEF Calm, UploadState

(* Any event may be set.                                                   *)
LEMMA CalmEvent ==
    ASSUME NEW s, Calm(s), NEW i \in Ids, NEW e \in {"none", "clear", "set"}
    PROVE  Calm([s EXCEPT !.event[i] = e])
<1>1. s \in UploadState /\ Busy(s, NoWork) = {}
  BY CalmFacts
<1>2. AppInv([s EXCEPT !.event[i] = e], NoWork, NoOp, NoCancel)
  BY <1>1, EventSet DEF Calm
<1> QED
  BY <1>1, <1>2 DEF Calm, UploadState

(* The source of a restored job is kept, removed or reported lost.         *)
LEMMA RestoreSourceCalm ==
    ASSUME NEW s, Calm(s), NEW i \in Ids, NEW job \in UploadJob, s.job[i] = job, i \in Paths => i <= s.last,
           i \in Synthetic => job.status = "failed",
           NEW source \in Paths \cup {0}, NEW u \in RestoreSource(s, i, job, source)
    PROVE  Calm(u)
<1> DEFINE t == [s EXCEPT !.path[i] = source]
           lost == [job EXCEPT !.status = "failed"]
<1>1. s \in UploadState /\ s \in Near(s) /\ (\A v \in Near(s) : Calm(v)) /\ 0 \in Paths \cup {0}
  BY CalmFacts
<1>2. May(s, i, job)
  BY DEF May
<1>3. t \in Near(s) /\ Calm(t)
  BY <1>1, NearPath
<1>p. i \in Paths \/ i \in Synthetic
  BY DEF Synthetic
<1>4. CASE source = 0 /\ job.status \in {"queued", "validating"}
  <2> DEFINE b == [s EXCEPT !.job[i] = lost]
  <2>1. u \in Journaled(b, i, lost, 0)
    BY <1>4 DEF RestoreSource
  <2>2. lost \in UploadJob /\ lost.status = "failed"
    BY DEF UploadJob, Status, Final
  <2>3. i \in Paths /\ i <= s.last /\ JobOK(s, NoWork, i)
    BY <1>4, <1>p DEF Calm, AppInv
  <2>4. ~Won(s, i)
    BY <2>3, <1>4, CalmFacts DEF JobOK, Open
  <2> HIDE DEF lost
  <2>5. Calm(b)
    BY <2>2, <2>3, <2>4, CalmJob, Statuses DEF Fits, Sure, Open
  <2>6. b.job[i] = lost
    BY <1>1 DEF UploadState
  <2> HIDE DEF b
  <2>7. May(b, i, lost)
    BY <2>2, <2>3, <2>6 DEF May, Synthetic
  <2>8. b \in Near(b) /\ \A v \in Near(b) : Calm(v)
    BY <2>5, CalmFacts
  <2> QED
    BY <2>1, <2>7, <2>8, <1>1, JournaledNear
<1>5. CASE source # 0 /\ job.status \in {"failed", "cancelled"}
  <2>1. u \in States(CleanupJobSource(t, i, job, source))
    BY <1>5 DEF RestoreSource, Recoverable
  <2> HIDE DEF t
  <2> QED
    BY <2>1, <1>1, <1>2, <1>3, CleanupJobSourceNear, HeardOf
<1>6. CASE source # 0 /\ job.status = "published"
  <2> DEFINE d == Append(WithoutDoc(t, job.doc), [doc |-> job.doc, path |-> source])
  <2>1. u \in Journaled([t EXCEPT !.docs = d], i, job, source)
    BY <1>6 DEF RestoreSource, Recoverable
  <2> HIDE DEF t
  <2>2. t \in UploadState /\ job.doc \in Names /\ source \in Paths
    BY <1>3, <1>6 DEF Near, UploadJob
  <2>3. d \in Seq([doc : Names, path : Paths])
    <3>1. WithoutDoc(t, job.doc) \in Seq([doc : Names, path : Paths])
      BY <2>2, DocFacts
    <3>2. [doc |-> job.doc, path |-> source] \in [doc : Names, path : Paths]
      BY <2>2
    <3> QED
      BY <3>1, <3>2, AppendFacts
  <2> HIDE DEF d
  <2>4. [t EXCEPT !.docs = d] \in Near(s)
    BY <2>3, <1>3, NearDocs
  <2> QED
    BY <2>1, <2>4, <1>1, <1>2, JournaledNear
<1>7. CASE source # 0 /\ job.status \in Recoverable
  <2> DEFINE y == [t EXCEPT !.event[i] = "clear"]
  <2>1. u \in Journaled(y, i, job, source)
    BY <1>7 DEF RestoreSource, Recoverable
  <2>2. t.job = s.job /\ t \in UploadState
    BY <1>1, <1>3 DEF UploadState, Near
  <2> HIDE DEF t
  <2>3. Calm(y)
    BY <1>3, CalmEvent
  <2>4. y.job[i] = job
    BY <2>2 DEF UploadState
  <2> HIDE DEF y
  <2>5. May(y, i, job)
    BY <2>4 DEF May
  <2>6. y \in Near(y) /\ \A v \in Near(y) : Calm(v)
    BY <2>3, CalmFacts
  <2> QED
    BY <2>1, <2>5, <2>6, JournaledNear
<1>8. CASE u \in Journaled(s, i, job, source)
  BY <1>8, <1>1, <1>2, JournaledNear
<1> QED
  BY <1>4, <1>5, <1>6, <1>7, <1>8 DEF RestoreSource, Recoverable

-----------------------------------------------------------------------------
(* The rows of the journal *)

(* A job restored from its row, before its source is looked at.            *)
RestoredJob(s, i, job, n) ==
    [s EXCEPT !.job[i] = job, !.retries[i] = n, !.event[i] = IF job.status = "unknown" THEN "clear" ELSE @]

(* What that changes.                                                      *)
LEMMA RestoredJobFields ==
    ASSUME NEW s \in UploadState, NEW i \in Ids, NEW job \in UploadJob, NEW n \in 0..MaxRetries
    PROVE  LET t == RestoredJob(s, i, job, n)
               e == IF job.status = "unknown" THEN "clear" ELSE s.event[i]
           IN  /\ t \in UploadState /\ e \in {"none", "clear", "set"}
               /\ t.receipt = s.receipt /\ t.canon = s.canon /\ t.row = s.row /\ t.born = s.born
               /\ t.waiting = s.waiting /\ t.scheduled = s.scheduled /\ t.pending = s.pending /\ t.last = s.last
               /\ t.job = [s.job EXCEPT ![i] = job] /\ t.event = [s.event EXCEPT ![i] = e]
<1> DEFINE e == IF job.status = "unknown" THEN "clear" ELSE s.event[i]
           t == [s EXCEPT !.job[i] = job, !.retries[i] = n, !.event[i] = e]
<1>1. s.event[i] \in {"none", "clear", "set"}
  BY DEF UploadState
<1>2. RestoredJob(s, i, job, n) = t
  BY DEF RestoredJob, UploadState
<1>3. e \in {"none", "clear", "set"}
  BY <1>1
<1> HIDE DEF e
<1>4. t \in UploadState
  <2>1. /\ [s.job EXCEPT ![i] = job] \in [Ids -> UploadJob] /\ [s.retries EXCEPT ![i] = n] \in [Ids -> 0..MaxRetries]
        /\ [s.event EXCEPT ![i] = e] \in [Ids -> {"none", "clear", "set"}]
    BY <1>3 DEF UploadState
  <2>2. t = [s EXCEPT !.job = [s.job EXCEPT ![i] = job], !.retries = [s.retries EXCEPT ![i] = n],
                      !.event = [s.event EXCEPT ![i] = e]]
    BY DEF UploadState
  <2> QED
    BY <2>1, <2>2 DEF UploadState
<1>5. /\ t.receipt = s.receipt /\ t.canon = s.canon /\ t.row = s.row /\ t.born = s.born
      /\ t.waiting = s.waiting /\ t.scheduled = s.scheduled /\ t.pending = s.pending /\ t.last = s.last
      /\ t.job = [s.job EXCEPT ![i] = job] /\ t.event = [s.event EXCEPT ![i] = e]
  BY DEF UploadState
<1> HIDE DEF t
<1> QED
  BY <1>2, <1>3, <1>4, <1>5 DEF e

(* An upload may be restored as a job that agrees with its row and its     *)
(* receipt.                                                                *)
LEMMA RestoredJobCalm ==
    ASSUME NEW s, Calm(s), NEW i \in Paths, i <= s.last, NEW job \in UploadJob, Fits(s, i, job.status),
           s.row[i].status \in Lost => job.status \notin Open, job.status \in Open => ~Won(s, i),
           NEW n \in 0..MaxRetries
    PROVE  Calm(RestoredJob(s, i, job, n)) /\ RestoredJob(s, i, job, n).job[i] = job /\ RestoredJob(s, i, job, n).last = s.last
<1> DEFINE t == RestoredJob(s, i, job, n)
           e == IF job.status = "unknown" THEN "clear" ELSE s.event[i]
           b == [s EXCEPT !.job[i] = job]
           y == [b EXCEPT !.event[i] = e]
<1>1. s \in UploadState /\ i \in Ids
  BY CalmFacts, Sizes
<1>2. /\ t \in UploadState /\ e \in {"none", "clear", "set"}
      /\ t.receipt = s.receipt /\ t.canon = s.canon /\ t.row = s.row /\ t.born = s.born
      /\ t.waiting = s.waiting /\ t.scheduled = s.scheduled /\ t.pending = s.pending /\ t.last = s.last
      /\ t.job = [s.job EXCEPT ![i] = job] /\ t.event = [s.event EXCEPT ![i] = e]
  BY <1>1, RestoredJobFields
<1> HIDE DEF t, e
<1>3. Calm(b)
  BY CalmJob
<1>4. /\ b \in UploadState /\ b.receipt = s.receipt /\ b.canon = s.canon /\ b.row = s.row /\ b.born = s.born
      /\ b.waiting = s.waiting /\ b.scheduled = s.scheduled /\ b.pending = s.pending /\ b.last = s.last
      /\ b.job = [s.job EXCEPT ![i] = job] /\ b.event = s.event
  BY <1>1 DEF UploadState
<1> HIDE DEF b
<1>5. Calm(y)
  BY <1>1, <1>2, <1>3, CalmEvent
<1>6. /\ y.receipt = b.receipt /\ y.canon = b.canon /\ y.row = b.row /\ y.born = b.born
      /\ y.waiting = b.waiting /\ y.scheduled = b.scheduled /\ y.pending = b.pending /\ y.last = b.last
      /\ y.job = b.job /\ y.event = [b.event EXCEPT ![i] = e]
  BY <1>4 DEF UploadState
<1> HIDE DEF y
<1>7. AppInv(t, NoWork, NoOp, NoCancel)
  BY <1>2, <1>4, <1>5, <1>6, LikeKeeps DEF Calm
<1>8. t.job[i] = job
  BY <1>1, <1>2 DEF UploadState
<1> QED
  BY <1>2, <1>7, <1>8 DEF Calm, t

(* A cleanup job may be restored as failed.                                *)
LEMMA RestoredSideCalm ==
    ASSUME NEW s, Calm(s), NEW i \in Synthetic, NEW job \in UploadJob, job.status = "failed", NEW n \in 0..MaxRetries
    PROVE  Calm(RestoredJob(s, i, job, n)) /\ RestoredJob(s, i, job, n).job[i] = job
<1> DEFINE t == RestoredJob(s, i, job, n)
<1>1. s \in UploadState /\ i \in Ids /\ i \notin Paths /\ Paths \subseteq Ids /\ Synthetic \subseteq Ids
  BY CalmFacts, Sizes DEF Synthetic
<1>2. /\ t \in UploadState
      /\ t.receipt = s.receipt /\ t.canon = s.canon /\ t.row = s.row /\ t.born = s.born
      /\ t.waiting = s.waiting /\ t.scheduled = s.scheduled /\ t.pending = s.pending /\ t.last = s.last
      /\ t.job = [s.job EXCEPT ![i] = job] /\ t.event = [s.event EXCEPT ![i] = s.event[i]]
  BY <1>1, RestoredJobFields
<1> HIDE DEF t
<1>3. t.event = s.event /\ t.job[i] = job /\ \A j \in Ids : j # i => t.job[j] = s.job[j]
  BY <1>1, <1>2 DEF UploadState
<1>4. Tidy(s, s)
  BY CalmFacts DEF Near
<1>5. Tidy(s, t)
  <2>1. \A j \in Paths : t.job[j] = s.job[j]
    BY <1>1, <1>3
  <2>2. \A j \in Synthetic : t.job[j].status \in {"none", "failed"}
    BY <1>1, <1>3, <1>4 DEF Tidy
  <2> QED
    BY <2>1, <2>2, <1>2, <1>3, <1>4 DEF Tidy
<1>6. t \in Near(s)
  BY <1>2, <1>5 DEF Near
<1> QED
  BY <1>3, <1>6, CalmFacts DEF t

(* _restore_journal for one row.                                           *)
LEMMA RestoreRowCalm ==
    ASSUME NEW s, Calm(s), NEW i \in Ids, NEW u \in RestoreRow(s, i)
    PROVE  Calm(u)
<1> DEFINE r == s.row[i]
           old == [status |-> r.status, doc |-> r.doc, carried |-> r.retries]
           source == IF r.source \in s.file THEN r.source ELSE 0
           restored(t, job) == RestoreSource(RestoredJob(t, i, job, r.retries), i, job, source)
<1>1. s \in UploadState /\ r \in JournalRow
  <2>1. s \in UploadState
    BY CalmFacts
  <2> QED
    BY <2>1 DEF UploadState
<1>2. r.retries \in 0..MaxRetries /\ source \in Paths \cup {0} /\ r.status \in Status /\ r.doc \in Names
  BY <1>1 DEF JournalRow
<1>3. old \in UploadJob /\ old.status = r.status
  BY <1>2, Sizes DEF UploadJob
<1>4. CASE r.status = "none"
  BY <1>4 DEF RestoreRow
<1>5. CASE r.status # "none" /\ r.status \in {"failed", "cancelled"}
  <2>1. u \in restored(s, old)
    BY <1>5 DEF RestoreRow, RestoredJob
  <2> HIDE DEF old, source, r
  <2>2. CASE i \in Synthetic
    <3>1. r.status = "failed"
      BY <2>2, <1>5 DEF Calm, AppInv, Sides, r
    <3>2. Calm(RestoredJob(s, i, old, r.retries)) /\ RestoredJob(s, i, old, r.retries).job[i] = old
      BY <2>2, <3>1, <1>2, <1>3, RestoredSideCalm
    <3> QED
      BY <2>1, <2>2, <3>1, <3>2, <1>2, <1>3, RestoreSourceCalm DEF Synthetic
  <2>3. CASE i \in Paths
    <3>1. JobOK(s, NoWork, i)
      BY <2>3 DEF Calm, AppInv
    <3>n. s.last \in Int /\ i \in Int
      <4>1. s.last \in 0..MaxIds
        BY <1>1 DEF UploadState
      <4> QED
        BY <4>1, <2>3, Sizes
    <3>2. i <= s.last
      BY <3>1, <3>n, <1>5 DEF JobOK, Virgin, r
    <3>3. Fits(s, i, old.status) /\ old.status \notin Open
      BY <3>1, <1>3, <1>5 DEF JobOK, r, Open
    <3>4. /\ Calm(RestoredJob(s, i, old, r.retries)) /\ RestoredJob(s, i, old, r.retries).job[i] = old
          /\ RestoredJob(s, i, old, r.retries).last = s.last
      BY <2>3, <3>2, <3>3, <1>2, <1>3, RestoredJobCalm
    <3> QED
      BY <2>1, <2>3, <3>2, <3>4, <1>2, <1>3, RestoreSourceCalm DEF Synthetic
  <2> QED
    BY <2>2, <2>3 DEF Synthetic
<1>6. CASE r.status \notin {"none", "failed", "cancelled"}
  <2>1. PICK q \in Recovered(s, i, old) :
           u \in restored(q.s, IF q.ok THEN RecoveredJob(q.s, i, old) ELSE [old EXCEPT !.status = "unknown"])
    BY <1>6 DEF RestoreRow, RestoredJob
  <2> DEFINE job == IF q.ok THEN RecoveredJob(q.s, i, old) ELSE [old EXCEPT !.status = "unknown"]
             v == q.s
  <2>2. i \in Paths
    BY <1>6 DEF Calm, AppInv, Sides, Synthetic
  <2>3. JobOK(s, NoWork, i)
    BY <2>2 DEF Calm, AppInv
  <2>n. s.last \in Int /\ i \in Int
    <3>1. s.last \in 0..MaxIds
      BY <1>1 DEF UploadState
    <3> QED
      BY <3>1, <2>2, Sizes
  <2>4. i <= s.last
    BY <2>3, <2>n, <1>6 DEF JobOK, Virgin
  <2>5. /\ q.ok \in BOOLEAN /\ Judged(s, v, i)
        /\ \/ v = s /\ (q.ok => s.receipt[i].outcome = "none" /\ s.asked[i] = {})
           \/ /\ s.receipt[i].outcome # "none" /\ v.receipt[i].outcome # "none"
              /\ v.canon[i] = ReceiptJob(v.receipt[i]) \/ (~q.ok /\ v.canon[i].status = "unknown")
              /\ v.receipt[i].outcome = s.receipt[i].outcome \/ s.receipt[i].outcome = "pending"
              /\ v.receipt[i].unheard = s.receipt[i].unheard
           \/ /\ q.ok /\ s.receipt[i].outcome = "none" /\ s.asked[i] # {} /\ v.receipt[i] = s.receipt[i]
              /\ v.canon[i].status \in {"cancelled", "validating"}
    BY <2>1, <1>1, RecoveredFacts
  <2>6. v \in UploadState /\ v.receipt[i] \in Receipt /\ v.canon[i] \in UploadJob
    BY <2>5 DEF Judged, UploadState
  <2>e. v.job = s.job /\ v.row = s.row /\ v.last = s.last /\ v.waiting = s.waiting /\ v.asked = s.asked
    BY <2>5 DEF Judged
  <2>o. [old EXCEPT !.status = "unknown"] \in UploadJob /\ [old EXCEPT !.status = "unknown"].status = "unknown"
    BY <1>3 DEF UploadJob, Status, Recoverable
  <2>l. r.status \notin Lost
    BY <1>6 DEF Lost
  <2> HIDE DEF old, source
  <2>7. /\ Calm(v) /\ job \in UploadJob /\ Fits(v, i, job.status)
        /\ job.status \in Open => ~Won(v, i)
    <3>1. CASE v = s /\ (q.ok => s.receipt[i].outcome = "none" /\ s.asked[i] = {})
      <4>1. CASE ~q.ok
        <5>1. job.status = "unknown" /\ job \in UploadJob
          BY <4>1, <2>o
        <5> QED
          BY <5>1, <3>1, Statuses DEF Fits
      <4>2. CASE q.ok
        <5>1. job = old /\ ~Won(s, i)
          BY <4>2, <3>1 DEF RecoveredJob, Won, Sure
        <5> QED
          BY <5>1, <3>1, <2>3, <1>3 DEF JobOK
      <4> QED
        BY <4>1, <4>2, <2>5
    <3>2. CASE /\ v.receipt[i].outcome # "none" \/ v.asked[i] # {}
               /\ \/ /\ v.canon[i] = ReceiptJob(v.receipt[i]) \/ (~q.ok /\ v.canon[i].status = "unknown")
                     /\ v.receipt[i].outcome # "none"
                     /\ v.receipt[i].outcome = s.receipt[i].outcome \/ s.receipt[i].outcome = "pending"
                     /\ v.receipt[i].unheard = s.receipt[i].unheard
                  \/ /\ v.receipt[i].outcome = "none" /\ v.receipt[i] = s.receipt[i]
                     /\ v.canon[i].status \in {"cancelled", "validating"}
      <4> DEFINE c == v.receipt[i]
      <4>1. /\ ReceiptJob(c) \in UploadJob /\ ReceiptJob(c).status \notin Open
            /\ c.outcome = "committed" => ReceiptJob(c).status = "published"
            /\ c.outcome = "pending" => ReceiptJob(c).status = "unknown"
            /\ c.outcome \notin {"committed", "pending"} => ReceiptJob(c).status = c.outcome
        BY <2>6, ReceiptJobFacts
      <4>2. c.outcome \in {"none", "pending", "committed", "failed", "cancelled"}
        BY <2>6 DEF Receipt
      <4>3. Fits(v, i, v.canon[i].status) /\ (v.canon[i].status \in Open => ~Won(v, i))
        <5>1. CASE c.outcome # "none" /\ v.canon[i] = ReceiptJob(c)
          BY <5>1, <4>1, <4>2 DEF Fits, Won, Sure, Lost
        <5>2. CASE v.canon[i].status = "unknown"
          BY <5>2, Statuses DEF Fits
        <5>3. CASE c.outcome = "none" /\ v.canon[i].status \in {"cancelled", "validating"}
          BY <5>3 DEF Fits, Won, Sure
        <5> QED
          BY <5>1, <5>2, <5>3, <3>2
      <4>4. Fits(v, i, s.job[i].status) /\ Fits(v, i, s.row[i].status)
        BY <2>3, <3>2 DEF JobOK, Fits, Won, Sure
      <4>5. s.job[i].status \in Open => ~Won(v, i)
        <5>1. s.job[i].status \in Open => ~Won(s, i)
          BY <2>3, CalmFacts DEF JobOK
        <5> QED
          BY <5>1, <3>2 DEF Won, Sure
      <4>6. Judgeable(s, v, NoWork, NoOp, NoCancel, i)
        BY <4>3, <4>4, <4>5, <3>2, <2>2, <2>4, CalmFacts, Idle DEF Judgeable
      <4>7. AppInv(v, NoWork, NoOp, NoCancel)
        BY <4>6, <2>5, CalmFacts, JudgedAside DEF Calm
      <4>8. Calm(v)
        BY <4>7, <2>e DEF Calm
      <4>9. job = v.canon[i] \/ (job = [old EXCEPT !.status = "unknown"])
        BY <3>2 DEF RecoveredJob
      <4>10. CASE job = v.canon[i]
        BY <2>6, <4>3, <4>8, <4>10
      <4>11. CASE job = [old EXCEPT !.status = "unknown"]
        <5>1. job \in UploadJob /\ job.status = "unknown"
          BY <4>11, <2>o
        <5> QED
          BY <5>1, <4>8, Statuses DEF Fits
      <4> QED
        BY <4>9, <4>10, <4>11
    <3> QED
      BY <3>1, <3>2, <2>5, <2>e
  <2>8. u \in RestoreSource(RestoredJob(v, i, job, r.retries), i, job, source)
    BY <2>1
  <2>9. i <= v.last /\ v.row[i].status \notin Lost
    BY <2>4, <2>e, <2>l
  <2> HIDE DEF job, v, r
  <2>10. /\ Calm(RestoredJob(v, i, job, r.retries)) /\ RestoredJob(v, i, job, r.retries).job[i] = job
         /\ RestoredJob(v, i, job, r.retries).last = v.last
    BY <2>2, <2>7, <2>9, <1>2, RestoredJobCalm
  <2> QED
    BY <2>2, <2>7, <2>8, <2>9, <2>10, <1>2, RestoreSourceCalm DEF Synthetic
<1> QED
  BY <1>4, <1>5, <1>6

-----------------------------------------------------------------------------
(* Restart *)

(* The empty service has its type.                                         *)
LEMMA BlankState ==
    Blank \in UploadState
<1>1. << >> \in Seq([doc : Names, path : Paths]) /\ << >> \in Seq(Ids) /\ 0 \in 0..MaxIds /\ 0 \in 0..MaxRetries
  BY Sizes
<1> QED
  BY <1>1, Sizes DEF Blank, UploadState, Names

(* What survives the process satisfies the invariant without threads.      *)
LEMMA RebornCalm ==
    ASSUME UploadInv, NEW G \in SUBSET Ids
    PROVE  Calm(Reborn(app, G))
<1> DEFINE t == Reborn(app, G)
<1>1. app \in UploadState
  BY DEF UploadInv, AppInv
<1>2. t \in UploadState
  BY <1>1, BlankState DEF Reborn, UploadState
<1>3. /\ t.row = app.row /\ t.receipt = app.receipt /\ t.born = app.born /\ t.last = app.last
      /\ t.job = [i \in Ids |-> NoJob] /\ t.canon = [i \in Ids |-> NoJob]
      /\ t.waiting = << >> /\ t.scheduled = {} /\ t.pending = 0
  BY DEF Reborn, Blank
<1> HIDE DEF t
<1>4. \A i \in Ids : t.job[i].status = "none" /\ t.canon[i].status = "none"
  BY <1>3 DEF NoJob
<1>5. Range(<< >>) = {} /\ IsInjective(<< >>) /\ Len(<< >>) = 0
  BY DEF Range, IsInjective
<1>6. Busy(t, NoWork) = {}
  BY <1>3, <1>5, Idle DEF Busy
<1>7. ASSUME NEW i \in Paths PROVE JobOK(t, NoWork, i)
  <2>1. JobOK(app, wk, i) /\ i \in Ids
    BY Sizes DEF UploadInv, AppInv
  <2>2. Fits(t, i, t.row[i].status) /\ Fits(t, i, "none")
    BY <2>1, <1>3, Statuses DEF JobOK, Fits, Won, Sure
  <2>3. t.last < i => Virgin(t, i)
    BY <2>1, <1>3, <1>4 DEF JobOK, Virgin
  <2> QED
    BY <2>1, <2>2, <2>3, <1>4, <1>6, Statuses DEF JobOK
<1>8. Sides(t)
  BY <1>3, <1>4 DEF UploadInv, AppInv, Sides, Synthetic
<1>9. WorkerOK(t, NoWork) /\ OperationOK(t, NoWork, NoOp, NoCancel) /\ CancelOK(t, NoWork, NoCancel)
  <2>1. WorkerOK(t, NoWork)
    BY Idle DEF WorkerOK
  <2>2. OperationOK(t, NoWork, NoOp, NoCancel)
    BY Idle DEF OperationOK
  <2>3. CancelOK(t, NoWork, NoCancel)
    BY Idle DEF CancelOK
  <2> QED
    BY <2>1, <2>2, <2>3
<1>10. Counted(t, NoWork, NoOp)
  <2>1. IsInjective(app.born) /\ Range(app.born) \subseteq 1..app.last \cup Synthetic
    BY DEF UploadInv, AppInv, Counted
  <2>2. 0 <= MaxJobs
    BY Sizes
  <2>3. t.scheduled = Range(t.waiting) \cup Held(NoWork) /\ IsInjective(t.waiting) /\ Range(t.waiting) \subseteq 1..t.last
    BY <1>3, <1>5, Idle
  <2>4. t.pending = Len(t.waiting) + (IF NoWork.pc = "idle" THEN 0 ELSE 1) + Submitting(NoOp)
    BY <1>3, <1>5, Idle
  <2> QED
    BY <2>1, <2>2, <2>3, <2>4, <1>3 DEF Counted
<1> QED
  BY <1>2, <1>3, <1>7, <1>8, <1>9, <1>10 DEF Calm, AppInv, t

(* The first m elements of a sequence.                                     *)
LEMMA SubSeqFacts ==
    ASSUME NEW X, NEW q \in Seq(X), NEW m \in 0..Len(q)
    PROVE  /\ SubSeq(q, 1, m) \in Seq(X) /\ Len(SubSeq(q, 1, m)) = m
           /\ Range(SubSeq(q, 1, m)) \subseteq Range(q)
           /\ IsInjective(q) => IsInjective(SubSeq(q, 1, m))
<1> DEFINE u == SubSeq(q, 1, m)
<1>1. /\ u \in Seq(X) /\ Len(u) = m /\ DOMAIN u = 1..m /\ DOMAIN q = 1..Len(q) /\ 1..m \subseteq 1..Len(q)
      /\ \A k \in 1..m : u[k] = q[k]
  OBVIOUS
<1> HIDE DEF u
<1>2. Range(u) \subseteq Range(q)
  BY <1>1 DEF Range
<1>3. IsInjective(q) => IsInjective(u)
  BY <1>1 DEF IsInjective
<1> QED
  BY <1>1, <1>2, <1>3 DEF u

(* At most max_jobs restored jobs are queued.                              *)
LEMMA ResubmittedKeeps ==
    ASSUME NEW s, Calm(s)
    PROVE  AppInv(Resubmitted(s), NoWork, NoOp, NoCancel)
<1> DEFINE ready == {i \in Ids : s.job[i].status \in {"queued", "validating"} /\ s.path[i] # 0}
           all == Filter(s.born, ready)
           m == IF Len(all) < MaxJobs THEN Len(all) ELSE MaxJobs
           chosen == SubSeq(all, 1, m)
           t == [s EXCEPT !.waiting = chosen, !.scheduled = Range(chosen), !.pending = Len(chosen)]
<1>1. s \in UploadState /\ AppInv(s, NoWork, NoOp, NoCancel)
  BY CalmFacts DEF Calm
<1>2. s.born \in Seq(Ids) /\ s.last \in 0..MaxIds
  BY <1>1 DEF UploadState
<1>3. Counted(s, NoWork, NoOp)
  BY <1>1 DEF AppInv
<1>4. all \in Seq(Ids) /\ Range(all) = Range(s.born) \cap ready /\ IsInjective(all)
  <2> HIDE DEF ready
  <2> QED
    BY <1>2, <1>3, FilterFacts DEF Counted
<1> HIDE DEF all
<1>5. m \in 0..Len(all) /\ m <= MaxJobs /\ m \in Nat
  BY <1>4, Sizes
<1> HIDE DEF m
<1>6. chosen \in Seq(Ids) /\ Len(chosen) = m /\ Range(chosen) \subseteq Range(all) /\ IsInjective(chosen)
  BY <1>4, <1>5, SubSeqFacts
<1> HIDE DEF chosen
<1>7. /\ Range(chosen) \subseteq Paths /\ Range(chosen) \subseteq 1..s.last
      /\ \A i \in Range(chosen) : i \in Paths /\ s.job[i].status \in Open
  <2>1. ASSUME NEW i \in Range(chosen) PROVE i \in 1..s.last /\ i \in Paths /\ s.job[i].status \in Open
    <3>1. i \in Range(s.born) /\ i \in Ids /\ s.job[i].status \in Open
      BY <1>4, <1>6 DEF Open
    <3>2. i \in 1..s.last \cup Synthetic
      BY <3>1, <1>3 DEF Counted
    <3>3. i \notin Synthetic
      BY <3>1, <1>1 DEF AppInv, Sides, Open
    <3> QED
      BY <3>1, <3>2, <3>3 DEF Synthetic
  <2> QED
    BY <2>1
<1>r. Range(chosen) \subseteq Ids
  BY <1>7, Sizes
<1>8. t \in UploadState
  <2>1. chosen \in Seq(Ids) /\ Range(chosen) \in SUBSET Ids /\ Len(chosen) \in Int
    BY <1>5, <1>6, <1>r
  <2> DEFINE range == Range(chosen)
             len == Len(chosen)
  <2> HIDE DEF range, len
  <2>2. [s EXCEPT !.waiting = chosen, !.scheduled = range, !.pending = len] \in UploadState
    BY <2>1, <1>1 DEF UploadState, range, len
  <2> QED
    BY <2>2 DEF range, len
<1>9. /\ t.receipt = s.receipt /\ t.canon = s.canon /\ t.row = s.row /\ t.born = s.born /\ t.job = s.job
      /\ t.event = s.event /\ t.last = s.last
      /\ t.waiting = chosen /\ t.scheduled = Range(chosen) /\ t.pending = Len(chosen)
  BY <1>1 DEF UploadState
<1> HIDE DEF t
<1>10. Busy(t, NoWork) = Range(chosen)
  BY <1>9, Idle DEF Busy
<1>11. ASSUME NEW i \in Paths PROVE JobOK(t, NoWork, i)
  <2>1. JobOK(s, NoWork, i) /\ ~Registering(NoWork, i)
    BY <1>1, CalmFacts DEF AppInv
  <2>2. i \in Busy(t, NoWork) =>
           /\ ~Won(t, i) /\ t.job[i].status # "unknown"
           /\ t.job[i].status \in Lost \/ t.row[i].status \in Lost => t.event[i] = "set"
    BY <2>1, <1>7, <1>9, <1>10, Statuses DEF JobOK, Won, Sure
  <2> QED
    BY <2>1, <2>2, <1>9 DEF JobOK, Fits, Won, Sure, Virgin
<1>12. Sides(t)
  BY <1>1, <1>9 DEF AppInv, Sides
<1>13. WorkerOK(t, NoWork)
  BY Idle DEF WorkerOK
<1>14. OperationOK(t, NoWork, NoOp, NoCancel)
  BY Idle DEF OperationOK
<1>15. CancelOK(t, NoWork, NoCancel)
  BY Idle DEF CancelOK
<1>16. Counted(t, NoWork, NoOp)
  <2>1. t.pending = Len(t.waiting) + (IF NoWork.pc = "idle" THEN 0 ELSE 1) + Submitting(NoOp) /\ t.pending <= MaxJobs
    BY <1>5, <1>6, <1>9, Idle
  <2> QED
    BY <2>1, <1>3, <1>6, <1>7, <1>9, Idle DEF Counted
<1>17. AppInv(t, NoWork, NoOp, NoCancel)
  BY <1>8, <1>11, <1>12, <1>13, <1>14, <1>15, <1>16 DEF AppInv
<1> QED
  BY <1>17 DEF t, chosen, m, all, Resubmitted

(* A restart keeps the invariant.                                          *)
LEMMA RestartKeeps ==
    ASSUME UploadInv, Restart
    PROVE  UploadInv'
<1> DEFINE F == [i \in Ids |-> [s \in UploadState |-> RestoreRow(s, i)]]
           C == {s \in UploadState : Calm(s)}
           A == [k \in 0..Len(app.born) |-> C]
           n == Len(app.born)
<1>0. PICK G \in SUBSET {i \in Ids : app.canon[i].status = "failed" /\ app.row[i].status \in Recoverable} :
         \E v \in Each({Reborn(app, G)}, app.born, F) : \E u \in EvictIfNeeded(v) : \E t \in EvictDocumentSources(u) :
            app' = Resubmitted(t)
  BY DEF Restart
<1>1. PICK v \in Each({Reborn(app, G)}, app.born, F) : \E u \in EvictIfNeeded(v) : \E t \in EvictDocumentSources(u) :
         app' = Resubmitted(t)
  BY <1>0
<1>2. PICK u \in EvictIfNeeded(v) : \E t \in EvictDocumentSources(u) : app' = Resubmitted(t)
  BY <1>1
<1>3. PICK t \in EvictDocumentSources(u) : app' = Resubmitted(t)
  BY <1>2
<1>4. op' = NoOp /\ wk' = NoWork /\ cn' = NoCancel
  BY DEF Restart
<1>5. app.born \in Seq(Ids) /\ n \in Nat
  BY DEF UploadInv, AppInv, UploadState
<1>6. {Reborn(app, G)} \subseteq C
  BY <1>0, RebornCalm, CalmFacts
<1>7. ASSUME NEW i \in Ids, NEW s \in C PROVE F[i][s] \subseteq C
  <2>1. F[i][s] = RestoreRow(s, i) /\ Calm(s)
    OBVIOUS
  <2> QED
    BY <2>1, RestoreRowCalm, CalmFacts
<1> HIDE DEF F, C
<1>8. \A k \in 1..n : app.born[k] \in Ids /\ k \in 0..n /\ k - 1 \in 0..n
  BY <1>5
<1>9. A[0] = C /\ A[n] = C /\ \A k \in 1..n : A[k] = C /\ A[k - 1] = C
  BY <1>5, <1>8
<1> HIDE DEF A
<1>10. \A k \in 1..n : \A s \in A[k - 1] : F[app.born[k]][s] \subseteq A[k]
  BY <1>7, <1>8, <1>9
<1>11. Each({Reborn(app, G)}, app.born, F) \subseteq A[n]
  <2> DEFINE q == app.born
             S == {Reborn(app, G)}
  <2>1. S \subseteq A[0] /\ Len(q) \in Nat /\ \A k \in 1..Len(q) : \A s \in A[k - 1] : F[q[k]][s] \subseteq A[k]
    BY <1>5, <1>6, <1>9, <1>10
  <2> HIDE DEF q, S
  <2>2. Each(S, q, F) \subseteq A[Len(q)]
    BY <2>1, EachStays
  <2> QED
    BY <2>2 DEF q, S
<1>12. Calm(v)
  BY <1>1, <1>9, <1>11 DEF C
<1>13. Calm(u)
  BY <1>2, <1>12, CalmFacts, EvictIfNeededNear
<1>14. Calm(t)
  BY <1>3, <1>13, CalmFacts, EvictDocumentSourcesNear
<1>15. AppInv(app', NoWork, NoOp, NoCancel)
  BY <1>3, <1>14, ResubmittedKeeps
<1> QED
  BY <1>4, <1>15 DEF UploadInv

-----------------------------------------------------------------------------
(* The invariant of the service *)

(* Every step keeps the invariant.                                         *)
LEMMA UploadStepKeeps ==
    ASSUME UploadInv, [UploadNext]_uploadVars
    PROVE  UploadInv'
<1>1. CASE UNCHANGED uploadVars
  BY <1>1 DEF uploadVars, UploadInv
<1>2. CASE Callers
  <2>1. CASE \E kind \in AllCalls : Admit(kind)
    BY <2>1, AdmitKeeps
  <2>2. CASE Refuse
    BY <2>2, RefuseKeeps
  <2>3. CASE \E d \in Documents : BeginSubmit(d) \/ BeginUpload(d) \/ BeginDelete(d)
    BY <2>3, BeginSubmitKeeps, BeginUploadKeeps, BeginDeleteKeeps
  <2>4. CASE \E i \in Paths, d \in Documents : BeginRetry(i, d)
    BY <2>4, BeginRetryKeeps
  <2>5. CASE \E d \in Documents, c \in Names : BeginReindex(d, c)
    BY <2>5, BeginReindexKeeps
  <2>6. CASE FinishSubmit
    BY <2>6, FinishSubmitKeeps
  <2>7. CASE FinishSync
    BY <2>7, FinishSyncKeeps
  <2>8. CASE FinishDelete
    BY <2>8, FinishDeleteKeeps
  <2>9. CASE \E i \in Paths : ReconcilePublication(i) \/ SignalCancel(i)
    BY <2>9, ReconcilePublicationKeeps, SignalCancelKeeps
  <2>10. CASE ReconcileCancel
    BY <2>10, ReconcileCancelKeeps
  <2> QED
    BY <1>2, <2>1, <2>2, <2>3, <2>4, <2>5, <2>6, <2>7, <2>8, <2>9, <2>10 DEF Callers
<1>3. CASE Executor
  BY <1>3, TakeFutureKeeps, StartUploadKeeps, EnterAttemptKeeps, FlagCancelKeeps, IngestReturnsKeeps,
     RegisterKeeps, FinishUploadKeeps
  DEF Executor
<1>4. CASE Lifecycle
  <2>1. CASE StopAdmission \/ StopReturns \/ StopTimesOut
    BY <2>1 DEF StopAdmission, StopReturns, StopTimesOut, UploadInv
  <2>2. CASE \E n \in 0..MaxIds : CancelQueued(n)
    BY <2>2, CancelQueuedKeeps
  <2>3. CASE Restart
    BY <2>3, RestartKeeps
  <2>4. CASE RestoreLeases
    BY <2>4, RestoreLeasesKeeps
  <2> QED
    BY <1>4, <2>1, <2>2, <2>3, <2>4 DEF Lifecycle
<1> QED
  BY <1>1, <1>2, <1>3, <1>4 DEF UploadNext

(* Whatever fails and however callers, worker, shutdown and restarts       *)
(* interleave, the jobs, the rows, the worker and the queue keep the       *)
(* invariant that _lock, the operation guard and the order of the writes   *)
(* establish.                                                              *)
THEOREM UploadInvariant ==
    UploadSpec => []UploadInv
<1>1. UploadInv /\ [UploadNext]_uploadVars => UploadInv'
  BY UploadStepKeeps
<1> QED
  BY <1>1, UploadBegins, PTL DEF UploadSpec

(* The invariant makes the rows agree with the receipts.                   *)
LEMMA RowsAgree ==
    UploadInv => RowAgreesWithReceipt
<1> SUFFICES ASSUME UploadInv, NEW i \in Ids
             PROVE  /\ app.row[i].status \in {"failed", "cancelled"} =>
                          app.receipt[i].outcome # "committed" \/ app.receipt[i].unheard
                    /\ app.row[i].status = "published" => app.receipt[i].outcome = "committed"
  BY DEF RowAgreesWithReceipt
<1>1. CASE i \in Paths
  BY <1>1 DEF UploadInv, AppInv, JobOK, Fits, Won, Sure, Lost
<1>2. CASE i \notin Paths
  BY <1>2 DEF UploadInv, AppInv, Sides, Synthetic
<1> QED
  BY <1>1, <1>2

(* JobJournal.upsert and its callers never leave a published row without a *)
(* committed publication, nor a failed or cancelled row for one, unless an *)
(* ingest raised on its receipt and so told _complete_async_attempt or     *)
(* _upload nothing of it.                                                  *)
THEOREM RowAgrees ==
    UploadSpec => []RowAgreesWithReceipt
BY UploadInvariant, RowsAgree, PTL

(* The invariant gives the types.                                          *)
LEMMA UploadTyped ==
    UploadInv => UploadTypeOK
BY DEF UploadInv, AppInv, WorkerOK, OperationOK, CancelOK, UploadTypeOK

(* The state of the service keeps its types, however callers, worker,      *)
(* shutdown and restarts interleave.                                       *)
THEOREM UploadTypes ==
    UploadSpec => []UploadTypeOK
BY UploadInvariant, UploadTyped, PTL

(* A slot of the queue is taken by the submission in progress, a queued    *)
(* future or the one that runs, and by nothing else, up to max_jobs.       *)
SlotsAreCounted ==
    /\ app.pending <= MaxJobs
    /\ app.pending = Len(app.waiting) + (IF wk.pc = "idle" THEN 0 ELSE 1)
                     + (IF op.kind = "submit" /\ op.pc = "running" THEN 1 ELSE 0)
    /\ app.scheduled = Range(app.waiting) \cup (IF wk.pc = "idle" THEN {} ELSE {wk.id})

(* The invariant counts the slots.                                         *)
LEMMA SlotsCounted ==
    UploadInv => SlotsAreCounted
BY DEF UploadInv, AppInv, Counted, Submitting, Held, SlotsAreCounted

(* No path of submission, cancellation, failure, shutdown or restart loses *)
(* a slot of the queue, or takes one beyond max_jobs.                      *)
THEOREM SlotsCount ==
    UploadSpec => []SlotsAreCounted
BY UploadInvariant, SlotsCounted, PTL

-----------------------------------------------------------------------------
(* Shutdown *)

(* What shutdown may rely on at each of its steps.                         *)
StopOK ==
    /\ stopper \in {"none", "stopping", "joining", "stopped", "timed out"}
    /\ stopper # "none" => accepting = FALSE
    /\ stopper \in {"joining", "stopped"} => app.waiting = << >>
    /\ stopper = "stopped" => op = NoOp /\ wk = NoWork /\ cn = NoCancel

(* A step that leaves shutdown, admission and, once admission is closed,   *)
(* the queue as they are.                                                  *)
LEMMA StopKeeps ==
    ASSUME StopOK, stopper' = stopper, accepting' = accepting, stopper # "stopped",
           stopper \in {"joining", "stopped"} /\ accepting = FALSE => app'.waiting = app.waiting
    PROVE  StopOK'
BY DEF StopOK

(* The callers keep it: nobody queues a job of a service that does not     *)
(* accept work.                                                            *)
LEMMA CallersStop ==
    ASSUME UploadInv, StopOK, Callers
    PROVE  StopOK'
<1>1. stopper' = stopper /\ accepting' = accepting
  BY DEF Callers, Admit, Refuse, BeginSubmit, BeginUpload, BeginDelete, BeginRetry, BeginReindex, FinishSubmit,
         FinishSync, FinishDelete, ReconcilePublication, SignalCancel, ReconcileCancel, Entered, Running
<1>2. stopper # "stopped"
  BY Idle DEF Callers, Admit, Refuse, BeginSubmit, BeginUpload, BeginDelete, BeginRetry, BeginReindex, FinishSubmit,
         FinishSync, FinishDelete, ReconcilePublication, SignalCancel, ReconcileCancel, Entered, Running, StopOK
<1>3. accepting = FALSE => app'.waiting = app.waiting
  <2>1. CASE (\E kind \in AllCalls : Admit(kind)) \/ Refuse
    BY <2>1 DEF Admit, Refuse
  <2>2. CASE \E d \in Documents : BeginSubmit(d) \/ BeginUpload(d) \/ BeginDelete(d)
    BY <2>2, BeginSubmitKeeps, BeginUploadKeeps, BeginDeleteKeeps
  <2>3. CASE \E i \in Paths, d \in Documents : BeginRetry(i, d)
    BY <2>3, BeginRetryKeeps
  <2>4. CASE \E d \in Documents, c \in Names : BeginReindex(d, c)
    BY <2>4, BeginReindexKeeps
  <2>5. CASE FinishSubmit
    BY <2>5, FinishSubmitKeeps
  <2>6. CASE FinishSync
    BY <2>6, FinishSyncKeeps
  <2>7. CASE FinishDelete
    BY <2>7, FinishDeleteKeeps
  <2>8. CASE \E i \in Paths : ReconcilePublication(i) \/ SignalCancel(i)
    <3>1. ASSUME NEW i \in Paths, SignalCancel(i) PROVE accepting
      BY <3>1 DEF SignalCancel
    <3> QED
      BY <2>8, <3>1, ReconcilePublicationKeeps
  <2>9. CASE ReconcileCancel
    BY <2>9, ReconcileCancelKeeps
  <2> QED
    BY <2>1, <2>2, <2>3, <2>4, <2>5, <2>6, <2>7, <2>8, <2>9 DEF Callers
<1> QED
  BY <1>1, <1>2, <1>3, StopKeeps

(* The worker keeps it.                                                    *)
LEMMA ExecutorStops ==
    ASSUME UploadInv, StopOK, Executor
    PROVE  StopOK'
<1>1. stopper' = stopper /\ accepting' = accepting
  BY DEF Executor, TakeFuture, StartUpload, EnterAttempt, FlagCancel, IngestReturns, Register, FinishUpload, Working
<1>2. stopper # "stopped"
  BY Idle DEF Executor, TakeFuture, StartUpload, EnterAttempt, FlagCancel, IngestReturns, Register, FinishUpload, Working, StopOK
<1>3. stopper \in {"joining", "stopped"} => app'.waiting = app.waiting
  <2>1. CASE TakeFuture
    BY <2>1 DEF TakeFuture, StopOK
  <2>2. CASE EnterAttempt
    BY <2>2 DEF EnterAttempt
  <2>3. CASE StartUpload \/ FlagCancel \/ IngestReturns \/ Register \/ FinishUpload
    BY <2>3, StartUploadKeeps, FlagCancelKeeps, IngestReturnsKeeps, RegisterKeeps, FinishUploadKeeps
  <2> QED
    BY <2>1, <2>2, <2>3 DEF Executor
<1> QED
  BY <1>1, <1>2, <1>3, StopKeeps

(* shutdown itself and a restart keep it.                                  *)
LEMMA LifecycleStops ==
    ASSUME UploadInv, StopOK, Lifecycle
    PROVE  StopOK'
<1>1. CASE StopAdmission
  BY <1>1 DEF StopAdmission, StopOK
<1>2. CASE StopReturns
  BY <1>2 DEF StopReturns, StopOK
<1>3. CASE StopTimesOut
  BY <1>3 DEF StopTimesOut, StopOK
<1>4. ASSUME NEW n \in 0..MaxIds, CancelQueued(n) PROVE StopOK'
  <2>1. /\ stopper = "stopping" /\ accepting' = accepting
        /\ stopper' = IF n = Len(app.waiting) THEN "joining" ELSE "timed out"
    BY <1>4 DEF CancelQueued
  <2>2. n = Len(app.waiting) => app'.waiting = << >>
    BY <1>4, CancelQueuedKeeps
  <2> QED
    BY <2>1, <2>2 DEF StopOK
<1>5. CASE Restart
  BY <1>5 DEF Restart, StopOK
<1>6. CASE RestoreLeases
  <2>1. stopper' = stopper /\ accepting' = accepting /\ op' = op /\ wk' = wk /\ cn' = cn
    BY <1>6 DEF RestoreLeases
  <2>2. app'.waiting = app.waiting
    BY <1>6, RestoreLeasesKeeps
  <2> QED
    BY <2>1, <2>2 DEF StopOK
<1> QED
  BY <1>1, <1>2, <1>3, <1>4, <1>5, <1>6 DEF Lifecycle

(* Once shutdown has emptied the queue it stays empty, though operations   *)
(* admitted before go on.                                                  *)
THEOREM StopInvariant ==
    UploadSpec => []StopOK
<1>1. UploadInit => StopOK
  BY DEF UploadInit, StopOK
<1>2. UploadInv /\ StopOK /\ [UploadNext]_uploadVars => StopOK'
  <2> SUFFICES ASSUME UploadInv, StopOK, [UploadNext]_uploadVars PROVE StopOK'
    OBVIOUS
  <2>1. CASE UNCHANGED uploadVars
    BY <2>1 DEF uploadVars, StopOK
  <2> QED
    BY <2>1, CallersStop, ExecutorStops, LifecycleStops DEF UploadNext
<1> QED
  BY <1>1, <1>2, UploadInvariant, PTL DEF UploadSpec

(* When shutdown answers TRUE no operation, cancellation, worker or        *)
(* scheduled job is left.                                                  *)
IdleAfterShutdown ==
    stopper = "stopped" =>
        op = NoOp /\ cn = NoCancel /\ wk = NoWork /\ app.scheduled = {} /\ app.pending = 0

(* Both invariants leave nothing scheduled or counted.                     *)
LEMMA StoppedIdle ==
    UploadInv /\ StopOK => IdleAfterShutdown
<1> SUFFICES ASSUME UploadInv, StopOK, stopper = "stopped" PROVE app.scheduled = {} /\ app.pending = 0
  BY DEF IdleAfterShutdown, StopOK
<1>1. op = NoOp /\ wk = NoWork /\ app.waiting = << >> /\ Counted(app, wk, op)
  BY DEF StopOK, UploadInv, AppInv
<1>2. Range(<< >>) = {} /\ Len(<< >>) = 0
  BY DEF Range
<1> QED
  BY <1>1, <1>2, Idle DEF Counted

(* When shutdown answers TRUE nothing moves any more and _async_pending is *)
(* zero.                                                                   *)
THEOREM ShutdownIsIdle ==
    UploadSpec => []IdleAfterShutdown
BY UploadInvariant, StopInvariant, StoppedIdle, PTL
===============================================================================
