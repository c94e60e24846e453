--------------------------- MODULE EpSetup_proofs ---------------------------
(***************************************************************************)
(* What the multi-node programs open and close, step by step and in the    *)
(* order of their calls, for any number of ranks, threads and peers.       *)
(* EpSetupRuns_proofs follows their ranks, with any number of failures.    *)
(***************************************************************************)
EXTENDS EpSetup, FiniteSetTheorems, SequenceTheorems, TLAPS

Handles ==
  {"fab", "dom", "av", "waitset", "scntr", "rcntr", "fi_addrs", "ep", "scq", "rcq", "s_buf", "l_mr",
   "r_mr", "rbuf_descs", "l_table_mr", "l_lock_mr", "l_scratch_mr", "l_auth_key_mr"} \X Nat
Names ==
  {"fi_getinfo", "fi_fabric", "fi_domain", "fi_endpoint", "fi_cq_open", "fi_cntr_open", "fi_cntr_open 2",
   "fi_wait_open", "fi_av_open", "fi_ep_bind", "fi_getname", "fi_av_insert", "fi_mr_reg r_buf",
   "fi_mr_reg s_buf", "fi_mr_reg table", "fi_mr_reg lock", "fi_mr_reg scratch", "fi_mr_regattr table",
   "fi_mr_regattr auth", "drc_acquire", "drc_access", "drc_release", "align buffers", "touch", "test",
   "fi_close", "fi_close if set", "ctpm_Barrier", "name", "desc", "abort", "table_key", "table_addr",
   "lock_key", "lock_addr"}
Kinds == {"call", "step", "barrier", "gather"}
Kept == {h \in Handles : h[1] \in NeverClosed}
Meeting(x) == x.use = {} /\ x.drop = <<>> /\ x.make \subseteq Kept
Steps ==
  {x \in [kind : Kinds, name : Names, use : SUBSET Handles, make : SUBSET Handles, drop : Seq(Handles)] :
     /\ x.kind \in {"barrier", "gather"} => Meeting(x)
     /\ x.kind = "barrier" => x.make = {}}

-----------------------------------------------------------------------------
(* Sequences put together from others                                      *)

(* Induction over the natural numbers, for a set: the library states it    *)
(* with an operator for parameter.                                         *)
LEMMA Induction ==
  ASSUME NEW Good, 0 \in Good, \A n \in Nat : n \in Good => n + 1 \in Good
  PROVE  Nat \subseteq Good
  <1> SUFFICES ASSUME NEW bad \in Nat, bad \notin Good PROVE FALSE
    OBVIOUS
  <1> DEFINE T == {0 .. n : n \in Nat \ Good}
  <1>1. T \subseteq FiniteSubsetsOf(Nat)
    <2> SUFFICES ASSUME NEW n \in Nat PROVE 0 .. n \in FiniteSubsetsOf(Nat)
      OBVIOUS
    <2>1. IsFiniteSet(0 .. n)
      BY FS_Interval
    <2> QED
      BY <2>1 DEF FiniteSubsetsOf
  <1>2. T # {}
    OBVIOUS
  <1>3. PICK U \in T : \A V \in T : ~(<<V, U>> \in StrictSubsetOrdering(Nat))
    <2> HIDE DEF T
    <2>1. IsWellFoundedOn(StrictSubsetOrdering(Nat), FiniteSubsetsOf(Nat))
      BY FS_StrictSubsetOrderingWellFounded
    <2> QED
      BY <1>1, <1>2, <2>1, WFMin
  <1>4. PICK m \in Nat \ Good : U = 0 .. m
    OBVIOUS
  <1>5. m - 1 \in Nat \ Good
    BY m # 0, m = (m - 1) + 1
  <1>6. /\ 0 .. m - 1 \in T
        /\ 0 .. m - 1 \subseteq 0 .. m /\ 0 .. m - 1 # 0 .. m
        /\ 0 .. m - 1 \subseteq Nat /\ 0 .. m \subseteq Nat
    BY <1>5
  <1>7. <<0 .. m - 1, 0 .. m>> \in StrictSubsetOrdering(Nat)
    BY <1>6, Zenon DEF StrictSubsetOrdering
  <1> QED
    BY <1>3, <1>4, <1>6, <1>7, Zenon
(* f puts together the first of some sequences, one after the other, n of  *)
(* them.                                                                   *)
Flattens(f, S, ss, n) ==
  /\ f \in [1 .. n -> Seq(S)] /\ f[1] = ss[1]
  /\ \A k \in 2 .. n : f[k] = f[k - 1] \o ss[k]

(* There is such a function, by induction on n.                            *)
LEMMA FlatteningExists ==
  ASSUME NEW S, NEW n \in Nat \ {0}, NEW ss \in [1 .. n -> Seq(S)]
  PROVE  \E f : Flattens(f, S, ss, n)
  <1> DEFINE Good == {m \in Nat : m + 1 <= n => \E f : Flattens(f, S, ss, m + 1)}
  <1>1. 0 \in Good
    <2>1. Flattens([k \in 1 .. 0 + 1 |-> ss[1]], S, ss, 0 + 1)
      BY DEF Flattens
    <2> QED
      BY <2>1
  <1>2. ASSUME NEW m \in Nat, m \in Good PROVE m + 1 \in Good
    <2> SUFFICES ASSUME m + 1 + 1 <= n PROVE \E f : Flattens(f, S, ss, m + 1 + 1)
      OBVIOUS
    <2>1. PICK f : Flattens(f, S, ss, m + 1)
      BY <1>2
    <2> DEFINE g == [k \in 1 .. m + 1 + 1 |-> IF k = m + 1 + 1 THEN f[m + 1] \o ss[k] ELSE f[k]]
    <2>2. f[m + 1] \in Seq(S) /\ ss[m + 1 + 1] \in Seq(S)
      BY <2>1 DEF Flattens
    <2>3. f[m + 1] \o ss[m + 1 + 1] \in Seq(S)
      BY <2>2, ConcatProperties
    <2>4. ASSUME NEW k \in 1 .. m + 1 + 1 PROVE g[k] \in Seq(S)
      <3>1. CASE k = m + 1 + 1
        BY <2>3, <3>1
      <3>2. CASE k # m + 1 + 1
        BY <2>1, <3>2 DEF Flattens
      <3> QED
        BY <3>1, <3>2
    <2>5. g[1] = ss[1]
      BY <2>1 DEF Flattens
    <2>6. ASSUME NEW k \in 2 .. m + 1 + 1 PROVE g[k] = g[k - 1] \o ss[k]
      <3>1. g[k - 1] = f[k - 1]
        OBVIOUS
      <3>2. CASE k = m + 1 + 1
        <4>1. k - 1 = m + 1
          BY <3>2
        <4>2. k \in 1 .. m + 1 + 1
          OBVIOUS
        <4>3. g[k] = f[m + 1] \o ss[k]
          BY ONLY <3>2, <4>2, Zenon
        <4> HIDE DEF g
        <4> QED
          BY <3>1, <4>1, <4>3, Zenon
      <3>3. CASE k # m + 1 + 1
        <4>1. k \in 2 .. m + 1
          BY <3>3
        <4>2. g[k] = f[k]
          BY <3>3
        <4> QED
          BY <2>1, <3>1, <4>1, <4>2, Zenon DEF Flattens
      <3> QED
        BY <3>2, <3>3, Zenon
    <2>7. g \in [1 .. m + 1 + 1 -> Seq(S)]
      <3>1. g = [k \in 1 .. m + 1 + 1 |-> g[k]]
        OBVIOUS
      <3> HIDE DEF g
      <3> QED
        BY <2>4, <3>1
    <2>8. Flattens(g, S, ss, m + 1 + 1)
      <3> HIDE DEF g
      <3> QED
        BY <2>5, <2>6, <2>7, Zenon DEF Flattens
    <2> QED
      BY <2>8
  <1>3. n - 1 \in Good
    <2> HIDE DEF Good
    <2>1. Nat \subseteq Good
      BY <1>1, <1>2, Induction, Zenon
    <2> QED
      BY <2>1
  <1>4. n - 1 + 1 = n
    OBVIOUS
  <1> QED
    BY <1>3, <1>4

(* FlattenSeq is the last of what such a function puts together.           *)
LEMMA Flattening ==
  ASSUME NEW S, NEW n \in Nat \ {0}, NEW ss \in [1 .. n -> Seq(S)]
  PROVE  \E f : Flattens(f, S, ss, n) /\ FlattenSeq(ss) = f[n]
  <1>1. Len(ss) = n
    OBVIOUS
  <1> DEFINE Def(f) == f = [k \in 1 .. Len(ss) |-> IF k = 1 THEN ss[k] ELSE f[k - 1] \o ss[k]]
             F == CHOOSE f : Def(f)
  <1>2. PICK h : Flattens(h, S, ss, n)
    BY FlatteningExists
  <1>3. Def(h)
    <2>1. ASSUME NEW k \in 1 .. n PROVE h[k] = IF k = 1 THEN ss[k] ELSE h[k - 1] \o ss[k]
      <3>1. CASE k = 1
        BY <1>2, <3>1 DEF Flattens
      <3>2. CASE k # 1
        <4>1. k \in 2 .. n
          BY <3>2
        <4> QED
          BY <1>2, <3>2, <4>1, Zenon DEF Flattens
      <3> QED
        BY <3>1, <3>2
    <2>2. h = [k \in 1 .. n |-> h[k]]
      BY <1>2 DEF Flattens
    <2> QED
      BY <1>1, <2>1, <2>2, Zenon
  <1>4. Def(F)
    <2> HIDE DEF Def
    <2> QED
      BY <1>3
  <1>5. FlattenSeq(ss) = F[n]
    BY <1>1 DEF FlattenSeq
  <1> HIDE DEF F
  <1>6. /\ F = [k \in 1 .. n |-> F[k]] /\ F[1] = ss[1]
        /\ \A k \in 2 .. n : F[k] = F[k - 1] \o ss[k]
    <2>1. F = [k \in 1 .. n |-> IF k = 1 THEN ss[k] ELSE F[k - 1] \o ss[k]]
      BY <1>1, <1>4, Zenon
    <2> HIDE DEF Def
    <2>2. ASSUME NEW k \in 1 .. n PROVE F[k] = IF k = 1 THEN ss[k] ELSE F[k - 1] \o ss[k]
      BY <2>1, Zenon
    <2>3. F[1] = ss[1]
      BY <2>2
    <2>4. F = [k \in 1 .. n |-> F[k]]
      BY <2>1
    <2>5. ASSUME NEW k \in 2 .. n PROVE F[k] = F[k - 1] \o ss[k]
      <3>1. k \in 1 .. n /\ k # 1
        OBVIOUS
      <3> QED
        BY <2>2, <3>1, Zenon
    <2> QED
      BY <2>3, <2>4, <2>5, Zenon
  <1> HIDE DEF Def
  <1> DEFINE Good == {m \in Nat : m + 1 <= n => F[m + 1] \in Seq(S)}
  <1>7. 0 \in Good
    BY <1>6
  <1>8. ASSUME NEW m \in Nat, m \in Good PROVE m + 1 \in Good
    <2> SUFFICES ASSUME m + 1 + 1 <= n PROVE F[m + 1 + 1] \in Seq(S)
      OBVIOUS
    <2>1. m + 1 + 1 \in 2 .. n /\ (m + 1 + 1) - 1 = m + 1
      OBVIOUS
    <2>2. F[m + 1] \in Seq(S) /\ ss[m + 1 + 1] \in Seq(S)
      BY <1>8, <2>1
    <2>3. F[m + 1 + 1] = F[m + 1] \o ss[m + 1 + 1]
      BY <1>6, <2>1, Zenon
    <2> QED
      BY <2>2, <2>3, ConcatProperties
  <1>9. ASSUME NEW k \in 1 .. n PROVE F[k] \in Seq(S)
    <2> HIDE DEF Good
    <2>1. Nat \subseteq Good
      BY <1>7, <1>8, Induction, Zenon
    <2>2. k - 1 \in Nat /\ k - 1 + 1 = k
      OBVIOUS
    <2>3. k - 1 \in Good /\ k - 1 + 1 <= n
      BY <2>1, <2>2
    <2>4. F[k - 1 + 1] \in Seq(S)
      BY <2>3 DEF Good
    <2> QED
      BY <2>2, <2>4
  <1>10. Flattens(F, S, ss, n)
    BY <1>6, <1>9, Zenon DEF Flattens
  <1> QED
    BY <1>5, <1>10

(* What holds of the first sequence, and of what is put together as long   *)
(* as the next one is added, holds of the whole.                           *)
LEMMA FlattenInduction ==
  ASSUME NEW S, NEW n \in Nat \ {0}, NEW ss \in [1 .. n -> Seq(S)], NEW Good,
         <<1, ss[1]>> \in Good,
         \A m \in 1 .. n - 1 : \A s \in Seq(S) : <<m, s>> \in Good => <<m + 1, s \o ss[m + 1]>> \in Good
  PROVE  FlattenSeq(ss) \in Seq(S) /\ <<n, FlattenSeq(ss)>> \in Good
  <1>1. PICK f : Flattens(f, S, ss, n) /\ FlattenSeq(ss) = f[n]
    BY Flattening, Zenon
  <1> DEFINE Fine == {m \in Nat : m + 1 <= n => <<m + 1, f[m + 1]>> \in Good}
  <1>2. 0 \in Fine
    <2>1. f[1] = ss[1] /\ 0 + 1 = 1
      BY <1>1 DEF Flattens
    <2> QED
      BY <2>1, Zenon
  <1>3. ASSUME NEW m \in Nat, m \in Fine PROVE m + 1 \in Fine
    <2> SUFFICES ASSUME m + 1 + 1 <= n PROVE <<m + 1 + 1, f[m + 1 + 1]>> \in Good
      OBVIOUS
    <2>1. m + 1 \in 1 .. n - 1 /\ m + 1 + 1 \in 2 .. n /\ (m + 1 + 1) - 1 = m + 1
      OBVIOUS
    <2>2. f[m + 1] \in Seq(S) /\ <<m + 1, f[m + 1]>> \in Good
      BY <1>1, <1>3, <2>1 DEF Flattens
    <2>3. f[m + 1 + 1] = f[m + 1] \o ss[m + 1 + 1]
      BY <1>1, <2>1, Zenon DEF Flattens
    <2> QED
      BY <2>1, <2>2, <2>3, Zenon
  <1>4. n - 1 \in Fine
    <2> HIDE DEF Fine
    <2>1. Nat \subseteq Fine
      BY <1>2, <1>3, Induction, Zenon
    <2> QED
      BY <2>1
  <1>5. n - 1 + 1 = n
    OBVIOUS
  <1>6. FlattenSeq(ss) \in Seq(S)
    BY <1>1 DEF Flattens
  <1> QED
    BY <1>1, <1>4, <1>5, <1>6

-----------------------------------------------------------------------------
(* What can be said of a sequence of steps                                 *)

Makes(s) == UNION {s[k].make : k \in 1 .. Len(s)}
Uses(s) == UNION {s[k].use : k \in 1 .. Len(s)}
Closes(s) == UNION {ToSet(s[k].drop) : k \in {j \in 1 .. Len(s) : s[j].kind = "step"}}

Made(h, s, k) == \E j \in 1 .. k - 1 : h \in s[j].make
Used(h, s, k) == \E j \in 1 .. k - 1 : h \in s[j].use
Closed(h, s, k) == \E j \in 1 .. k - 1 : s[j].kind = "step" /\ h \in ToSet(s[j].drop)

(* It closes nothing; it calls nothing.                                    *)
Opening(s) == \A k \in 1 .. Len(s) : s[k].kind = "step" => s[k].drop = <<>>
NoCalls(s) == \A k \in 1 .. Len(s) : s[k].kind # "call"

(* All its steps are of certain kinds.                                     *)
Only(K, s) == \A k \in 1 .. Len(s) : s[k].kind \in K

(* It has nothing to do with credentials.                                  *)
Local(s) == \A k \in 1 .. Len(s) : s[k].name \notin {"drc_acquire", "drc_access", "drc_release"}

(* From A, each step has what it uses.                                     *)
Supplied(A, s) ==
  \A k \in 1 .. Len(s) : \A h \in s[k].use : (h \in A \/ Made(h, s, k)) /\ ~Closed(h, s, k)

(* A call that fails closes nothing twice, and only what is in X or has    *)
(* been used or made.                                                      *)
Neat(X, s) ==
  \A k \in 1 .. Len(s) : s[k].kind = "call" =>
    /\ IsInjective(s[k].drop)
    /\ \A h \in ToSet(s[k].drop) : h \in X \/ h \in s[k].use \/ Used(h, s, k) \/ Made(h, s, k)

(* A call that fails closes everything in X and all that has been made, or *)
(* it is never closed.                                                     *)
Thorough(X, s) ==
  \A k \in 1 .. Len(s) : s[k].kind = "call" =>
    \A h : h \in X \/ Made(h, s, k) => h \in Kept \/ h \in ToSet(s[k].drop)

(* The steps of two sequences one after the other                          *)
LEMMA ConcatStep ==
  ASSUME NEW s \in Seq(Steps), NEW t \in Seq(Steps)
  PROVE  /\ s \o t \in Seq(Steps) /\ Len(s \o t) = Len(s) + Len(t)
         /\ Len(s) \in Nat /\ Len(t) \in Nat
         /\ \A k \in 1 .. Len(s) : (s \o t)[k] = s[k]
         /\ \A k \in 1 .. Len(t) : (s \o t)[Len(s) + k] = t[k]
         /\ \A k \in 1 .. Len(s \o t) : k \in 1 .. Len(s) \/ \E j \in 1 .. Len(t) : k = Len(s) + j
  <1>1. Len(s) \in Nat /\ Len(t) \in Nat
    OBVIOUS
  <1>2. s \o t \in Seq(Steps) /\ Len(s \o t) = Len(s) + Len(t)
    BY ConcatProperties
  <1>3. ASSUME NEW k \in 1 .. Len(s) PROVE (s \o t)[k] = s[k]
    BY <1>1, ConcatProperties
  <1>4. ASSUME NEW k \in 1 .. Len(t) PROVE (s \o t)[Len(s) + k] = t[k]
    <2>1. Len(s) + k \in 1 .. Len(s) + Len(t) /\ ~(Len(s) + k <= Len(s)) /\ (Len(s) + k) - Len(s) = k
      BY <1>1
    <2> QED
      BY <2>1, ConcatProperties
  <1>5. ASSUME NEW k \in 1 .. Len(s \o t), k \notin 1 .. Len(s)
        PROVE  \E j \in 1 .. Len(t) : k = Len(s) + j
    <2>1. k - Len(s) \in 1 .. Len(t) /\ k = Len(s) + (k - Len(s))
      BY <1>1, <1>2, <1>5
    <2> QED
      BY <2>1, Zenon
  <1> QED
    BY <1>1, <1>2, <1>3, <1>4, <1>5

(* What they make, use and close is what either does.                      *)
LEMMA ConcatSets ==
  ASSUME NEW s \in Seq(Steps), NEW t \in Seq(Steps)
  PROVE  /\ Makes(s \o t) = Makes(s) \cup Makes(t)
         /\ Uses(s \o t) = Uses(s) \cup Uses(t)
         /\ Closes(s \o t) = Closes(s) \cup Closes(t)
  <1> DEFINE u == s \o t
  <1>1. /\ Len(u) = Len(s) + Len(t) /\ Len(s) \in Nat /\ Len(t) \in Nat
        /\ \A k \in 1 .. Len(s) : u[k] = s[k]
        /\ \A k \in 1 .. Len(t) : u[Len(s) + k] = t[k]
        /\ \A k \in 1 .. Len(u) : k \in 1 .. Len(s) \/ \E j \in 1 .. Len(t) : k = Len(s) + j
    BY ConcatStep
  <1> HIDE DEF u
  <1>2. /\ \A k \in 1 .. Len(s) : k \in 1 .. Len(u)
        /\ \A k \in 1 .. Len(t) : Len(s) + k \in 1 .. Len(u)
    BY <1>1
  <1>3. ASSUME NEW h PROVE h \in Makes(u) <=> h \in Makes(s) \/ h \in Makes(t)
    <2> DEFINE Hit(x) == h \in x.make
    <2>1. /\ h \in Makes(u) <=> \E k \in 1 .. Len(u) : Hit(u[k])
          /\ h \in Makes(s) <=> \E k \in 1 .. Len(s) : Hit(s[k])
          /\ h \in Makes(t) <=> \E k \in 1 .. Len(t) : Hit(t[k])
      BY DEF Makes
    <2> HIDE DEF Hit
    <2>2. ASSUME NEW k \in 1 .. Len(u), Hit(u[k])
          PROVE  (\E j \in 1 .. Len(s) : Hit(s[j])) \/ (\E j \in 1 .. Len(t) : Hit(t[j]))
      BY <1>1, <2>2
    <2>3. ASSUME NEW k \in 1 .. Len(s), Hit(s[k]) PROVE \E j \in 1 .. Len(u) : Hit(u[j])
      BY <1>1, <1>2, <2>3
    <2>4. ASSUME NEW k \in 1 .. Len(t), Hit(t[k]) PROVE \E j \in 1 .. Len(u) : Hit(u[j])
      BY <1>1, <1>2, <2>4, Zenon
    <2> QED
      BY <2>1, <2>2, <2>3, <2>4
  <1>4. ASSUME NEW h PROVE h \in Uses(u) <=> h \in Uses(s) \/ h \in Uses(t)
    <2> DEFINE Hit(x) == h \in x.use
    <2>1. /\ h \in Uses(u) <=> \E k \in 1 .. Len(u) : Hit(u[k])
          /\ h \in Uses(s) <=> \E k \in 1 .. Len(s) : Hit(s[k])
          /\ h \in Uses(t) <=> \E k \in 1 .. Len(t) : Hit(t[k])
      BY Zenon DEF Uses
    <2> HIDE DEF Hit
    <2>2. ASSUME NEW k \in 1 .. Len(u), Hit(u[k])
          PROVE  (\E j \in 1 .. Len(s) : Hit(s[j])) \/ (\E j \in 1 .. Len(t) : Hit(t[j]))
      BY <1>1, <2>2
    <2>3. ASSUME NEW k \in 1 .. Len(s), Hit(s[k]) PROVE \E j \in 1 .. Len(u) : Hit(u[j])
      BY <1>1, <1>2, <2>3
    <2>4. ASSUME NEW k \in 1 .. Len(t), Hit(t[k]) PROVE \E j \in 1 .. Len(u) : Hit(u[j])
      BY <1>1, <1>2, <2>4, Zenon
    <2> QED
      BY <2>1, <2>2, <2>3, <2>4
  <1>5. ASSUME NEW h PROVE h \in Closes(u) <=> h \in Closes(s) \/ h \in Closes(t)
    <2> DEFINE Hit(x) == x.kind = "step" /\ h \in ToSet(x.drop)
    <2>1. /\ h \in Closes(u) <=> \E k \in 1 .. Len(u) : Hit(u[k])
          /\ h \in Closes(s) <=> \E k \in 1 .. Len(s) : Hit(s[k])
          /\ h \in Closes(t) <=> \E k \in 1 .. Len(t) : Hit(t[k])
      BY DEF Closes
    <2> HIDE DEF Hit
    <2>2. ASSUME NEW k \in 1 .. Len(u), Hit(u[k])
          PROVE  (\E j \in 1 .. Len(s) : Hit(s[j])) \/ (\E j \in 1 .. Len(t) : Hit(t[j]))
      BY <1>1, <2>2
    <2>3. ASSUME NEW k \in 1 .. Len(s), Hit(s[k]) PROVE \E j \in 1 .. Len(u) : Hit(u[j])
      BY <1>1, <1>2, <2>3
    <2>4. ASSUME NEW k \in 1 .. Len(t), Hit(t[k]) PROVE \E j \in 1 .. Len(u) : Hit(u[j])
      BY <1>1, <1>2, <2>4, Zenon
    <2> QED
      BY <2>1, <2>2, <2>3, <2>4
  <1> QED
    BY <1>3, <1>4, <1>5 DEF u

(* What has been made, used or closed on the way                           *)
LEMMA ConcatBefore ==
  ASSUME NEW s \in Seq(Steps), NEW t \in Seq(Steps), NEW h
  PROVE  /\ \A k \in 1 .. Len(s) :
              /\ Made(h, s \o t, k) <=> Made(h, s, k)
              /\ Used(h, s \o t, k) <=> Used(h, s, k)
              /\ Closed(h, s \o t, k) <=> Closed(h, s, k)
         /\ \A k \in 1 .. Len(t) :
              /\ Made(h, s \o t, Len(s) + k) <=> h \in Makes(s) \/ Made(h, t, k)
              /\ Used(h, s \o t, Len(s) + k) <=> h \in Uses(s) \/ Used(h, t, k)
              /\ Closed(h, s \o t, Len(s) + k) <=> h \in Closes(s) \/ Closed(h, t, k)
  <1> DEFINE u == s \o t
  <1>1. /\ Len(u) = Len(s) + Len(t) /\ Len(s) \in Nat /\ Len(t) \in Nat
        /\ \A k \in 1 .. Len(s) : u[k] = s[k]
        /\ \A k \in 1 .. Len(t) : u[Len(s) + k] = t[k]
        /\ \A k \in 1 .. Len(u) : k \in 1 .. Len(s) \/ \E j \in 1 .. Len(t) : k = Len(s) + j
    BY ConcatStep
  <1> HIDE DEF u
  <1>2. ASSUME NEW k \in 1 .. Len(s)
        PROVE  /\ Made(h, u, k) <=> Made(h, s, k)
               /\ Used(h, u, k) <=> Used(h, s, k)
               /\ Closed(h, u, k) <=> Closed(h, s, k)
    <2>1. \A j \in 1 .. k - 1 : u[j] = s[j]
      BY <1>1
    <2> QED
      BY <2>1, Zenon DEF Made, Used, Closed
  <1>3. ASSUME NEW k \in 1 .. Len(t)
        PROVE  /\ Made(h, u, Len(s) + k) <=> h \in Makes(s) \/ Made(h, t, k)
               /\ Used(h, u, Len(s) + k) <=> h \in Uses(s) \/ Used(h, t, k)
               /\ Closed(h, u, Len(s) + k) <=> h \in Closes(s) \/ Closed(h, t, k)
    <2>1. /\ \A j \in 1 .. Len(s) : j \in 1 .. (Len(s) + k) - 1
          /\ \A j \in 1 .. k - 1 : j \in 1 .. Len(t) /\ Len(s) + j \in 1 .. (Len(s) + k) - 1
      BY <1>1
    <2>2. ASSUME NEW j \in 1 .. (Len(s) + k) - 1
          PROVE  j \in 1 .. Len(s) \/ \E i \in 1 .. k - 1 : j = Len(s) + i
      <3>1. ASSUME j \notin 1 .. Len(s) PROVE j - Len(s) \in 1 .. k - 1 /\ j = Len(s) + (j - Len(s))
        BY <1>1, <3>1
      <3> QED
        BY <3>1
    <2>3. Made(h, u, Len(s) + k) <=> h \in Makes(s) \/ Made(h, t, k)
      BY <1>1, <2>1, <2>2, Zenon DEF Made, Makes
    <2>4. Used(h, u, Len(s) + k) <=> h \in Uses(s) \/ Used(h, t, k)
      BY <1>1, <2>1, <2>2, Zenon DEF Used, Uses
    <2>5. Closed(h, u, Len(s) + k) <=> h \in Closes(s) \/ Closed(h, t, k)
      <3> DEFINE Hit(x) == x.kind = "step" /\ h \in ToSet(x.drop)
      <3>1. /\ h \in Closes(s) <=> \E j \in 1 .. Len(s) : Hit(s[j])
            /\ Closed(h, t, k) <=> \E j \in 1 .. k - 1 : Hit(t[j])
            /\ Closed(h, u, Len(s) + k) <=> \E j \in 1 .. (Len(s) + k) - 1 : Hit(u[j])
        BY DEF Closes, Closed
      <3> HIDE DEF Hit
      <3> QED
        BY <1>1, <2>1, <2>2, <3>1, Zenon
    <2> QED
      BY <2>3, <2>4, <2>5
  <1> QED
    BY <1>2, <1>3 DEF u

(* Kinds of sequences that are closed under concatenation                  *)
LEMMA ConcatPlain ==
  ASSUME NEW s \in Seq(Steps), NEW t \in Seq(Steps)
  PROVE  /\ Opening(s) /\ Opening(t) => Opening(s \o t)
         /\ NoCalls(s) /\ NoCalls(t) => NoCalls(s \o t)
         /\ Local(s) /\ Local(t) => Local(s \o t)
         /\ \A K : Only(K, s) /\ Only(K, t) => Only(K, s \o t)
  <1>1. /\ \A k \in 1 .. Len(s) : (s \o t)[k] = s[k]
        /\ \A k \in 1 .. Len(t) : (s \o t)[Len(s) + k] = t[k]
        /\ \A k \in 1 .. Len(s \o t) : k \in 1 .. Len(s) \/ \E j \in 1 .. Len(t) : k = Len(s) + j
    BY ConcatStep
  <1>2. ASSUME Opening(s), Opening(t) PROVE Opening(s \o t)
    BY <1>1, <1>2 DEF Opening
  <1>3. ASSUME NoCalls(s), NoCalls(t) PROVE NoCalls(s \o t)
    BY <1>1, <1>3 DEF NoCalls
  <1>4. ASSUME Local(s), Local(t) PROVE Local(s \o t)
    BY <1>1, <1>4 DEF Local
  <1>5. ASSUME NEW K, Only(K, s), Only(K, t) PROVE Only(K, s \o t)
    BY <1>1, <1>5 DEF Only
  <1> QED
    BY <1>2, <1>3, <1>4, <1>5

(* A sequence that closes nothing                                          *)
LEMMA OpeningCloses ==
  ASSUME NEW s, Opening(s)
  PROVE  Closes(s) = {} /\ \A h, k : k \in 1 .. Len(s) => ~Closed(h, s, k)
  <1>1. \A k \in 1 .. Len(s) : s[k].kind = "step" => ToSet(s[k].drop) = {}
    BY DEF Opening, ToSet
  <1>2. Closes(s) = {}
    BY <1>1, Zenon DEF Closes
  <1>3. ASSUME NEW h, NEW k \in 1 .. Len(s) PROVE ~Closed(h, s, k)
    <2>1. \A j \in 1 .. k - 1 : j \in 1 .. Len(s)
      OBVIOUS
    <2> QED
      BY <1>1, <2>1, Zenon DEF Closed
  <1> QED
    BY <1>2, <1>3

(* The second is supplied by what the first makes, if the first closes     *)
(* nothing that the second uses.                                           *)
LEMMA ConcatSupplied ==
  ASSUME NEW s \in Seq(Steps), NEW t \in Seq(Steps), NEW A,
         Supplied(A, s), Supplied(A \cup Makes(s), t), Closes(s) \cap Uses(t) = {}
  PROVE  Supplied(A, s \o t)
  <1>1. /\ \A k \in 1 .. Len(s) : (s \o t)[k] = s[k]
        /\ \A k \in 1 .. Len(t) : (s \o t)[Len(s) + k] = t[k]
        /\ \A k \in 1 .. Len(s \o t) : k \in 1 .. Len(s) \/ \E j \in 1 .. Len(t) : k = Len(s) + j
    BY ConcatStep
  <1>2. ASSUME NEW k \in 1 .. Len(s), NEW h \in (s \o t)[k].use
        PROVE  (h \in A \/ Made(h, s \o t, k)) /\ ~Closed(h, s \o t, k)
    <2>1. (h \in A \/ Made(h, s, k)) /\ ~Closed(h, s, k)
      BY <1>1 DEF Supplied
    <2> QED
      BY <2>1, ConcatBefore
  <1>3. ASSUME NEW k \in 1 .. Len(t), NEW h \in (s \o t)[Len(s) + k].use
        PROVE  (h \in A \/ Made(h, s \o t, Len(s) + k)) /\ ~Closed(h, s \o t, Len(s) + k)
    <2>1. h \in t[k].use
      BY <1>1, Zenon
    <2>2. (h \in A \cup Makes(s) \/ Made(h, t, k)) /\ ~Closed(h, t, k)
      BY <2>1 DEF Supplied
    <2>3. h \notin Closes(s)
      BY <2>1 DEF Uses
    <2>4. /\ Made(h, s \o t, Len(s) + k) <=> h \in Makes(s) \/ Made(h, t, k)
          /\ Closed(h, s \o t, Len(s) + k) <=> h \in Closes(s) \/ Closed(h, t, k)
      BY ConcatBefore, Zenon
    <2> QED
      BY <2>2, <2>3, <2>4
  <1> QED
    BY <1>1, <1>2, <1>3, Zenon DEF Supplied

(* Failures of calls of the second close what either has made or used.     *)
LEMMA ConcatNeat ==
  ASSUME NEW s \in Seq(Steps), NEW t \in Seq(Steps), NEW X,
         Neat(X, s), Neat(X \cup Uses(s) \cup Makes(s), t)
  PROVE  Neat(X, s \o t)
  <1>1. /\ \A k \in 1 .. Len(s) : (s \o t)[k] = s[k]
        /\ \A k \in 1 .. Len(t) : (s \o t)[Len(s) + k] = t[k]
        /\ \A k \in 1 .. Len(s \o t) : k \in 1 .. Len(s) \/ \E j \in 1 .. Len(t) : k = Len(s) + j
    BY ConcatStep
  <1> DEFINE Due(h, u, k) == h \in X \/ h \in u[k].use \/ Used(h, u, k) \/ Made(h, u, k)
  <1>2. ASSUME NEW k \in 1 .. Len(s), s[k].kind = "call"
        PROVE  IsInjective(s[k].drop) /\ \A h \in ToSet(s[k].drop) : Due(h, s \o t, k)
    <2>1. IsInjective(s[k].drop)
      BY <1>2 DEF Neat
    <2>2. ASSUME NEW h \in ToSet(s[k].drop) PROVE Due(h, s \o t, k)
      <3>1. Due(h, s, k)
        BY <1>2 DEF Neat
      <3>2. (Made(h, s \o t, k) <=> Made(h, s, k)) /\ (Used(h, s \o t, k) <=> Used(h, s, k))
        BY ConcatBefore
      <3> QED
        BY <1>1, <3>1, <3>2
    <2> QED
      BY <2>1, <2>2
  <1>3. ASSUME NEW k \in 1 .. Len(t), t[k].kind = "call"
        PROVE  IsInjective(t[k].drop) /\ \A h \in ToSet(t[k].drop) : Due(h, s \o t, Len(s) + k)
    <2>1. IsInjective(t[k].drop)
      BY <1>3 DEF Neat
    <2>2. ASSUME NEW h \in ToSet(t[k].drop) PROVE Due(h, s \o t, Len(s) + k)
      <3>1. h \in X \cup Uses(s) \cup Makes(s) \/ h \in t[k].use \/ Used(h, t, k) \/ Made(h, t, k)
        BY <1>3 DEF Neat
      <3>2. /\ Made(h, s \o t, Len(s) + k) <=> h \in Makes(s) \/ Made(h, t, k)
            /\ Used(h, s \o t, Len(s) + k) <=> h \in Uses(s) \/ Used(h, t, k)
        BY ConcatBefore, Zenon
      <3> QED
        BY <1>1, <3>1, <3>2
    <2> QED
      BY <2>1, <2>2
  <1>4. ASSUME NEW k \in 1 .. Len(s \o t), (s \o t)[k].kind = "call"
        PROVE  IsInjective((s \o t)[k].drop) /\ \A h \in ToSet((s \o t)[k].drop) : Due(h, s \o t, k)
    <2> HIDE DEF Due
    <2>1. CASE k \in 1 .. Len(s)
      BY <1>1, <1>2, <1>4, <2>1
    <2>2. ASSUME NEW j \in 1 .. Len(t), k = Len(s) + j
          PROVE  IsInjective((s \o t)[k].drop) /\ \A h \in ToSet((s \o t)[k].drop) : Due(h, s \o t, k)
      BY <1>1, <1>3, <1>4, <2>2
    <2> QED
      BY <1>1, <2>1, <2>2, Zenon
  <1> QED
    BY <1>4 DEF Neat

(* From more, as well                                                      *)
LEMMA Monotone ==
  ASSUME NEW s, NEW A, NEW B, A \subseteq B
  PROVE  (Supplied(A, s) => Supplied(B, s)) /\ (Neat(A, s) => Neat(B, s))
  BY DEF Supplied, Neat

(* An error path that closes only what its own sequence knows does so in   *)
(* any context.                                                            *)
LEMMA NeatAnywhere ==
  ASSUME NEW s, NEW X, Neat({}, s)
  PROVE  Neat(X, s)
  BY DEF Neat

(* The same of many sequences                                              *)
LEMMA FlattenPlain ==
  ASSUME NEW n \in Nat \ {0}, NEW ss \in [1 .. n -> Seq(Steps)]
  PROVE  /\ FlattenSeq(ss) \in Seq(Steps)
         /\ (\A m \in 1 .. n : Opening(ss[m])) => Opening(FlattenSeq(ss))
         /\ (\A m \in 1 .. n : NoCalls(ss[m])) => NoCalls(FlattenSeq(ss))
         /\ (\A m \in 1 .. n : Local(ss[m])) => Local(FlattenSeq(ss))
         /\ \A K : (\A m \in 1 .. n : Only(K, ss[m])) => Only(K, FlattenSeq(ss))
         /\ \A h : /\ h \in Makes(FlattenSeq(ss)) <=> \E m \in 1 .. n : h \in Makes(ss[m])
                   /\ h \in Uses(FlattenSeq(ss)) <=> \E m \in 1 .. n : h \in Uses(ss[m])
                   /\ h \in Closes(FlattenSeq(ss)) <=> \E m \in 1 .. n : h \in Closes(ss[m])
  <1> DEFINE f == FlattenSeq(ss)
             Opens == (1 .. n) \X {s \in Seq(Steps) : Opening(s)}
             Silent == (1 .. n) \X {s \in Seq(Steps) : NoCalls(s)}
             Locals == (1 .. n) \X {s \in Seq(Steps) : Local(s)}
  <1>0. \A m \in 1 .. n - 1 : m + 1 \in 1 .. n /\ ss[m + 1] \in Seq(Steps)
    OBVIOUS
  <1>1. ASSUME \A m \in 1 .. n : Opening(ss[m]) PROVE Opening(f)
    <2>1. <<1, ss[1]>> \in Opens
      BY <1>1
    <2>2. ASSUME NEW m \in 1 .. n - 1, NEW s \in Seq(Steps), <<m, s>> \in Opens
          PROVE  <<m + 1, s \o ss[m + 1]>> \in Opens
      BY <1>0, <1>1, <2>2, ConcatPlain, ConcatStep, Zenon
    <2>3. <<n, f>> \in Opens
      <3> HIDE DEF Opens
      <3> QED
        BY <2>1, <2>2, FlattenInduction, Zenon
    <2> QED
      BY <2>3
  <1>2. ASSUME \A m \in 1 .. n : NoCalls(ss[m]) PROVE NoCalls(f)
    <2>1. <<1, ss[1]>> \in Silent
      BY <1>2
    <2>2. ASSUME NEW m \in 1 .. n - 1, NEW s \in Seq(Steps), <<m, s>> \in Silent
          PROVE  <<m + 1, s \o ss[m + 1]>> \in Silent
      BY <1>0, <1>2, <2>2, ConcatPlain, ConcatStep, Zenon
    <2>3. <<n, f>> \in Silent
      <3> HIDE DEF Silent
      <3> QED
        BY <2>1, <2>2, FlattenInduction, Zenon
    <2> QED
      BY <2>3
  <1>3. f \in Seq(Steps)
    <2> DEFINE All == (1 .. n) \X Seq(Steps)
    <2>1. <<1, ss[1]>> \in All
      OBVIOUS
    <2>2. ASSUME NEW m \in 1 .. n - 1, NEW s \in Seq(Steps), <<m, s>> \in All
          PROVE  <<m + 1, s \o ss[m + 1]>> \in All
      BY <1>0, <2>2, ConcatStep, Zenon
    <2> HIDE DEF All
    <2> QED
      BY <2>1, <2>2, FlattenInduction, Zenon
  <1>4. ASSUME NEW h
        PROVE  /\ h \in Makes(f) <=> \E m \in 1 .. n : h \in Makes(ss[m])
               /\ h \in Uses(f) <=> \E m \in 1 .. n : h \in Uses(ss[m])
               /\ h \in Closes(f) <=> \E m \in 1 .. n : h \in Closes(ss[m])
    <2> DEFINE Exact(m, s) == /\ h \in Makes(s) <=> \E i \in 1 .. m : h \in Makes(ss[i])
                              /\ h \in Uses(s) <=> \E i \in 1 .. m : h \in Uses(ss[i])
                              /\ h \in Closes(s) <=> \E i \in 1 .. m : h \in Closes(ss[i])
               Right == {x \in (1 .. n) \X Seq(Steps) : Exact(x[1], x[2])}
    <2>1. <<1, ss[1]>> \in Right
      OBVIOUS
    <2>2. ASSUME NEW m \in 1 .. n - 1, NEW s \in Seq(Steps), <<m, s>> \in Right
          PROVE  <<m + 1, s \o ss[m + 1]>> \in Right
      <3> DEFINE t == ss[m + 1]
      <3>1. Exact(m, s)
        BY <2>2, Zenon
      <3>2. t \in Seq(Steps) /\ s \o t \in Seq(Steps)
        BY <1>0, ConcatStep
      <3>3. /\ h \in Makes(s \o t) <=> h \in Makes(s) \/ h \in Makes(t)
            /\ h \in Uses(s \o t) <=> h \in Uses(s) \/ h \in Uses(t)
            /\ h \in Closes(s \o t) <=> h \in Closes(s) \/ h \in Closes(t)
        BY <3>2, ConcatSets
      <3>4. 1 .. m + 1 = (1 .. m) \cup {m + 1}
        OBVIOUS
      <3>5. Exact(m + 1, s \o t)
        BY <3>1, <3>3, <3>4, Zenon
      <3> HIDE DEF Exact, t
      <3> QED
        BY <1>0, <3>2, <3>5, Zenon DEF t
    <2>3. <<n, f>> \in Right
      <3> HIDE DEF Right
      <3> QED
        BY <2>1, <2>2, FlattenInduction, Zenon
    <2> QED
      BY <2>3, Zenon
  <1>5. ASSUME \A m \in 1 .. n : Local(ss[m]) PROVE Local(f)
    <2>1. <<1, ss[1]>> \in Locals
      BY <1>5
    <2>2. ASSUME NEW m \in 1 .. n - 1, NEW s \in Seq(Steps), <<m, s>> \in Locals
          PROVE  <<m + 1, s \o ss[m + 1]>> \in Locals
      BY <1>0, <1>5, <2>2, ConcatPlain, ConcatStep, Zenon
    <2>3. <<n, f>> \in Locals
      <3> HIDE DEF Locals
      <3> QED
        BY <2>1, <2>2, FlattenInduction, Zenon
    <2> QED
      BY <2>3
  <1>6. ASSUME NEW K, \A m \in 1 .. n : Only(K, ss[m]) PROVE Only(K, f)
    <2> DEFINE Alike == (1 .. n) \X {s \in Seq(Steps) : Only(K, s)}
    <2>1. <<1, ss[1]>> \in Alike
      BY <1>6
    <2>2. ASSUME NEW m \in 1 .. n - 1, NEW s \in Seq(Steps), <<m, s>> \in Alike
          PROVE  <<m + 1, s \o ss[m + 1]>> \in Alike
      BY <1>0, <1>6, <2>2, ConcatPlain, ConcatStep, Zenon
    <2>3. <<n, f>> \in Alike
      <3> HIDE DEF Alike
      <3> QED
        BY <2>1, <2>2, FlattenInduction, Zenon
    <2> QED
      BY <2>3
  <1> QED
    BY <1>1, <1>2, <1>3, <1>4, <1>5, <1>6

(* Several sequences, each supplied from A alone, are supplied from A.     *)
LEMMA FlattenSupplied ==
  ASSUME NEW n \in Nat \ {0}, NEW ss \in [1 .. n -> Seq(Steps)], NEW A,
         \A m \in 1 .. n : Supplied(A, ss[m]),
         \A m \in 1 .. n : \A i \in 1 .. m - 1 : Closes(ss[i]) \cap Uses(ss[m]) = {}
  PROVE  Supplied(A, FlattenSeq(ss))
  <1> DEFINE Right == {x \in (1 .. n) \X Seq(Steps) :
                         /\ Supplied(A, x[2])
                         /\ \A h \in Closes(x[2]) : \E i \in 1 .. x[1] : h \in Closes(ss[i])}
  <1>1. <<1, ss[1]>> \in Right
    OBVIOUS
  <1>2. ASSUME NEW m \in 1 .. n - 1, NEW s \in Seq(Steps), <<m, s>> \in Right
        PROVE  <<m + 1, s \o ss[m + 1]>> \in Right
    <2> DEFINE t == ss[m + 1]
    <2>1. m + 1 \in 1 .. n /\ t \in Seq(Steps) /\ s \o t \in Seq(Steps)
      BY ConcatStep
    <2>2. Supplied(A, s) /\ \A h \in Closes(s) : \E i \in 1 .. m : h \in Closes(ss[i])
      BY <1>2
    <2>3. Closes(s) \cap Uses(t) = {}
      <3>1. \A i \in 1 .. m : Closes(ss[i]) \cap Uses(t) = {}
        <4>1. (m + 1) - 1 = m
          OBVIOUS
        <4> QED
          BY <2>1, <4>1
      <3> HIDE DEF t
      <3> QED
        BY <2>2, <3>1, Zenon
    <2>4. Supplied(A \cup Makes(s), t)
      BY <2>1, Monotone
    <2>5. Supplied(A, s \o t)
      BY <2>1, <2>2, <2>3, <2>4, ConcatSupplied
    <2>6. Closes(s \o t) = Closes(s) \cup Closes(t)
      BY <2>1, ConcatSets
    <2> HIDE DEF t
    <2>7. ASSUME NEW h \in Closes(s \o t) PROVE \E i \in 1 .. m + 1 : h \in Closes(ss[i])
      <3>1. CASE h \in Closes(s)
        <4>1. \A i \in 1 .. m : i \in 1 .. m + 1
          OBVIOUS
        <4> QED
          BY <2>2, <3>1, <4>1, Zenon
      <3>2. CASE h \in Closes(t)
        BY <3>2 DEF t
      <3> QED
        BY <2>6, <3>1, <3>2
    <2> QED
      BY <2>1, <2>5, <2>7, Zenon DEF t
  <1>3. <<n, FlattenSeq(ss)>> \in Right
    <2> HIDE DEF Right
    <2> QED
      BY <1>1, <1>2, FlattenInduction, Zenon
  <1> QED
    BY <1>3

(* Several sequences with error paths of their own                         *)
LEMMA FlattenNeat ==
  ASSUME NEW n \in Nat \ {0}, NEW ss \in [1 .. n -> Seq(Steps)], NEW X,
         \A m \in 1 .. n : Neat(X, ss[m])
  PROVE  Neat(X, FlattenSeq(ss))
  <1> DEFINE Right == (1 .. n) \X {s \in Seq(Steps) : Neat(X, s)}
  <1>1. <<1, ss[1]>> \in Right
    OBVIOUS
  <1>2. ASSUME NEW m \in 1 .. n - 1, NEW s \in Seq(Steps), <<m, s>> \in Right
        PROVE  <<m + 1, s \o ss[m + 1]>> \in Right
    <2>1. m + 1 \in 1 .. n /\ ss[m + 1] \in Seq(Steps) /\ s \o ss[m + 1] \in Seq(Steps)
      BY ConcatStep
    <2>2. Neat(X \cup Uses(s) \cup Makes(s), ss[m + 1])
      BY <2>1, Monotone, Zenon
    <2>3. Neat(X, s \o ss[m + 1])
      BY <1>2, <2>1, <2>2, ConcatNeat
    <2> QED
      BY <2>1, <2>3, Zenon
  <1>3. <<n, FlattenSeq(ss)>> \in Right
    <2> HIDE DEF Right
    <2> QED
      BY <1>1, <1>2, FlattenInduction, Zenon
  <1> QED
    BY <1>3

-----------------------------------------------------------------------------
(* The programs                                                            *)

(* The handles of a thread, or of a peer, are handles,                     *)
LEMMA HandleTypes ==
  ASSUME NEW t \in Nat
  PROVE  /\ ep(t) \in Handles /\ scq(t) \in Handles /\ rcq(t) \in Handles /\ tav(t) \in Handles
         /\ taddrs(t) \in Handles /\ s_buf(t) \in Handles /\ l_mr(t) \in Handles /\ r_mr(t) \in Handles
         /\ descs(t) \in Handles
  BY DEF Handles, ep, scq, rcq, tav, taddrs, s_buf, l_mr, r_mr, descs

(* those of the process are, too,                                          *)
LEMMA CommonHandles ==
  /\ fab \in Handles /\ dom \in Handles /\ av \in Handles /\ waitset \in Handles /\ scntr \in Handles
  /\ rcntr \in Handles /\ addrs \in Handles /\ table_mr \in Handles /\ lock_mr \in Handles
  /\ scratch_mr \in Handles /\ auth_mr \in Handles
  BY DEF Handles, fab, dom, av, waitset, scntr, rcntr, addrs, table_mr, lock_mr, scratch_mr, auth_mr

(* and these are memory that no program ever closes.                       *)
LEMMA KeptHandles ==
  ASSUME NEW t \in Nat
  PROVE  taddrs(t) \in Kept /\ s_buf(t) \in Kept /\ descs(t) \in Kept /\ addrs \in Kept /\ waitset \in Kept
  BY HandleTypes, CommonHandles DEF Kept, NeverClosed, taddrs, s_buf, descs, addrs, waitset

(* The handles of an endpoint are different ones.                          *)
LEMMA Distinct ==
  ASSUME NEW t
  PROVE  /\ ep(t) # scq(t) /\ ep(t) # rcq(t) /\ ep(t) # tav(t) /\ scq(t) # rcq(t) /\ scq(t) # tav(t)
         /\ rcq(t) # tav(t) /\ dom # ep(t) /\ dom # scq(t) /\ dom # rcq(t) /\ dom # tav(t)
         /\ fab # dom
  BY DEF ep, scq, rcq, tav, dom, fab

(* The tuples that error paths close                                       *)
LEMMA Tuple0 == ToSet(<<>>) = {} /\ IsInjective(<<>>)
  BY DEF ToSet, IsInjective
(* Tuples of handles that differ: their elements, each once                *)
LEMMA Tuple1 ==
  ASSUME NEW a
  PROVE  ToSet(<<a>>) = {a} /\ IsInjective(<<a>>)
  BY DEF ToSet, IsInjective
(* The same of two,                                                        *)
LEMMA Tuple2 ==
  ASSUME NEW a, NEW b, a # b
  PROVE  ToSet(<<a, b>>) = {a, b} /\ IsInjective(<<a, b>>)
  BY DEF ToSet, IsInjective
(* of three,                                                               *)
LEMMA Tuple3 ==
  ASSUME NEW a, NEW b, NEW c, a # b, a # c, b # c
  PROVE  ToSet(<<a, b, c>>) = {a, b, c} /\ IsInjective(<<a, b, c>>)
  BY DEF ToSet, IsInjective
(* and of four                                                             *)
LEMMA Tuple4 ==
  ASSUME NEW a, NEW b, NEW c, NEW d, a # b, a # c, b # c, a # d, b # d, c # d
  PROVE  ToSet(<<a, b, c, d>>) = {a, b, c, d} /\ IsInjective(<<a, b, c, d>>)
  BY DEF ToSet, IsInjective
(* A single step                                                           *)
LEMMA Single ==
  ASSUME NEW x \in Steps
  PROVE  /\ <<x>> \in Seq(Steps) /\ Len(<<x>>) = 1 /\ <<x>>[1] = x
         /\ Makes(<<x>>) = x.make /\ Uses(<<x>>) = x.use
         /\ (x.kind = "step" => x.drop = <<>>) => Opening(<<x>>)
         /\ x.name \notin {"drc_acquire", "drc_access", "drc_release"} => Local(<<x>>)
         /\ \A K : x.kind \in K => Only(K, <<x>>)
         /\ x.kind = "step" => Closes(<<x>>) = ToSet(x.drop)
         /\ x.kind # "step" => Closes(<<x>>) = {}
         /\ x.kind # "call" => NoCalls(<<x>>) /\ \A X : Neat(X, <<x>>) /\ Thorough(X, <<x>>)
         /\ \A A : x.use \subseteq A => Supplied(A, <<x>>)
         /\ \A X : /\ IsInjective(x.drop) /\ ToSet(x.drop) \subseteq X \cup x.use => Neat(X, <<x>>)
                  /\ X \subseteq Kept \cup ToSet(x.drop) => Thorough(X, <<x>>)
  <1> DEFINE s == <<x>>
  <1>1. s \in Seq(Steps) /\ Len(s) = 1 /\ s[1] = x
    OBVIOUS
  <1> HIDE DEF s
  <1>2. 1 .. Len(s) = {1} /\ \A k \in 1 .. Len(s) : s[k] = x /\ k = 1
    BY <1>1
  <1>3. Makes(s) = x.make /\ Uses(s) = x.use
    BY <1>2 DEF Makes, Uses
  <1>4. x.kind = "step" => Closes(s) = ToSet(x.drop)
    BY <1>2, Zenon DEF Closes
  <1>5. x.kind # "step" => Closes(s) = {}
    BY <1>2 DEF Closes
  <1>6. (x.kind = "step" => x.drop = <<>>) => Opening(s)
    BY <1>2 DEF Opening
  <1>7. x.kind # "call" => NoCalls(s) /\ \A X : Neat(X, s) /\ Thorough(X, s)
    BY <1>2 DEF NoCalls, Neat, Thorough
  <1>8. \A h : ~Made(h, s, 1) /\ ~Closed(h, s, 1)
    BY DEF Made, Closed
  <1>9. \A A : x.use \subseteq A => Supplied(A, s)
    BY <1>2, <1>8 DEF Supplied
  <1>10. ASSUME NEW X
         PROVE  /\ IsInjective(x.drop) /\ ToSet(x.drop) \subseteq X \cup x.use => Neat(X, s)
                /\ X \subseteq Kept \cup ToSet(x.drop) => Thorough(X, s)
    BY <1>2, <1>8 DEF Neat, Thorough
  <1>11. x.name \notin {"drc_acquire", "drc_access", "drc_release"} => Local(s)
    BY <1>2 DEF Local
  <1>12. \A K : x.kind \in K => Only(K, s)
    BY <1>2 DEF Only
  <1> QED
    BY <1>1, <1>3, <1>4, <1>5, <1>6, <1>7, <1>9, <1>10, <1>11, <1>12 DEF s

(* A barrier needs and changes nothing.                                    *)
LEMMA BarrierFacts ==
  /\ Barrier \in Steps /\ <<Barrier>> \in Seq(Steps) /\ Opening(<<Barrier>>) /\ NoCalls(<<Barrier>>)
  /\ Local(<<Barrier>>)
  /\ Makes(<<Barrier>>) = {} /\ Uses(<<Barrier>>) = {} /\ Closes(<<Barrier>>) = {}
  /\ \A A : Supplied(A, <<Barrier>>) /\ Neat(A, <<Barrier>>) /\ Thorough(A, <<Barrier>>)
  <1>1. <<>> \in Seq(Handles)
    OBVIOUS
  <1>2. Barrier \in Steps
    BY <1>1 DEF Barrier, Steps, Kinds, Names, Meeting
  <1>3. /\ Barrier.make = {} /\ Barrier.use = {} /\ Barrier.kind = "barrier"
        /\ Barrier.name = "ctpm_Barrier"
    BY DEF Barrier
  <1> QED
    BY <1>2, <1>3, Single, Zenon

(* init_fabric opens the fabric and the domain.                            *)
LEMMA FabricFacts ==
  /\ Fabric \in Seq(Steps) /\ Opening(Fabric) /\ Local(Fabric) /\ Only({"call"}, Fabric)
  /\ Makes(Fabric) = {fab, dom}
  /\ Supplied({}, Fabric) /\ Neat({}, Fabric) /\ Thorough({}, Fabric)
  <1>1. fab \in Handles /\ dom \in Handles
    BY CommonHandles
  <1>2. Fabric \in Seq(Steps)
    BY <1>1 DEF Fabric, Call, Steps, Kinds, Names
  <1>3. Opening(Fabric)
    BY DEF Opening, Fabric, Call
  <1>4. Makes(Fabric) = {fab, dom}
    BY DEF Makes, Fabric, Call
  <1>5. Supplied({}, Fabric)
    BY DEF Supplied, Fabric, Call, Made, Closed
  <1>6. Neat({}, Fabric)
    BY DEF Neat, Fabric, Call, Made, Used, IsInjective, ToSet
  <1>7. Thorough({}, Fabric)
    BY DEF Thorough, Fabric, Call, Made, ToSet
  <1>8. Local(Fabric) /\ Only({"call"}, Fabric)
    BY DEF Local, Only, Fabric, Call
  <1> QED
    BY <1>2, <1>3, <1>4, <1>5, <1>6, <1>7, <1>8

(* The endpoint for a peer, in random_access and auth_key_test             *)
LEMMA PeerEndpointFacts ==
  ASSUME NEW t \in Nat
  PROVE  /\ PeerEndpoint(t) \in Seq(Steps) /\ Opening(PeerEndpoint(t)) /\ Local(PeerEndpoint(t))
         /\ Only({"call"}, PeerEndpoint(t))
         /\ Makes(PeerEndpoint(t)) = {ep(t), scq(t), rcq(t)}
         /\ Supplied({dom, av}, PeerEndpoint(t)) /\ Neat({}, PeerEndpoint(t))
  <1>1. ep(t) \in Handles /\ scq(t) \in Handles /\ rcq(t) \in Handles /\ dom \in Handles /\ av \in Handles
    BY HandleTypes, CommonHandles
  <1>2. PeerEndpoint(t) \in Seq(Steps)
    BY <1>1 DEF PeerEndpoint, Call, Steps, Kinds, Names
  <1>3. Opening(PeerEndpoint(t))
    BY DEF Opening, PeerEndpoint, Call
  <1>4. Makes(PeerEndpoint(t)) = {ep(t), scq(t), rcq(t)}
    BY DEF Makes, PeerEndpoint, Call
  <1>5. Supplied({dom, av}, PeerEndpoint(t))
    BY DEF Supplied, PeerEndpoint, Call, Made, Closed
  <1>6. Neat({}, PeerEndpoint(t))
    <2> DEFINE s == PeerEndpoint(t)
    <2>1. /\ Len(s) = 4
          /\ s[1].drop = <<>> /\ s[2].drop = <<ep(t)>> /\ s[3].drop = <<scq(t), ep(t)>>
          /\ s[4].drop = <<rcq(t), scq(t), ep(t)>>
          /\ s[1].make = {ep(t)} /\ s[2].make = {scq(t)} /\ s[3].make = {rcq(t)}
      BY DEF PeerEndpoint, Call
    <2>2. IsInjective(s[1].drop) /\ IsInjective(s[2].drop) /\ IsInjective(s[3].drop) /\ IsInjective(s[4].drop)
      BY <2>1, Distinct, Tuple0, Tuple1, Tuple2, Tuple3
    <2>3. /\ ToSet(s[1].drop) = {} /\ ToSet(s[2].drop) = {ep(t)} /\ ToSet(s[3].drop) = {scq(t), ep(t)}
          /\ ToSet(s[4].drop) = {rcq(t), scq(t), ep(t)}
      BY <2>1, Distinct, Tuple0, Tuple1, Tuple2, Tuple3
    <2> HIDE DEF s
    <2>4. \A k \in 1 .. 4 : \A h \in ToSet(s[k].drop) : Made(h, s, k)
      BY <2>1, <2>3 DEF Made
    <2> QED
      BY <2>1, <2>2, <2>4 DEF Neat, s
  <1>7. Local(PeerEndpoint(t)) /\ Only({"call"}, PeerEndpoint(t))
    BY DEF Local, Only, PeerEndpoint, Call
  <1> QED
    BY <1>2, <1>3, <1>4, <1>5, <1>6, <1>7
(* Two sequences of different things, one after the other                  *)
LEMMA ConcatDrops ==
  ASSUME NEW d \in Seq(Handles), NEW e \in Seq(Handles)
  PROVE  /\ d \o e \in Seq(Handles)
         /\ ToSet(d \o e) = ToSet(d) \cup ToSet(e)
         /\ IsInjective(d) /\ IsInjective(e) /\ ToSet(d) \cap ToSet(e) = {} => IsInjective(d \o e)
  <1> DEFINE u == d \o e
  <1>1. /\ u \in Seq(Handles) /\ Len(u) = Len(d) + Len(e) /\ Len(d) \in Nat /\ Len(e) \in Nat
        /\ \A i \in 1 .. Len(d) + Len(e) : u[i] = IF i <= Len(d) THEN d[i] ELSE e[i - Len(d)]
    BY ConcatProperties
  <1>2. DOMAIN u = 1 .. Len(u) /\ DOMAIN d = 1 .. Len(d) /\ DOMAIN e = 1 .. Len(e)
    BY <1>1
  <1> HIDE DEF u
  <1>3. \A i \in 1 .. Len(d) : i \in 1 .. Len(u) /\ u[i] = d[i]
    BY <1>1
  <1>4. ASSUME NEW i \in 1 .. Len(e) PROVE Len(d) + i \in 1 .. Len(u) /\ u[Len(d) + i] = e[i]
    <2>1. Len(d) + i \in 1 .. Len(d) + Len(e) /\ ~(Len(d) + i <= Len(d)) /\ (Len(d) + i) - Len(d) = i
      BY <1>1
    <2> QED
      BY <1>1, <2>1
  <1>5. \A i \in 1 .. Len(u) :
          \/ i \in 1 .. Len(d)
          \/ i - Len(d) \in 1 .. Len(e) /\ i = Len(d) + (i - Len(d))
    BY <1>1
  <1>6. ASSUME NEW h PROVE h \in ToSet(u) <=> h \in ToSet(d) \/ h \in ToSet(e)
    <2>1. /\ h \in ToSet(u) <=> \E i \in 1 .. Len(u) : u[i] = h
          /\ h \in ToSet(d) <=> \E i \in 1 .. Len(d) : d[i] = h
          /\ h \in ToSet(e) <=> \E i \in 1 .. Len(e) : e[i] = h
      BY <1>2, Zenon DEF ToSet
    <2>2. ASSUME NEW i \in 1 .. Len(u), u[i] = h
          PROVE  (\E j \in 1 .. Len(d) : d[j] = h) \/ (\E j \in 1 .. Len(e) : e[j] = h)
      <3>1. CASE i \in 1 .. Len(d)
        BY <1>3, <2>2, <3>1
      <3>2. CASE i - Len(d) \in 1 .. Len(e) /\ i = Len(d) + (i - Len(d))
        <4>1. u[i] = e[i - Len(d)]
          BY <1>4, <3>2
        <4> QED
          BY <2>2, <3>2, <4>1
      <3> QED
        BY <1>5, <3>1, <3>2
    <2> QED
      BY <1>3, <1>4, <2>1, <2>2, Zenon
  <1>7. ASSUME IsInjective(d), IsInjective(e), ToSet(d) \cap ToSet(e) = {} PROVE IsInjective(u)
    <2> SUFFICES ASSUME NEW i \in 1 .. Len(u), NEW j \in 1 .. Len(u), u[i] = u[j] PROVE i = j
      BY <1>2 DEF IsInjective
    <2>1. \A a \in 1 .. Len(d), b \in 1 .. Len(e) : d[a] # e[b]
      BY <1>2, <1>7, Zenon DEF ToSet
    <2>2. \A a, b \in 1 .. Len(d) : d[a] = d[b] => a = b
      BY <1>2, <1>7, Zenon DEF IsInjective
    <2>3. \A a, b \in 1 .. Len(e) : e[a] = e[b] => a = b
      BY <1>2, <1>7 DEF IsInjective
    <2>4. \A k \in 1 .. Len(u) :
            \/ k \in 1 .. Len(d) /\ u[k] = d[k]
            \/ k - Len(d) \in 1 .. Len(e) /\ u[k] = e[k - Len(d)]
      <3> SUFFICES ASSUME NEW k \in 1 .. Len(u), k \notin 1 .. Len(d)
                   PROVE  k - Len(d) \in 1 .. Len(e) /\ u[k] = e[k - Len(d)]
        BY <1>3
      <3>1. k - Len(d) \in 1 .. Len(e) /\ k = Len(d) + (k - Len(d))
        BY <1>5
      <3> QED
        BY <1>4, <3>1
    <2>5. CASE i \in 1 .. Len(d) /\ u[i] = d[i]
      BY <2>1, <2>2, <2>4, <2>5, Zenon
    <2>6. CASE i - Len(d) \in 1 .. Len(e) /\ u[i] = e[i - Len(d)]
      <3>1. j - Len(d) \in 1 .. Len(e) /\ u[j] = e[j - Len(d)]
        BY <2>1, <2>4, <2>6, Zenon
      <3>2. i - Len(d) = j - Len(d)
        BY <2>3, <2>6, <3>1, Zenon
      <3> QED
        BY <1>1, <3>2
    <2> QED
      BY <2>4, <2>5, <2>6
  <1> QED
    BY <1>1, <1>6, <1>7 DEF u

(* Unwinding changes what calls close if they fail, and nothing else.      *)
LEMMA UnwindingSteps ==
  ASSUME NEW s \in Seq(Steps), NEW more \in Seq(Handles)
  PROVE  LET u == Unwinding(s, more)
         IN  /\ u \in Seq(Steps) /\ Len(u) = Len(s)
             /\ \A k \in 1 .. Len(s) :
                  /\ u[k].kind = s[k].kind /\ u[k].name = s[k].name
                  /\ u[k].use = s[k].use /\ u[k].make = s[k].make
                  /\ s[k].kind = "call" => u[k].drop = s[k].drop \o more
                  /\ s[k].kind # "call" => u[k].drop = s[k].drop
  <1> DEFINE u == Unwinding(s, more)
             All == [kind : Kinds, name : Names, use : SUBSET Handles, make : SUBSET Handles,
                     drop : Seq(Handles)]
  <1>1. u = [k \in 1 .. Len(s) |-> IF s[k].kind = "call" THEN [s[k] EXCEPT !.drop = @ \o more] ELSE s[k]]
    BY DEF Unwinding
  <1>2. ASSUME NEW k \in 1 .. Len(s)
        PROVE  /\ u[k] \in Steps
               /\ u[k].kind = s[k].kind /\ u[k].name = s[k].name
               /\ u[k].use = s[k].use /\ u[k].make = s[k].make
               /\ s[k].kind = "call" => u[k].drop = s[k].drop \o more
               /\ s[k].kind # "call" => u[k].drop = s[k].drop
    <2> DEFINE x == s[k]
               y == u[k]
    <2>1. x \in Steps
      OBVIOUS
    <2>2. x \in All
      BY <2>1 DEF Steps
    <2>3. y = IF x.kind = "call" THEN [x EXCEPT !.drop = @ \o more] ELSE x
      BY <1>1
    <2> DEFINE d == x.drop \o more
    <2>4. d \in Seq(Handles)
      <3>1. x.drop \in Seq(Handles)
        BY <2>2
      <3> QED
        BY <3>1, ConcatDrops
    <2> HIDE DEF x, y, u, d
    <2>5. CASE x.kind = "call"
      <3>1. y = [x EXCEPT !.drop = d]
        BY <2>3, <2>5 DEF d
      <3>2. /\ y \in All /\ y.kind = x.kind /\ y.name = x.name /\ y.use = x.use /\ y.make = x.make
            /\ y.drop = d
        BY <2>2, <2>4, <3>1, Zenon
      <3>3. y \in Steps
        BY <2>5, <3>2 DEF Steps
      <3> QED
        BY <2>5, <3>2, <3>3 DEF x, y, d
    <2>6. CASE x.kind # "call"
      BY <2>1, <2>3, <2>6 DEF x, y
    <2> QED
      BY <2>5, <2>6
  <1>3. u = [k \in 1 .. Len(s) |-> u[k]]
    BY <1>1
  <1> HIDE DEF u
  <1>4. Len(s) \in Nat
    OBVIOUS
  <1>5. u \in [1 .. Len(s) -> Steps]
    BY <1>2, <1>3
  <1>6. u \in Seq(Steps) /\ Len(u) = Len(s)
    BY <1>4, <1>5
  <1> QED
    BY <1>2, <1>6 DEF u

(* The labels of the callers keep error paths in order if they close what  *)
(* was open before.                                                        *)
LEMMA UnwindingFacts ==
  ASSUME NEW s \in Seq(Steps), NEW more \in Seq(Handles), NEW X
  PROVE  LET u == Unwinding(s, more)
         IN  /\ u \in Seq(Steps) /\ Makes(u) = Makes(s) /\ Uses(u) = Uses(s)
             /\ Opening(s) => Opening(u)
             /\ Local(s) => Local(u)
             /\ Opening(s) /\ Supplied(X, s) => Supplied(X, u)
             /\ /\ Neat(X, s) /\ IsInjective(more)
                /\ \A k \in 1 .. Len(s) : ToSet(s[k].drop) \cap ToSet(more) = {}
                /\ ToSet(more) \subseteq X \cup s[1].use
                => Neat(X, u)
             /\ Thorough({}, s) /\ X \subseteq Kept \cup ToSet(more) => Thorough(X, u)
  <1> DEFINE u == Unwinding(s, more)
  <1>1. /\ u \in Seq(Steps) /\ Len(u) = Len(s)
        /\ \A k \in 1 .. Len(s) :
             /\ u[k].kind = s[k].kind /\ u[k].use = s[k].use /\ u[k].make = s[k].make
             /\ s[k].kind = "call" => u[k].drop = s[k].drop \o more
             /\ s[k].kind # "call" => u[k].drop = s[k].drop
    BY UnwindingSteps
  <1>10. \A k \in 1 .. Len(s) : u[k].name = s[k].name
    BY UnwindingSteps
  <1>2. ASSUME NEW k \in 1 .. Len(s), s[k].kind = "call"
        PROVE  /\ ToSet(u[k].drop) = ToSet(s[k].drop) \cup ToSet(more)
               /\ IsInjective(s[k].drop) /\ IsInjective(more) /\ ToSet(s[k].drop) \cap ToSet(more) = {}
                    => IsInjective(u[k].drop)
    <2>1. s[k] \in Steps
      OBVIOUS
    <2>2. s[k].drop \in Seq(Handles)
      BY <2>1 DEF Steps
    <2> QED
      BY <1>1, <1>2, <2>2, ConcatDrops, Zenon
  <1> HIDE DEF u
  <1>3. \A h, k : k \in 1 .. Len(s) => (Made(h, u, k) <=> Made(h, s, k)) /\ (Used(h, u, k) <=> Used(h, s, k))
    <2> SUFFICES ASSUME NEW h, NEW k \in 1 .. Len(s)
                 PROVE  (Made(h, u, k) <=> Made(h, s, k)) /\ (Used(h, u, k) <=> Used(h, s, k))
      OBVIOUS
    <2>1. \A j \in 1 .. k - 1 : u[j].make = s[j].make /\ u[j].use = s[j].use
      BY <1>1
    <2> QED
      BY <2>1, Zenon DEF Made, Used
  <1>4. Makes(u) = Makes(s)
    BY <1>1, Zenon DEF Makes
  <1>5. Uses(u) = Uses(s)
    BY <1>1, Zenon DEF Uses
  <1>6. Opening(s) => Opening(u)
    BY <1>1 DEF Opening
  <1>7. ASSUME Opening(s), Supplied(X, s) PROVE Supplied(X, u)
    BY <1>1, <1>3, <1>6, <1>7, OpeningCloses, Zenon DEF Supplied
  <1>8. ASSUME Neat(X, s), IsInjective(more), ToSet(more) \subseteq X \cup s[1].use,
               \A k \in 1 .. Len(s) : ToSet(s[k].drop) \cap ToSet(more) = {}
        PROVE  Neat(X, u)
    <2> SUFFICES ASSUME NEW k \in 1 .. Len(s), s[k].kind = "call"
                 PROVE  /\ IsInjective(u[k].drop)
                        /\ \A h \in ToSet(u[k].drop) :
                             h \in X \/ h \in u[k].use \/ Used(h, u, k) \/ Made(h, u, k)
      BY <1>1 DEF Neat
    <2>1. /\ IsInjective(s[k].drop)
          /\ \A h \in ToSet(s[k].drop) : h \in X \/ h \in s[k].use \/ Used(h, s, k) \/ Made(h, s, k)
      BY <1>8 DEF Neat
    <2>2. IsInjective(u[k].drop)
      BY <1>2, <1>8, <2>1
    <2>3. ASSUME NEW h \in s[1].use PROVE h \in s[k].use \/ Used(h, s, k)
      <3>1. k = 1 \/ 1 \in 1 .. k - 1
        OBVIOUS
      <3> QED
        BY <3>1 DEF Used
    <2>4. ASSUME NEW h \in ToSet(u[k].drop)
          PROVE  h \in X \/ h \in s[k].use \/ Used(h, s, k) \/ Made(h, s, k)
      BY <1>2, <1>8, <2>1, <2>3
    <2> QED
      BY <1>1, <1>3, <2>2, <2>4, Zenon
  <1>9. ASSUME Thorough({}, s), X \subseteq Kept \cup ToSet(more) PROVE Thorough(X, u)
    <2> SUFFICES ASSUME NEW k \in 1 .. Len(s), s[k].kind = "call", NEW h, h \in X \/ Made(h, s, k)
                 PROVE  h \in Kept \/ h \in ToSet(u[k].drop)
      BY <1>1, <1>3, Zenon DEF Thorough
    <2> QED
      BY <1>2, <1>9, Zenon DEF Thorough
  <1>11. Local(s) => Local(u)
    BY <1>1, <1>10 DEF Local
  <1> QED
    BY <1>1, <1>4, <1>5, <1>6, <1>7, <1>8, <1>9, <1>11 DEF u

-----------------------------------------------------------------------------
(* What can be said of a program                                           *)

(* Nothing is called after something has been closed.                      *)
Ordered(s) ==
  \A k \in 1 .. Len(s) : s[k].kind = "call" =>
    \A j \in 1 .. k - 1 : s[j].kind = "step" => s[j].drop = <<>>

(* What is made is closed later on, unless it is never closed.             *)
EndsClosed(s) ==
  \A k \in 1 .. Len(s) : \A h \in s[k].make :
    h \in Kept \/ \E j \in k + 1 .. Len(s) : s[j].kind = "step" /\ h \in ToSet(s[j].drop)

Parts == [on_error : {"leave", "abort", "next"}, steps : Seq(Steps)]

(* What is made by the parts before                                        *)
Before(P, i) == UNION {Makes(P[j].steps) : j \in 1 .. i - 1}

WellMade(P) ==
  /\ P \in Seq(Parts) /\ Len(P) > 0
  /\ \A i \in 1 .. Len(P) :
       Len(P[i].steps) > 0 /\ Ordered(P[i].steps) /\ Supplied(Before(P, i), P[i].steps)
  /\ \A i \in 1 .. Len(P) - 1 :
       Opening(P[i].steps) /\ Makes(P[i].steps) \subseteq Kept \cup Closes(P[Len(P)].steps)
  /\ EndsClosed(P[Len(P)].steps)

(* Sequences that close nothing, or call nothing, or make nothing          *)
LEMMA OrderedFacts ==
  ASSUME NEW s
  PROVE  /\ Opening(s) => Ordered(s)
         /\ NoCalls(s) => Ordered(s)
         /\ Makes(s) = {} => EndsClosed(s)
  <1>1. ASSUME Opening(s) PROVE Ordered(s)
    <2> SUFFICES ASSUME NEW k \in 1 .. Len(s), NEW j \in 1 .. k - 1, s[j].kind = "step"
                 PROVE  s[j].drop = <<>>
      BY DEF Ordered
    <2>1. j \in 1 .. Len(s)
      OBVIOUS
    <2> QED
      BY <1>1, <2>1 DEF Opening
  <1>2. NoCalls(s) => Ordered(s)
    BY DEF NoCalls, Ordered
  <1>3. Makes(s) = {} => EndsClosed(s)
    BY DEF Makes, EndsClosed
  <1> QED
    BY <1>1, <1>2, <1>3

(* Setting up first and closing last keeps the order, and the end closed.  *)
LEMMA ConcatOrdered ==
  ASSUME NEW s \in Seq(Steps), NEW t \in Seq(Steps)
  PROVE  /\ Ordered(s) /\ NoCalls(t) => Ordered(s \o t)
         /\ EndsClosed(s) /\ Makes(t) = {} => EndsClosed(s \o t)
         /\ Makes(s) \subseteq Kept \cup Closes(t) /\ Makes(t) = {} => EndsClosed(s \o t)
         /\ Opening(s) /\ Ordered(t) => Ordered(s \o t)
         /\ Makes(s) = {} /\ EndsClosed(t) => EndsClosed(s \o t)
  <1> DEFINE u == s \o t
  <1>1. /\ Len(u) = Len(s) + Len(t) /\ Len(s) \in Nat /\ Len(t) \in Nat
        /\ \A k \in 1 .. Len(s) : u[k] = s[k]
        /\ \A k \in 1 .. Len(t) : u[Len(s) + k] = t[k]
        /\ \A k \in 1 .. Len(u) : k \in 1 .. Len(s) \/ \E j \in 1 .. Len(t) : k = Len(s) + j
    BY ConcatStep
  <1> HIDE DEF u
  <1>2. ASSUME Ordered(s), NoCalls(t) PROVE Ordered(u)
    <2> SUFFICES ASSUME NEW k \in 1 .. Len(u), u[k].kind = "call", NEW j \in 1 .. k - 1, u[j].kind = "step"
                 PROVE  u[j].drop = <<>>
      BY DEF Ordered
    <2>1. k \in 1 .. Len(s)
      BY <1>1, <1>2, Zenon DEF NoCalls
    <2>2. j \in 1 .. Len(s)
      BY <1>1, <2>1
    <2> QED
      BY <1>1, <1>2, <2>1, <2>2, Zenon DEF Ordered
  <1>3. ASSUME Makes(t) = {}, NEW k \in 1 .. Len(u), NEW h \in u[k].make
        PROVE  k \in 1 .. Len(s) /\ h \in s[k].make
    <2>1. \A j \in 1 .. Len(t) : t[j].make = {}
      BY <1>3 DEF Makes
    <2> QED
      BY <1>1, <1>3, <2>1, Zenon
  <1>4. ASSUME EndsClosed(s), Makes(t) = {} PROVE EndsClosed(u)
    <2> SUFFICES ASSUME NEW k \in 1 .. Len(u), NEW h \in u[k].make, h \notin Kept
                 PROVE  \E j \in k + 1 .. Len(u) : u[j].kind = "step" /\ h \in ToSet(u[j].drop)
      BY DEF EndsClosed
    <2>1. k \in 1 .. Len(s) /\ h \in s[k].make
      BY <1>3, <1>4
    <2>2. PICK j \in k + 1 .. Len(s) : s[j].kind = "step" /\ h \in ToSet(s[j].drop)
      BY <1>4, <2>1 DEF EndsClosed
    <2>3. j \in 1 .. Len(s) /\ j \in k + 1 .. Len(u)
      BY <1>1, <2>1
    <2> QED
      BY <1>1, <2>2, <2>3
  <1>5. ASSUME Makes(s) \subseteq Kept \cup Closes(t), Makes(t) = {} PROVE EndsClosed(u)
    <2> SUFFICES ASSUME NEW k \in 1 .. Len(u), NEW h \in u[k].make, h \notin Kept
                 PROVE  \E j \in k + 1 .. Len(u) : u[j].kind = "step" /\ h \in ToSet(u[j].drop)
      BY DEF EndsClosed
    <2>1. k \in 1 .. Len(s) /\ h \in s[k].make
      BY <1>3, <1>5
    <2>2. h \in Makes(s)
      BY <2>1 DEF Makes
    <2>3. h \in Closes(t)
      BY <1>5, <2>2
    <2>4. PICK j \in 1 .. Len(t) : t[j].kind = "step" /\ h \in ToSet(t[j].drop)
      BY <2>3 DEF Closes
    <2>5. Len(s) + j \in k + 1 .. Len(u)
      BY <1>1, <2>1
    <2>6. u[Len(s) + j] = t[j]
      BY <1>1
    <2> QED
      BY <2>4, <2>5, <2>6
  <1>6. ASSUME Opening(s), Ordered(t) PROVE Ordered(u)
    <2> SUFFICES ASSUME NEW k \in 1 .. Len(u), u[k].kind = "call", NEW j \in 1 .. k - 1, u[j].kind = "step"
                 PROVE  u[j].drop = <<>>
      BY DEF Ordered
    <2>1. CASE j \in 1 .. Len(s)
      BY <1>1, <1>6, <2>1 DEF Opening
    <2>2. CASE j \notin 1 .. Len(s)
      <3>1. j \in 1 .. Len(u) /\ k \notin 1 .. Len(s)
        BY <1>1, <2>2
      <3>2. PICK a \in 1 .. Len(t) : j = Len(s) + a
        BY <1>1, <2>2, <3>1
      <3>3. PICK b \in 1 .. Len(t) : k = Len(s) + b
        BY <1>1, <3>1
      <3>4. a \in 1 .. b - 1
        BY <1>1, <3>2, <3>3
      <3>5. u[j] = t[a] /\ u[k] = t[b]
        BY <1>1, <3>2, <3>3
      <3> QED
        BY <1>6, <3>4, <3>5 DEF Ordered
    <2> QED
      BY <2>1, <2>2
  <1>7. ASSUME Makes(s) = {}, EndsClosed(t) PROVE EndsClosed(u)
    <2> SUFFICES ASSUME NEW k \in 1 .. Len(u), NEW h \in u[k].make, h \notin Kept
                 PROVE  \E j \in k + 1 .. Len(u) : u[j].kind = "step" /\ h \in ToSet(u[j].drop)
      BY DEF EndsClosed
    <2>1. k \notin 1 .. Len(s)
      BY <1>1, <1>7 DEF Makes
    <2>2. PICK b \in 1 .. Len(t) : k = Len(s) + b
      BY <1>1, <2>1
    <2>3. u[k] = t[b]
      BY <1>1, <2>2
    <2>4. PICK j \in b + 1 .. Len(t) : t[j].kind = "step" /\ h \in ToSet(t[j].drop)
      BY <1>7, <2>3 DEF EndsClosed
    <2>5. j \in 1 .. Len(t) /\ Len(s) + j \in k + 1 .. Len(u)
      BY <1>1, <2>2
    <2>6. u[Len(s) + j] = t[j]
      BY <1>1, <2>5
    <2> QED
      BY <2>4, <2>5, <2>6
  <1> QED
    BY <1>2, <1>4, <1>5, <1>6, <1>7 DEF u

-----------------------------------------------------------------------------
(* What the proofs of the steps need to know of a program                  *)

(* The steps whose error paths close queues that are not there             *)
Careful(p, x) == p = "rdm_mbw_mr_cntr" => x.name \notin {"fi_cntr_open 2", "fi_av_open"}

ClosesItsOwn(s, k) ==
  /\ IsInjective(s[k].drop)
  /\ \A h \in ToSet(s[k].drop) : h \in s[k].use \/ Used(h, s, k) \/ Made(h, s, k)

FirstThorough(p, s) ==
  \A k \in 1 .. Len(s) : s[k].kind = "call" =>
    IF Careful(p, s[k])
      THEN \A h : Made(h, s, k) => h \in Kept \/ h \in ToSet(s[k].drop)
      ELSE \E h \in ToSet(s[k].drop) : h \notin Kept /\ ~Made(h, s, k)

Sound(p, P) ==
  /\ WellMade(P)
  /\ \A i \in 1 .. Len(P) : \A k \in 1 .. Len(P[i].steps) :
       P[i].steps[k].kind = "call" /\ Careful(p, P[i].steps[k]) => ClosesItsOwn(P[i].steps, k)
  /\ P[1].on_error = "leave" => FirstThorough(p, P[1].steps)
  /\ \A i \in 1 .. Len(P) : P[i].on_error = "next" =>
       /\ i # Len(P) /\ p \notin {"rdm_mbw_mr", "rdm_mbw_mr_cntr"}
       /\ \A k \in 1 .. Len(P[i].steps) : P[i].steps[k].name # "drc_access"
  /\ p # "auth_key_test" => auth_mr \notin Closes(P[Len(P)].steps)

(* What Neat means for a part that starts with nothing                     *)
LEMMA NeatFacts ==
  ASSUME NEW s, Neat({}, s)
  PROVE  \A k \in 1 .. Len(s) : s[k].kind = "call" => ClosesItsOwn(s, k)
  BY DEF Neat, ClosesItsOwn
-----------------------------------------------------------------------------
(* rdm_one_sided and rdm_pingpong                                          *)

(* init_av makes the addresses of the peers, of a vector and an endpoint.  *)
LEMMA InitAvFacts ==
  ASSUME NEW label \in Names \ {"drc_acquire", "drc_access", "drc_release"}, NEW endp \in Handles, NEW vector \in Handles, NEW dest \in Handles
  PROVE  /\ InitAv(label, endp, vector, dest) \in Seq(Steps)
         /\ Opening(InitAv(label, endp, vector, dest)) /\ Local(InitAv(label, endp, vector, dest))
         /\ \A h : h \in Makes(InitAv(label, endp, vector, dest)) <=> h = dest
         /\ Supplied({endp, vector}, InitAv(label, endp, vector, dest))
         /\ Neat({}, InitAv(label, endp, vector, dest))
  <1> DEFINE s == InitAv(label, endp, vector, dest)
  <1>1. s \in Seq(Steps)
    <2>1. <<>> \in Seq(Handles)
      OBVIOUS
    <2>2. Call("fi_getname", {endp}, {}, <<>>) \in Steps /\ Call("fi_av_insert", {vector}, {dest}, <<>>) \in Steps
      BY <2>1, Zenon DEF Call, Steps, Kinds, Names
    <2>3. Gather(label, {}, {}) \in Steps
      BY <2>1 DEF Gather, Steps, Kinds, Meeting
    <2> QED
      BY <2>2, <2>3 DEF InitAv
  <1>2. Opening(s)
    BY DEF Opening, InitAv, Call, Gather
  <1>3. Makes(s) = {dest}
    BY DEF Makes, InitAv, Call, Gather
  <1>4. Supplied({endp, vector}, s)
    BY DEF Supplied, InitAv, Call, Gather, Made, Closed
  <1>5. Neat({}, s)
    <2>1. \A k \in 1 .. Len(s) : s[k].drop = <<>>
      BY DEF InitAv, Call, Gather
    <2> HIDE DEF s
    <2> QED
      BY <2>1, Tuple0 DEF Neat
  <1>6. Local(s)
    BY DEF Local, InitAv, Call, Gather
  <1> QED
    BY <1>1, <1>2, <1>3, <1>4, <1>5, <1>6

(* init_endpoint of a thread makes an endpoint, two queues and a vector.   *)
LEMMA ThreadEndpointFacts ==
  ASSUME NEW t \in Nat
  PROVE  /\ ThreadEndpoint(t) \in Seq(Steps) /\ Opening(ThreadEndpoint(t)) /\ Local(ThreadEndpoint(t))
         /\ Makes(ThreadEndpoint(t)) = {ep(t), scq(t), rcq(t), tav(t)}
         /\ Supplied({dom}, ThreadEndpoint(t)) /\ Neat({}, ThreadEndpoint(t))
  <1> DEFINE s == << Call("fi_endpoint", {dom}, {ep(t)}, <<>>),
                     Call("fi_cq_open", {dom}, {scq(t)}, <<ep(t)>>),
                     Call("fi_cq_open", {dom}, {rcq(t)}, <<scq(t), ep(t)>>),
                     Call("fi_av_open", {dom}, {tav(t)}, <<rcq(t), scq(t), ep(t)>>),
                     Call("fi_ep_bind", {ep(t), scq(t), rcq(t), tav(t)}, {},
                          <<tav(t), rcq(t), scq(t), ep(t)>>) >>
  <1>0. ThreadEndpoint(t) = Unwinding(s, <<dom>>)
    BY DEF ThreadEndpoint
  <1>1. ep(t) \in Handles /\ scq(t) \in Handles /\ rcq(t) \in Handles /\ tav(t) \in Handles
        /\ dom \in Handles
    BY HandleTypes, CommonHandles
  <1>2. s \in Seq(Steps)
    BY <1>1 DEF Call, Steps, Kinds, Names
  <1>3. Opening(s) /\ Local(s)
    BY DEF Opening, Local, Call
  <1>4. /\ Len(s) = 5
        /\ s[1].drop = <<>> /\ s[2].drop = <<ep(t)>> /\ s[3].drop = <<scq(t), ep(t)>>
        /\ s[4].drop = <<rcq(t), scq(t), ep(t)>> /\ s[5].drop = <<tav(t), rcq(t), scq(t), ep(t)>>
        /\ s[1].make = {ep(t)} /\ s[2].make = {scq(t)} /\ s[3].make = {rcq(t)} /\ s[4].make = {tav(t)}
        /\ s[5].make = {}
        /\ s[1].use = {dom} /\ s[2].use = {dom} /\ s[3].use = {dom} /\ s[4].use = {dom}
        /\ s[5].use = {ep(t), scq(t), rcq(t), tav(t)}
    BY DEF Call
  <1> HIDE DEF s
  <1>5. Makes(s) = {ep(t), scq(t), rcq(t), tav(t)}
    BY <1>4 DEF Makes
  <1>6. Supplied({dom}, s)
    <2>1. \A k \in 1 .. 5 : \A h \in s[k].use : h = dom \/ Made(h, s, k)
      BY <1>4 DEF Made
    <2> QED
      BY <1>3, <1>4, <2>1, OpeningCloses, Zenon DEF Supplied
  <1>7. /\ ToSet(s[1].drop) = {} /\ ToSet(s[2].drop) = {ep(t)} /\ ToSet(s[3].drop) = {scq(t), ep(t)}
        /\ ToSet(s[4].drop) = {rcq(t), scq(t), ep(t)} /\ ToSet(s[5].drop) = {tav(t), rcq(t), scq(t), ep(t)}
    BY <1>4, Distinct, Tuple0, Tuple1, Tuple2, Tuple3, Tuple4
  <1>8. Neat({}, s)
    <2>1. /\ IsInjective(s[1].drop) /\ IsInjective(s[2].drop) /\ IsInjective(s[3].drop)
          /\ IsInjective(s[4].drop) /\ IsInjective(s[5].drop)
      BY <1>4, Distinct, Tuple0, Tuple1, Tuple2, Tuple3, Tuple4
    <2>2. \A k \in 1 .. 5 : \A h \in ToSet(s[k].drop) : Made(h, s, k)
      BY <1>4, <1>7 DEF Made
    <2>3. \A k \in 1 .. 5 : IsInjective(s[k].drop)
      BY <2>1
    <2> QED
      BY <1>4, <2>2, <2>3 DEF Neat
  <1>9. ToSet(<<dom>>) = {dom} /\ IsInjective(<<dom>>) /\ <<dom>> \in Seq(Handles)
    BY <1>1, Tuple1
  <1>10. \A k \in 1 .. Len(s) : ToSet(s[k].drop) \cap ToSet(<<dom>>) = {}
    BY <1>4, <1>7, <1>9, Distinct
  <1> DEFINE u == Unwinding(s, <<dom>>)
  <1>11. u \in Seq(Steps) /\ Makes(u) = Makes(s) /\ (Opening(s) => Opening(u)) /\ (Local(s) => Local(u))
         /\ (Opening(s) /\ Supplied({dom}, s) => Supplied({dom}, u))
    BY <1>2, <1>9, UnwindingFacts, Zenon
  <1>12. ToSet(<<dom>>) \subseteq {} \cup s[1].use
    BY <1>4, <1>9
  <1>13. Neat({}, u)
    <2> HIDE DEF u
    <2> QED
      BY <1>2, <1>8, <1>9, <1>10, <1>12, UnwindingFacts, Zenon DEF u
  <1> QED
    BY <1>0, <1>3, <1>5, <1>6, <1>11, <1>13

(* The buffer of a thread of rdm_pingpong,                                 *)
LEMMA BufferFacts ==
  ASSUME NEW t \in Nat
  PROVE  /\ <<Buffers(t)>> \in Seq(Steps) /\ Opening(<<Buffers(t)>>) /\ Local(<<Buffers(t)>>)
         /\ Makes(<<Buffers(t)>>) = {s_buf(t)}
         /\ Supplied({dom}, <<Buffers(t)>>) /\ Neat({}, <<Buffers(t)>>)
  <1>1. s_buf(t) \in Handles /\ <<>> \in Seq(Handles)
    BY HandleTypes
  <1>2. Buffers(t) \in Steps
    BY <1>1, Zenon DEF Buffers, Do, Steps, Kinds, Names
  <1>3. /\ Buffers(t).kind = "step" /\ Buffers(t).use = {} /\ Buffers(t).make = {s_buf(t)}
        /\ Buffers(t).drop = <<>> /\ Buffers(t).name = "align buffers"
    BY DEF Buffers, Do
  <1> QED
    BY <1>2, <1>3, Single, Zenon

(* and the buffers, registrations and keys of one of rdm_one_sided         *)
LEMMA OneSidedBufferFacts ==
  ASSUME NEW t \in Nat
  PROVE  /\ OneSidedBuffers(t) \in Seq(Steps) /\ Opening(OneSidedBuffers(t)) /\ Local(OneSidedBuffers(t))
         /\ Makes(OneSidedBuffers(t)) = {s_buf(t), r_mr(t), l_mr(t), descs(t)}
         /\ Supplied({dom}, OneSidedBuffers(t)) /\ Neat({}, OneSidedBuffers(t))
  <1> DEFINE s == OneSidedBuffers(t)
  <1>1. s_buf(t) \in Handles /\ l_mr(t) \in Handles /\ r_mr(t) \in Handles /\ descs(t) \in Handles
        /\ dom \in Handles /\ descs(t) \in Kept /\ <<>> \in Seq(Handles)
    BY HandleTypes, CommonHandles, KeptHandles
  <1>2. s \in Seq(Steps)
    <2> DEFINE a == Call("fi_mr_reg r_buf", {dom}, {r_mr(t)}, <<>>)
               b == Gather("desc", {}, {descs(t)})
               c == Call("fi_mr_reg s_buf", {dom}, {l_mr(t)}, <<>>)
               d == Buffers(t)
    <2>1. d \in Steps
      BY BufferFacts, <1>1, Zenon DEF Buffers, Do, Steps, Kinds, Names
    <2>2. a \in Steps /\ c \in Steps
      BY <1>1, Zenon DEF Call, Steps, Kinds, Names
    <2>3. b \in Steps
      BY <1>1 DEF Gather, Steps, Kinds, Names, Meeting
    <2>4. s = <<d, a, b, c>>
      BY DEF OneSidedBuffers
    <2> HIDE DEF a, b, c, d, s
    <2> QED
      BY <2>1, <2>2, <2>3, <2>4
  <1>3. /\ Len(s) = 4
        /\ s[1].drop = <<>> /\ s[2].drop = <<>> /\ s[3].drop = <<>> /\ s[4].drop = <<>>
        /\ s[1].use = {} /\ s[2].use = {dom} /\ s[3].use = {} /\ s[4].use = {dom}
        /\ s[1].make = {s_buf(t)} /\ s[2].make = {r_mr(t)} /\ s[3].make = {descs(t)} /\ s[4].make = {l_mr(t)}
    BY Zenon DEF OneSidedBuffers, Buffers, Do, Call, Gather
  <1>9. Local(s)
    <2>1. /\ Len(s) = 4 /\ s[1].name = "align buffers" /\ s[2].name = "fi_mr_reg r_buf"
          /\ s[3].name = "desc" /\ s[4].name = "fi_mr_reg s_buf"
      BY Zenon DEF OneSidedBuffers, Buffers, Do, Call, Gather
    <2>2. \A k \in 1 .. 4 : k = 1 \/ k = 2 \/ k = 3 \/ k = 4
      OBVIOUS
    <2> HIDE DEF s
    <2> QED
      BY <2>1, <2>2, Zenon DEF Local
  <1> HIDE DEF s
  <1>4. \A k \in 1 .. Len(s) : s[k].drop = <<>> /\ s[k].use \subseteq {dom}
    BY <1>3
  <1>5. Opening(s)
    BY <1>4 DEF Opening
  <1>6. Makes(s) = {s_buf(t), r_mr(t), l_mr(t), descs(t)}
    BY <1>3 DEF Makes
  <1>7. Supplied({dom}, s)
    BY <1>4, <1>5, OpeningCloses DEF Supplied
  <1>8. Neat({}, s)
    BY <1>4, Tuple0 DEF Neat
  <1> QED
    BY <1>2, <1>5, <1>6, <1>7, <1>8, <1>9 DEF s

ThreadMakes(p, t) ==
  {ep(t), scq(t), rcq(t), tav(t), taddrs(t), s_buf(t)}
    \cup IF p = "rdm_one_sided" THEN {r_mr(t), l_mr(t), descs(t)} ELSE {}

(* init_per_thread_data                                                    *)
LEMMA InitThreadFacts ==
  ASSUME NEW p, NEW t \in Nat
  PROVE  LET s == InitThread(p, t).steps
         IN  /\ s \in Seq(Steps) /\ Len(s) > 0 /\ Opening(s) /\ Local(s)
             /\ Makes(s) = ThreadMakes(p, t) /\ Supplied({dom}, s) /\ Neat({}, s)
  <1> DEFINE a == ThreadEndpoint(t)
             b == InitAv("name", ep(t), tav(t), taddrs(t))
             c == IF p = "rdm_one_sided" THEN OneSidedBuffers(t) ELSE << Buffers(t) >>
             s == InitThread(p, t).steps
  <1>1. s = (a \o b) \o c
    BY Zenon DEF InitThread, Part
  <1>2. /\ a \in Seq(Steps) /\ Opening(a) /\ Local(a) /\ Makes(a) = {ep(t), scq(t), rcq(t), tav(t)}
        /\ Supplied({dom}, a) /\ Neat({}, a)
    BY ThreadEndpointFacts, Zenon
  <1>3. /\ b \in Seq(Steps) /\ Opening(b) /\ Local(b) /\ Makes(b) = {taddrs(t)}
        /\ Supplied({ep(t), tav(t)}, b) /\ Neat({}, b)
    <2>1. "name" \in Names \ {"drc_acquire", "drc_access", "drc_release"} /\ ep(t) \in Handles /\ tav(t) \in Handles /\ taddrs(t) \in Handles
      BY HandleTypes DEF Names
    <2>2. b \in Seq(Steps) /\ Opening(b) /\ Local(b) /\ Supplied({ep(t), tav(t)}, b) /\ Neat({}, b)
      BY <2>1, InitAvFacts, Zenon
    <2>3. \A h : h \in Makes(b) <=> h = taddrs(t)
      BY <2>1, InitAvFacts, Zenon
    <2> HIDE DEF b
    <2> QED
      BY <2>2, <2>3
  <1>4. /\ c \in Seq(Steps) /\ Opening(c) /\ Local(c) /\ Supplied({dom}, c) /\ Neat({}, c)
        /\ Makes(c) = IF p = "rdm_one_sided" THEN {s_buf(t), r_mr(t), l_mr(t), descs(t)} ELSE {s_buf(t)}
    BY BufferFacts, OneSidedBufferFacts, Zenon
  <1>5. Len(a) > 0
    BY DEF ThreadEndpoint, Unwinding
  <1> HIDE DEF a, b, c, s
  <1>6. /\ a \o b \in Seq(Steps) /\ Len(a \o b) > 0 /\ Opening(a \o b) /\ Local(a \o b)
        /\ Makes(a \o b) = {ep(t), scq(t), rcq(t), tav(t), taddrs(t)}
        /\ Closes(a) = {} /\ Closes(a \o b) = {}
    <2>1. a \o b \in Seq(Steps) /\ Len(a \o b) = Len(a) + Len(b) /\ Len(b) \in Nat /\ Len(a) \in Nat
      BY <1>2, <1>3, ConcatStep
    <2>2. Opening(a \o b) /\ Local(a \o b)
      BY <1>2, <1>3, ConcatPlain
    <2>3. Makes(a \o b) = Makes(a) \cup Makes(b)
      BY <1>2, <1>3, ConcatSets
    <2>4. Closes(a) = {} /\ Closes(a \o b) = {}
      BY <1>2, <2>2, OpeningCloses
    <2> QED
      BY <1>2, <1>3, <1>5, <2>1, <2>2, <2>3, <2>4
  <1>7. Supplied({dom}, a \o b)
    <2>1. Supplied({dom} \cup Makes(a), b)
      BY <1>2, <1>3, Monotone
    <2> QED
      BY <1>2, <1>3, <1>6, <2>1, ConcatSupplied
  <1>8. Neat({}, a \o b)
    <2>1. Neat({} \cup Uses(a) \cup Makes(a), b)
      BY <1>3, NeatAnywhere
    <2> QED
      BY <1>2, <1>3, <2>1, ConcatNeat
  <1>9. s \in Seq(Steps) /\ Len(s) > 0 /\ Opening(s) /\ Local(s)
    <2>1. s \in Seq(Steps) /\ Len(s) = Len(a \o b) + Len(c) /\ Len(c) \in Nat /\ Len(a \o b) \in Nat
      BY <1>1, <1>4, <1>6, ConcatStep
    <2>2. Opening(s) /\ Local(s)
      BY <1>1, <1>4, <1>6, ConcatPlain, Zenon
    <2> QED
      BY <1>6, <2>1, <2>2
  <1>10. Makes(s) = ThreadMakes(p, t)
    <2>1. Makes(s) = Makes(a \o b) \cup Makes(c)
      BY <1>1, <1>4, <1>6, ConcatSets, Zenon
    <2> QED
      BY <1>4, <1>6, <2>1 DEF ThreadMakes
  <1>11. Supplied({dom}, s)
    <2>1. Supplied({dom} \cup Makes(a \o b), c)
      BY <1>4, Monotone
    <2> QED
      BY <1>1, <1>4, <1>6, <1>7, <2>1, ConcatSupplied, Zenon
  <1>12. Neat({}, s)
    <2>1. Neat({} \cup Uses(a \o b) \cup Makes(a \o b), c)
      BY <1>4, NeatAnywhere
    <2> QED
      BY <1>1, <1>4, <1>6, <1>8, <2>1, ConcatNeat, Zenon
  <1> QED
    BY <1>9, <1>10, <1>11, <1>12 DEF s

(* fi_close, of a handle that is used and of one that may be NULL          *)
LEMMA CloseFacts ==
  ASSUME NEW h \in Handles
  PROVE  /\ Close(h) \in Steps /\ CloseIfSet(h) \in Steps
         /\ Close(h).kind = "step" /\ Close(h).use = {h} /\ Close(h).make = {} /\ ToSet(Close(h).drop) = {h}
         /\ CloseIfSet(h).kind = "step" /\ CloseIfSet(h).use = {} /\ CloseIfSet(h).make = {}
         /\ ToSet(CloseIfSet(h).drop) = {h}
  <1>1. <<h>> \in Seq(Handles)
    OBVIOUS
  <1>2. Close(h) \in Steps /\ CloseIfSet(h) \in Steps
    BY <1>1, Zenon DEF Close, CloseIfSet, Do, Steps, Kinds, Names
  <1>3. Close(h).drop = <<h>> /\ CloseIfSet(h).drop = <<h>>
    BY DEF Close, CloseIfSet, Do
  <1>4. /\ Close(h).kind = "step" /\ Close(h).use = {h} /\ Close(h).make = {}
        /\ CloseIfSet(h).kind = "step" /\ CloseIfSet(h).use = {} /\ CloseIfSet(h).make = {}
    BY DEF Close, CloseIfSet, Do
  <1> QED
    BY <1>2, <1>3, <1>4, Tuple1

(* Closing has nothing to do with the test nor with credentials.           *)
LEMMA CloseNames ==
  ASSUME NEW h
  PROVE  Close(h).name = "fi_close" /\ CloseIfSet(h).name = "fi_close if set"
  BY DEF Close, CloseIfSet, Do

(* Steps that close one thing after the other, each once                   *)
LEMMA SeveralCloses ==
  ASSUME NEW s \in Seq(Steps), NEW hs \in [1 .. Len(s) -> Handles], IsInjective(hs),
         \A k \in 1 .. Len(s) : s[k] \in {Close(hs[k]), CloseIfSet(hs[k])}
  PROVE  /\ NoCalls(s) /\ Makes(s) = {} /\ Closes(s) = {hs[k] : k \in 1 .. Len(s)}
         /\ Uses(s) \subseteq Closes(s) /\ Supplied(Uses(s), s)
  <1>1. ASSUME NEW k \in 1 .. Len(s)
        PROVE  /\ s[k].kind = "step" /\ s[k].make = {} /\ ToSet(s[k].drop) = {hs[k]}
               /\ s[k].use \subseteq {hs[k]}
    <2>1. hs[k] \in Handles /\ s[k] \in {Close(hs[k]), CloseIfSet(hs[k])}
      OBVIOUS
    <2> QED
      BY <2>1, CloseFacts, Zenon
  <1>2. NoCalls(s)
    BY <1>1 DEF NoCalls
  <1>3. Makes(s) = {}
    BY <1>1 DEF Makes
  <1>4. Closes(s) = {hs[k] : k \in 1 .. Len(s)}
    <2>1. {j \in 1 .. Len(s) : s[j].kind = "step"} = 1 .. Len(s)
      BY <1>1
    <2>2. Closes(s) = UNION {ToSet(s[k].drop) : k \in 1 .. Len(s)}
      BY <2>1 DEF Closes
    <2>3. \A h : h \in Closes(s) <=> \E k \in 1 .. Len(s) : h \in ToSet(s[k].drop)
      BY <2>2
    <2>4. ASSUME NEW h PROVE h \in Closes(s) <=> \E k \in 1 .. Len(s) : h = hs[k]
      <3>1. \A k \in 1 .. Len(s) : h \in ToSet(s[k].drop) <=> h = hs[k]
        BY <1>1
      <3> QED
        BY <2>3, <3>1
    <2> QED
      BY <2>4
  <1>5. Uses(s) \subseteq Closes(s)
    BY <1>1, <1>4 DEF Uses
  <1>6. ASSUME NEW k \in 1 .. Len(s), NEW h \in s[k].use PROVE h \in Uses(s) /\ ~Closed(h, s, k)
    <2>1. h = hs[k] /\ h \in Uses(s)
      BY <1>1 DEF Uses
    <2>2. \A j \in 1 .. k - 1 : j \in 1 .. Len(s) /\ j # k
      OBVIOUS
    <2>3. \A j \in 1 .. k - 1 : hs[j] # h
      BY <2>1, <2>2 DEF IsInjective
    <2> QED
      <3>1. \A j \in 1 .. k - 1 : ToSet(s[j].drop) = {hs[j]}
        BY <1>1, <2>2, Zenon
      <3> QED
        BY <2>1, <2>3, <3>1, Zenon DEF Closed
  <1> QED
    BY <1>2, <1>3, <1>4, <1>5, <1>6 DEF Supplied

(* fini_per_thread_data closes what init_per_thread_data has opened.       *)
LEMMA FiniThreadFacts ==
  ASSUME NEW t \in Nat
  PROVE  /\ FiniThread(t) \in Seq(Steps) /\ NoCalls(FiniThread(t)) /\ Makes(FiniThread(t)) = {}
         /\ Closes(FiniThread(t)) = {l_mr(t), r_mr(t), tav(t), rcq(t), scq(t), ep(t)}
         /\ Uses(FiniThread(t)) = {tav(t), rcq(t), scq(t), ep(t)}
         /\ Supplied({tav(t), rcq(t), scq(t), ep(t)}, FiniThread(t))
  <1> DEFINE hs == <<l_mr(t), r_mr(t), tav(t), rcq(t), scq(t), ep(t)>>
             s == FiniThread(t)
  <1>1. l_mr(t) \in Handles /\ r_mr(t) \in Handles /\ tav(t) \in Handles /\ rcq(t) \in Handles
        /\ scq(t) \in Handles /\ ep(t) \in Handles
    BY HandleTypes
  <1>2. IsInjective(hs)
    BY DEF IsInjective, l_mr, r_mr, tav, rcq, scq, ep
  <1>3. hs \in [1 .. 6 -> Handles] /\ Len(s) = 6
    BY <1>1 DEF FiniThread
  <1>4. /\ s[1] = CloseIfSet(hs[1]) /\ s[2] = CloseIfSet(hs[2]) /\ s[3] = Close(hs[3]) /\ s[4] = Close(hs[4])
        /\ s[5] = Close(hs[5]) /\ s[6] = Close(hs[6])
    BY DEF FiniThread
  <1>5. s \in Seq(Steps)
    <2>1. CloseIfSet(l_mr(t)) \in Steps /\ CloseIfSet(r_mr(t)) \in Steps /\ Close(tav(t)) \in Steps
          /\ Close(rcq(t)) \in Steps /\ Close(scq(t)) \in Steps /\ Close(ep(t)) \in Steps
      BY <1>1, CloseFacts
    <2> QED
      BY <2>1 DEF FiniThread
  <1>6. /\ hs[1] = l_mr(t) /\ hs[2] = r_mr(t) /\ hs[3] = tav(t) /\ hs[4] = rcq(t) /\ hs[5] = scq(t)
        /\ hs[6] = ep(t)
    OBVIOUS
  <1>7. Uses(s) = {tav(t), rcq(t), scq(t), ep(t)}
    <2>1. /\ s[1].use = {} /\ s[2].use = {} /\ s[3].use = {tav(t)} /\ s[4].use = {rcq(t)}
          /\ s[5].use = {scq(t)} /\ s[6].use = {ep(t)}
      BY <1>1, <1>4, <1>6, CloseFacts
    <2> HIDE DEF s
    <2> QED
      BY <1>3, <2>1 DEF Uses
  <1> HIDE DEF s, hs
  <1>8. \A k \in 1 .. Len(s) : s[k] \in {Close(hs[k]), CloseIfSet(hs[k])}
    BY <1>3, <1>4
  <1>9. {hs[k] : k \in 1 .. Len(s)} = {l_mr(t), r_mr(t), tav(t), rcq(t), scq(t), ep(t)}
    BY <1>3, <1>6
  <1>10. /\ NoCalls(s) /\ Makes(s) = {} /\ Closes(s) = {hs[k] : k \in 1 .. Len(s)} /\ Supplied(Uses(s), s)
    BY <1>2, <1>3, <1>5, <1>8, SeveralCloses, Zenon
  <1> QED
    BY <1>5, <1>7, <1>9, <1>10, Zenon DEF s

ThreadNeedsAll(p, r) == UNION {ThreadNeeds(p, r, t) : t \in 1 .. Threads}

(* The last part, from everything that the threads have set up             *)
LEMMA ThreadTestFacts ==
  ASSUME NEW p, NEW r, NEW A, fab \in A, dom \in A,
         \A t \in 1 .. Threads : ThreadMakes(p, t) \subseteq A
  PROVE  LET s == ThreadTest(p, r).steps
         IN  /\ s \in Seq(Steps) /\ Len(s) > 0 /\ NoCalls(s) /\ Makes(s) = {} /\ Supplied(A, s)
             /\ fab \in Closes(s) /\ dom \in Closes(s) /\ auth_mr \notin Closes(s)
             /\ \A t \in 1 .. Threads : {l_mr(t), r_mr(t), tav(t), rcq(t), scq(t), ep(t)} \subseteq Closes(s)
  <1> DEFINE touch(t) == << Do("touch", {s_buf(t)}, {}, <<>>) >>
             test == Do("test", ThreadNeedsAll(p, r), {}, <<>>)
             touches == [t \in 1 .. Threads |-> touch(t)]
             finis == [t \in 1 .. Threads |-> FiniThread(t)]
             a == FlattenSeq(touches)
             b == << Barrier, test, Barrier >>
             c == IF p = "rdm_pingpong" THEN << Barrier >> ELSE <<>>
             d == FlattenSeq(finis)
             e == << Close(dom), Close(fab), Barrier >>
             s == ThreadTest(p, r).steps
  <1>0. s = (((a \o b) \o c) \o d) \o e
    BY DEF ThreadTest, Part, ThreadNeedsAll
  <1>1. Threads \in Nat \ {0} /\ \A t \in 1 .. Threads : t \in Nat
    BY SizesAssumption
  <1>2. ASSUME NEW t \in 1 .. Threads
        PROVE  /\ touch(t) \in Seq(Steps) /\ Opening(touch(t)) /\ NoCalls(touch(t)) /\ Makes(touch(t)) = {}
               /\ Closes(touch(t)) = {} /\ Supplied(A, touch(t))
    <2> DEFINE x == Do("touch", {s_buf(t)}, {}, <<>>)
    <2>1. s_buf(t) \in Handles /\ s_buf(t) \in A /\ <<>> \in Seq(Handles)
      BY <1>1, HandleTypes DEF ThreadMakes
    <2>2. x \in Steps
      BY <2>1 DEF Do, Steps, Kinds, Names
    <2>3. x.kind = "step" /\ x.use \subseteq A /\ x.make = {} /\ x.drop = <<>>
      BY <2>1 DEF Do
    <2>4. touch(t) = <<x>>
      OBVIOUS
    <2> HIDE DEF x, touch
    <2> QED
      BY <2>2, <2>3, <2>4, Single, Tuple0
  <1>3. /\ a \in Seq(Steps) /\ Opening(a) /\ NoCalls(a) /\ Makes(a) = {} /\ Supplied(A, a)
        /\ Closes(a) = {}
    <2> HIDE DEF touch
    <2>1. touches \in [1 .. Threads -> Seq(Steps)]
      BY <1>2
    <2>2. \A t \in 1 .. Threads : touches[t] = touch(t)
      OBVIOUS
    <2> HIDE DEF touches
    <2>3. a \in Seq(Steps) /\ Opening(a) /\ NoCalls(a)
      BY <1>1, <1>2, <2>1, <2>2, FlattenPlain, Zenon
    <2>4. Makes(a) = {}
      BY <1>1, <1>2, <2>1, <2>2, FlattenPlain, Zenon
    <2>5. Supplied(A, a)
      <3>1. \A m \in 1 .. Threads : Supplied(A, touches[m])
        BY <1>2, <2>2
      <3>2. \A m \in 1 .. Threads : \A i \in 1 .. m - 1 : Closes(touches[i]) \cap Uses(touches[m]) = {}
        <4>1. ASSUME NEW m \in 1 .. Threads, NEW i \in 1 .. m - 1 PROVE Closes(touches[i]) = {}
          <5>1. i \in 1 .. Threads
            BY <1>1
          <5> QED
            BY <1>2, <2>2, <5>1
        <4> QED
          BY <4>1
      <3> QED
        BY <1>1, <2>1, <3>1, <3>2, FlattenSupplied, Zenon
    <2> QED
      BY <2>3, <2>4, <2>5, OpeningCloses
  <1>4. /\ b \in Seq(Steps) /\ Len(b) = 3 /\ Opening(b) /\ NoCalls(b) /\ Makes(b) = {} /\ Supplied(A, b)
        /\ Closes(b) = {}
    <2>1. ThreadNeedsAll(p, r) \subseteq Handles
      <3>1. ASSUME NEW t \in 1 .. Threads PROVE ThreadNeeds(p, r, t) \subseteq Handles
        BY <1>1, HandleTypes DEF ThreadNeeds
      <3> QED
        BY <3>1 DEF ThreadNeedsAll
    <2>2. ThreadNeedsAll(p, r) \subseteq A
      <3>1. ASSUME NEW t \in 1 .. Threads PROVE ThreadNeeds(p, r, t) \subseteq ThreadMakes(p, t)
        BY DEF ThreadNeeds, ThreadMakes
      <3> QED
        BY <3>1 DEF ThreadNeedsAll
    <2>3. test \in Steps
      <3>1. <<>> \in Seq(Handles)
        OBVIOUS
      <3> QED
        BY <2>1, <3>1 DEF Do, Steps, Kinds, Names
    <2>4. /\ test.kind = "step" /\ test.use \subseteq A /\ test.make = {} /\ test.drop = <<>>
          /\ Barrier.kind = "barrier" /\ Barrier.use = {} /\ Barrier.make = {}
      BY <2>2 DEF Do, Barrier
    <2> HIDE DEF test
    <2>5. b \in Seq(Steps) /\ Len(b) = 3 /\ b[1] = Barrier /\ b[2] = test /\ b[3] = Barrier
      BY <2>3, BarrierFacts
    <2> HIDE DEF b
    <2>6. Opening(b)
      BY <2>4, <2>5 DEF Opening
    <2>7. NoCalls(b)
      BY <2>4, <2>5 DEF NoCalls
    <2>8. Makes(b) = {}
      BY <2>4, <2>5 DEF Makes
    <2>9. Supplied(A, b)
      BY <2>4, <2>5, <2>6, OpeningCloses DEF Supplied
    <2> QED
      BY <2>5, <2>6, <2>7, <2>8, <2>9, OpeningCloses
  <1>5. /\ c \in Seq(Steps) /\ Opening(c) /\ NoCalls(c) /\ Makes(c) = {} /\ Supplied(A, c) /\ Closes(c) = {}
    <2>1. /\ <<>> \in Seq(Steps) /\ Opening(<<>>) /\ NoCalls(<<>>) /\ Makes(<<>>) = {}
          /\ Supplied(A, <<>>) /\ Closes(<<>>) = {}
      BY DEF Opening, NoCalls, Makes, Supplied, Closes
    <2> QED
      BY <2>1, BarrierFacts
  <1>6. /\ d \in Seq(Steps) /\ NoCalls(d) /\ Makes(d) = {} /\ Supplied(A, d)
        /\ \A h : h \in Closes(d) <=> \E t \in 1 .. Threads : h \in {l_mr(t), r_mr(t), tav(t), rcq(t), scq(t), ep(t)}
    <2>1. /\ finis \in [1 .. Threads -> Seq(Steps)]
          /\ \A t \in 1 .. Threads : finis[t] = FiniThread(t)
      BY <1>1, FiniThreadFacts, Zenon
    <2> HIDE DEF finis
    <2>2. ASSUME NEW t \in 1 .. Threads
          PROVE  /\ NoCalls(finis[t]) /\ Makes(finis[t]) = {} /\ Supplied(A, finis[t])
                 /\ Closes(finis[t]) = {l_mr(t), r_mr(t), tav(t), rcq(t), scq(t), ep(t)}
                 /\ Uses(finis[t]) = {tav(t), rcq(t), scq(t), ep(t)}
      <3>1. finis[t] = FiniThread(t) /\ t \in Nat
        BY <1>1, <2>1
      <3>2. {tav(t), rcq(t), scq(t), ep(t)} \subseteq A
        BY DEF ThreadMakes
      <3>3. Supplied({tav(t), rcq(t), scq(t), ep(t)}, finis[t])
        BY <3>1, FiniThreadFacts
      <3>4. Supplied(A, finis[t])
        BY <3>2, <3>3, Monotone
      <3> QED
        BY <3>1, <3>4, FiniThreadFacts, Zenon
    <2>3. d \in Seq(Steps) /\ NoCalls(d) /\ Makes(d) = {}
      BY <1>1, <2>1, <2>2, FlattenPlain, Zenon
    <2>4. \A m \in 1 .. Threads : \A i \in 1 .. m - 1 : Closes(finis[i]) \cap Uses(finis[m]) = {}
      <3> SUFFICES ASSUME NEW m \in 1 .. Threads, NEW i \in 1 .. m - 1
                   PROVE  Closes(finis[i]) \cap Uses(finis[m]) = {}
        OBVIOUS
      <3>1. i \in 1 .. Threads /\ i # m
        BY <1>1
      <3>2. /\ Closes(finis[i]) = {l_mr(i), r_mr(i), tav(i), rcq(i), scq(i), ep(i)}
            /\ Uses(finis[m]) = {tav(m), rcq(m), scq(m), ep(m)}
        BY <2>2, <3>1
      <3> QED
        BY <3>1, <3>2 DEF l_mr, r_mr, tav, rcq, scq, ep
    <2>5. Supplied(A, d)
      BY <1>1, <2>1, <2>2, <2>4, FlattenSupplied, Zenon
    <2>6. \A h : h \in Closes(d) <=> \E t \in 1 .. Threads : h \in Closes(finis[t])
      BY <1>1, <2>1, FlattenPlain, Zenon
    <2> HIDE DEF d
    <2>7. \A h : h \in Closes(d) <=> \E t \in 1 .. Threads : h \in {l_mr(t), r_mr(t), tav(t), rcq(t), scq(t), ep(t)}
      BY <2>2, <2>6
    <2> QED
      BY <2>3, <2>5, <2>7
  <1>7. /\ e \in Seq(Steps) /\ NoCalls(e) /\ Makes(e) = {} /\ Uses(e) = {dom, fab} /\ Closes(e) = {dom, fab}
        /\ Supplied(A, e)
    <2>1. dom \in Handles /\ fab \in Handles /\ dom # fab
      BY CommonHandles, Distinct
    <2>2. Close(dom) \in Steps /\ Close(fab) \in Steps /\ Barrier \in Steps
      BY <2>1, CloseFacts, BarrierFacts
    <2>3. /\ e \in Seq(Steps) /\ Len(e) = 3
          /\ e[1] = Close(dom) /\ e[2] = Close(fab) /\ e[3] = Barrier
      BY <2>2
    <2> HIDE DEF e
    <2>4. /\ e[1].kind = "step" /\ e[1].use = {dom} /\ e[1].make = {} /\ ToSet(e[1].drop) = {dom}
          /\ e[2].kind = "step" /\ e[2].use = {fab} /\ e[2].make = {} /\ ToSet(e[2].drop) = {fab}
      BY <2>1, <2>3, CloseFacts, Zenon
    <2>5. e[3].kind = "barrier" /\ e[3].use = {} /\ e[3].make = {}
      BY <2>3 DEF Barrier
    <2>6. NoCalls(e)
      BY <2>3, <2>4, <2>5 DEF NoCalls
    <2>7. Makes(e) = {}
      BY <2>3, <2>4, <2>5 DEF Makes
    <2>8. Uses(e) = {dom, fab}
      BY <2>3, <2>4, <2>5 DEF Uses
    <2>9. \A h : h \in Closes(e) <=> h = dom \/ h = fab
      <3>1. \A h : h \in Closes(e) <=> \E k \in 1 .. Len(e) : e[k].kind = "step" /\ h \in ToSet(e[k].drop)
        BY DEF Closes
      <3> QED
        BY <2>3, <2>4, <2>5, <3>1
    <2>10. Supplied(A, e)
      BY <2>1, <2>3, <2>4, <2>5 DEF Supplied, Closed
    <2> QED
      BY <2>3, <2>6, <2>7, <2>8, <2>9, <2>10
  <1> HIDE DEF a, b, c, d, e, s
  <1>8. /\ a \o b \in Seq(Steps) /\ Len(a \o b) > 0 /\ NoCalls(a \o b) /\ Makes(a \o b) = {}
        /\ Closes(a \o b) = {} /\ Supplied(A, a \o b)
    <2>1. a \o b \in Seq(Steps) /\ Len(a \o b) > 0
      <3>1. a \o b \in Seq(Steps) /\ Len(a \o b) = Len(a) + Len(b) /\ Len(a) \in Nat
        BY <1>3, <1>4, ConcatStep, Zenon
      <3> QED
        BY <1>4, <3>1
    <2>2. NoCalls(a \o b) /\ Makes(a \o b) = {} /\ Closes(a \o b) = {}
      BY <1>3, <1>4, ConcatPlain, ConcatSets
    <2>3. Supplied(A \cup Makes(a), b)
      BY <1>3, <1>4
    <2>4. Supplied(A, a \o b)
      BY <1>3, <1>4, <2>3, ConcatSupplied
    <2> QED
      BY <2>1, <2>2, <2>4
  <1> DEFINE u == (a \o b) \o c
  <1>9. u \in Seq(Steps) /\ Len(u) > 0 /\ NoCalls(u) /\ Makes(u) = {} /\ Closes(u) = {} /\ Supplied(A, u)
    <2>1. u \in Seq(Steps) /\ Len(u) > 0
      BY <1>5, <1>8, ConcatStep
    <2>2. NoCalls(u) /\ Makes(u) = {} /\ Closes(u) = {}
      <3>1. NoCalls(u)
        BY <1>5, <1>8, ConcatPlain, Zenon
      <3>2. Makes(u) = Makes(a \o b) \cup Makes(c) /\ Closes(u) = Closes(a \o b) \cup Closes(c)
        BY <1>5, <1>8, ConcatSets, Zenon
      <3> QED
        BY <1>5, <1>8, <3>1, <3>2
    <2>3. Supplied(A \cup Makes(a \o b), c)
      BY <1>5, <1>8
    <2>4. Supplied(A, u)
      BY <1>5, <1>8, <2>3, ConcatSupplied, Zenon
    <2> QED
      BY <2>1, <2>2, <2>4
  <1> HIDE DEF u
  <1> DEFINE v == u \o d
  <1>10. /\ v \in Seq(Steps) /\ Len(v) > 0 /\ NoCalls(v) /\ Makes(v) = {} /\ Closes(v) = Closes(d)
         /\ Supplied(A, v)
    <2>1. v \in Seq(Steps) /\ Len(v) > 0
      BY <1>6, <1>9, ConcatStep
    <2>2. NoCalls(v) /\ Makes(v) = {} /\ Closes(v) = Closes(d)
      <3>1. NoCalls(v)
        BY <1>6, <1>9, ConcatPlain
      <3>2. Makes(v) = Makes(u) \cup Makes(d) /\ Closes(v) = Closes(u) \cup Closes(d)
        BY <1>6, <1>9, ConcatSets, Zenon
      <3> QED
        BY <1>6, <1>9, <3>1, <3>2
    <2>3. Supplied(A \cup Makes(u), d)
      BY <1>6, <1>9
    <2>4. Supplied(A, v)
      BY <1>6, <1>9, <2>3, ConcatSupplied
    <2> QED
      BY <2>1, <2>2, <2>4
  <1>11. s = v \o e
    BY <1>0 DEF u
  <1> HIDE DEF v
  <1>12. s \in Seq(Steps) /\ Len(s) > 0
    BY <1>7, <1>10, <1>11, ConcatStep
  <1>13. NoCalls(s) /\ Makes(s) = {} /\ Closes(s) = Closes(d) \cup {dom, fab}
    BY <1>7, <1>10, <1>11, ConcatPlain, ConcatSets
  <1>14. Supplied(A, s)
    <2>1. Supplied(A \cup Makes(v), e)
      BY <1>7, <1>10
    <2>2. Closes(v) \cap Uses(e) = {}
      <3>1. \A t : /\ dom \notin {l_mr(t), r_mr(t), tav(t), rcq(t), scq(t), ep(t)}
                   /\ fab \notin {l_mr(t), r_mr(t), tav(t), rcq(t), scq(t), ep(t)}
        BY DEF dom, fab, l_mr, r_mr, tav, rcq, scq, ep
      <3> QED
        BY <1>6, <1>7, <1>10, <3>1
    <2> QED
      BY <1>7, <1>10, <1>11, <2>1, <2>2, ConcatSupplied
  <1>15. \A t \in 1 .. Threads : {l_mr(t), r_mr(t), tav(t), rcq(t), scq(t), ep(t)} \subseteq Closes(s)
    BY <1>6, <1>13
  <1>16. auth_mr \notin Closes(s)
    <2>1. \A t : auth_mr \notin {l_mr(t), r_mr(t), tav(t), rcq(t), scq(t), ep(t)}
      BY DEF auth_mr, l_mr, r_mr, tav, rcq, scq, ep
    <2>2. auth_mr # dom /\ auth_mr # fab
      BY DEF auth_mr, dom, fab
    <2> QED
      BY <1>6, <1>13, <2>1, <2>2
  <1> QED
    BY <1>12, <1>13, <1>14, <1>15, <1>16 DEF s

(* rdm_one_sided and rdm_pingpong are sound.                               *)
LEMMA ThreadProgramFacts ==
  ASSUME NEW p \in {"rdm_one_sided", "rdm_pingpong"}, NEW r
  PROVE  Sound(p, ThreadProgram(p, r))
  <1> DEFINE P == ThreadProgram(p, r)
             F == Part("leave", Fabric)
             inits == [t \in 1 .. Threads |-> InitThread(p, t)]
             T == ThreadTest(p, r)
             n == Threads
  <1>1. n \in Nat \ {0} /\ \A t \in 1 .. n : t \in Nat
    BY SizesAssumption
  <1>2. P = (<<F>> \o inits) \o <<T>>
    BY DEF ThreadProgram
  <1>3. F \in Parts /\ F.steps = Fabric /\ F.on_error = "leave" /\ T.on_error = "abort"
    BY FabricFacts DEF Parts, Part, ThreadTest
  <1>4. ASSUME NEW t \in 1 .. n
        PROVE  inits[t] = InitThread(p, t) /\ inits[t] \in Parts
    <2>1. InitThread(p, t).steps \in Seq(Steps)
      BY <1>1, InitThreadFacts
    <2> QED
      BY <2>1 DEF InitThread, Part, Parts
  <1> DEFINE A == Makes(F.steps) \cup UNION {Makes(inits[t].steps) : t \in 1 .. n}
  <1>5. /\ Makes(F.steps) = {fab, dom}
        /\ \A t \in 1 .. n : Makes(inits[t].steps) = ThreadMakes(p, t)
    BY <1>1, <1>3, <1>4, FabricFacts, InitThreadFacts
  <1>6. /\ T.steps \in Seq(Steps) /\ Len(T.steps) > 0 /\ NoCalls(T.steps) /\ Makes(T.steps) = {}
        /\ Supplied(A, T.steps) /\ fab \in Closes(T.steps) /\ dom \in Closes(T.steps)
        /\ auth_mr \notin Closes(T.steps)
        /\ \A t \in 1 .. n :
             {l_mr(t), r_mr(t), tav(t), rcq(t), scq(t), ep(t)} \subseteq Closes(T.steps)
    <2>1. fab \in A /\ dom \in A /\ \A t \in 1 .. n : ThreadMakes(p, t) \subseteq A
      BY <1>5
    <2> HIDE DEF A
    <2> QED
      BY <2>1, ThreadTestFacts, Zenon
  <1>7. T \in Parts
    BY <1>6 DEF ThreadTest, Part, Parts
  <1> HIDE DEF F, T, P
  <1>8. inits \in Seq(Parts) /\ Len(inits) = n
    <2>1. inits \in [1 .. n -> Parts]
      BY <1>4
    <2>2. Len(inits) = n
      BY <1>1
    <2> QED
      BY <1>1, <2>1, <2>2
  <1>9. /\ P \in Seq(Parts) /\ Len(P) = n + 2
        /\ P[1] = F /\ P[n + 2] = T /\ \A t \in 1 .. n : P[t + 1] = inits[t]
    <2> HIDE DEF inits
    <2>1. <<F>> \in Seq(Parts) /\ Len(<<F>>) = 1 /\ <<T>> \in Seq(Parts) /\ Len(<<T>>) = 1
          /\ <<F>>[1] = F /\ <<T>>[1] = T
      BY <1>3, <1>7
    <2> DEFINE Q == <<F>> \o inits
    <2>2. /\ Q \in Seq(Parts) /\ Len(Q) = n + 1
          /\ \A i \in 1 .. 1 + n : Q[i] = IF i <= 1 THEN <<F>>[i] ELSE inits[i - 1]
      BY <1>1, <1>8, <2>1, ConcatProperties
    <2> HIDE DEF Q
    <2>3. /\ P \in Seq(Parts) /\ Len(P) = n + 2
          /\ \A i \in 1 .. n + 1 + 1 : P[i] = IF i <= n + 1 THEN Q[i] ELSE <<T>>[i - (n + 1)]
      <3>1. P = Q \o <<T>>
        BY <1>2 DEF Q
      <3> QED
        BY <1>1, <2>1, <2>2, <3>1, ConcatProperties
    <2>4. P[1] = F
      BY <1>1, <2>1, <2>2, <2>3
    <2>5. P[n + 2] = T
      <3>1. n + 2 \in 1 .. n + 1 + 1 /\ ~(n + 2 <= n + 1) /\ (n + 2) - (n + 1) = 1
        BY <1>1
      <3> QED
        BY <2>1, <2>3, <3>1
    <2>6. ASSUME NEW t \in 1 .. n PROVE P[t + 1] = inits[t]
      <3>1. t + 1 \in 1 .. n + 1 + 1 /\ t + 1 <= n + 1 /\ t + 1 \in 1 .. 1 + n /\ ~(t + 1 <= 1)
            /\ (t + 1) - 1 = t
        BY <1>1
      <3> QED
        BY <2>2, <2>3, <3>1
    <2> QED
      BY <2>3, <2>4, <2>5, <2>6
  <1>10. ASSUME NEW i \in 1 .. Len(P)
         PROVE  i = 1 \/ i = n + 2 \/ \E t \in 1 .. n : i = t + 1
    <2>1. ASSUME i # 1, i # n + 2 PROVE i - 1 \in 1 .. n /\ i = (i - 1) + 1
      BY <1>1, <1>9, <2>1
    <2> QED
      BY <2>1
  <1>11. Before(P, n + 2) = A
    <2>1. \A h : h \in Before(P, n + 2) <=> \E j \in 1 .. (n + 2) - 1 : h \in Makes(P[j].steps)
      BY DEF Before
    <2>2. 1 \in 1 .. (n + 2) - 1 /\ \A t \in 1 .. n : t + 1 \in 1 .. (n + 2) - 1
      BY <1>1
    <2>3. ASSUME NEW j \in 1 .. (n + 2) - 1 PROVE j = 1 \/ \E t \in 1 .. n : j = t + 1
      <3>1. j \in 1 .. Len(P) /\ j # n + 2
        BY <1>1, <1>9
      <3> QED
        BY <1>10, <3>1
    <2> HIDE DEF inits
    <2>4. ASSUME NEW h PROVE h \in Before(P, n + 2) <=> h \in A
      <3>1. h \in A <=> h \in Makes(F.steps) \/ \E t \in 1 .. n : h \in Makes(inits[t].steps)
        OBVIOUS
      <3> HIDE DEF A
      <3> QED
        BY <1>9, <2>1, <2>2, <2>3, <3>1
    <2> QED
      BY <2>4
  <1>12. /\ Opening(P[1].steps) /\ Supplied(Before(P, 1), P[1].steps) /\ Neat({}, P[1].steps)
         /\ Makes(P[1].steps) \subseteq Closes(P[n + 2].steps) /\ Len(P[1].steps) > 0
         /\ Thorough({}, P[1].steps)
    <2>1. Supplied(Before(P, 1), Fabric)
      BY FabricFacts, Monotone
    <2>2. Len(Fabric) > 0
      BY DEF Fabric
    <2> QED
      BY <1>3, <1>5, <1>6, <1>9, <2>1, <2>2, FabricFacts
  <1>13. ASSUME NEW t \in 1 .. n
         PROVE  LET s == P[t + 1].steps
                IN  /\ Len(s) > 0 /\ Opening(s) /\ Supplied(Before(P, t + 1), s) /\ Neat({}, s)
                    /\ Makes(s) \subseteq Kept \cup Closes(P[n + 2].steps) /\ Local(s)
    <2>1. t \in Nat /\ P[t + 1].steps = InitThread(p, t).steps
      BY <1>1, <1>4, <1>9
    <2>2. dom \in Before(P, t + 1)
      <3>1. 1 \in 1 .. (t + 1) - 1
        BY <1>1
      <3> QED
        BY <1>5, <1>9, <3>1 DEF Before
    <2>3. {dom} \subseteq Before(P, t + 1)
      BY <2>2
    <2>4. /\ Len(P[t + 1].steps) > 0 /\ Opening(P[t + 1].steps) /\ Supplied({dom}, P[t + 1].steps)
          /\ Neat({}, P[t + 1].steps) /\ Makes(P[t + 1].steps) = ThreadMakes(p, t)
          /\ Local(P[t + 1].steps)
      BY <2>1, InitThreadFacts, Zenon
    <2>5. ThreadMakes(p, t) \subseteq Kept \cup Closes(T.steps)
      <3>1. taddrs(t) \in Kept /\ s_buf(t) \in Kept /\ descs(t) \in Kept
        BY <2>1, KeptHandles
      <3> QED
        BY <1>6, <3>1 DEF ThreadMakes
    <2>6. Supplied(Before(P, t + 1), P[t + 1].steps)
      BY <2>3, <2>4, Monotone
    <2> QED
      BY <1>9, <2>4, <2>5, <2>6
  <1>14. /\ NoCalls(P[n + 2].steps) /\ Makes(P[n + 2].steps) = {} /\ Len(P[n + 2].steps) > 0
         /\ Supplied(Before(P, n + 2), P[n + 2].steps) /\ Neat({}, P[n + 2].steps)
    <2>1. Neat({}, T.steps)
      BY <1>6 DEF NoCalls, Neat
    <2> QED
      BY <1>6, <1>9, <1>11, <2>1, Zenon
  <1> HIDE DEF A, inits
  <1>15. \A i \in 1 .. Len(P) :
           Len(P[i].steps) > 0 /\ Ordered(P[i].steps) /\ Supplied(Before(P, i), P[i].steps)
             /\ Neat({}, P[i].steps)
    BY <1>10, <1>12, <1>13, <1>14, OrderedFacts, Zenon
  <1>16. \A i \in 1 .. Len(P) - 1 :
           Opening(P[i].steps) /\ Makes(P[i].steps) \subseteq Kept \cup Closes(P[Len(P)].steps)
    <2> SUFFICES ASSUME NEW i \in 1 .. Len(P) - 1
                 PROVE  Opening(P[i].steps) /\ Makes(P[i].steps) \subseteq Kept \cup Closes(P[Len(P)].steps)
      OBVIOUS
    <2>1. i \in 1 .. Len(P) /\ i # n + 2
      BY <1>1, <1>9
    <2> QED
      BY <1>9, <1>10, <1>12, <1>13, <2>1, Zenon
  <1>17. EndsClosed(P[Len(P)].steps)
    BY <1>9, <1>14, OrderedFacts
  <1>18. WellMade(P)
    <2>1. P \in Seq(Parts) /\ Len(P) > 0
      BY <1>1, <1>9
    <2> QED
      BY <1>15, <1>16, <1>17, <2>1 DEF WellMade
  <1>19. ASSUME NEW i \in 1 .. Len(P), NEW k \in 1 .. Len(P[i].steps), P[i].steps[k].kind = "call"
         PROVE  ClosesItsOwn(P[i].steps, k)
    BY <1>15, <1>19, NeatFacts
  <1>20. FirstThorough(p, P[1].steps)
    <2>1. \A x : Careful(p, x)
      BY Zenon DEF Careful
    <2>2. Thorough({}, P[1].steps)
      BY <1>12
    <2> QED
      BY <2>1, <2>2 DEF Thorough, FirstThorough
  <1>21. ASSUME NEW i \in 1 .. Len(P), P[i].on_error = "next"
         PROVE  i # Len(P) /\ \A k \in 1 .. Len(P[i].steps) : P[i].steps[k].name # "drc_access"
    <2>1. i # 1 /\ i # n + 2
      BY <1>3, <1>9, <1>21
    <2>2. Local(P[i].steps)
      BY <1>10, <1>13, <2>1
    <2> QED
      BY <1>9, <2>1, <2>2 DEF Local
  <1>22. auth_mr \notin Closes(P[Len(P)].steps)
    BY <1>6, <1>9
  <1> QED
    BY <1>18, <1>19, <1>20, <1>21, <1>22 DEF P, Sound

-----------------------------------------------------------------------------
(* rdm_mbw_mr                                                              *)

(* The queues or counters of rdm_mbw_mr                                    *)
Sending(p) == IF p = "rdm_mbw_mr" THEN scq(0) ELSE scntr
Receiving(p) == IF p = "rdm_mbw_mr" THEN rcq(0) ELSE rcntr

(* The handles of rdm_mbw_mr, with queues or with counters,                *)
LEMMA MbwHandles ==
  ASSUME NEW p
  PROVE  /\ fab \in Handles /\ dom \in Handles /\ ep(0) \in Handles /\ waitset \in Handles
         /\ Sending(p) \in Handles /\ Receiving(p) \in Handles /\ av \in Handles
         /\ scq(0) \in Handles /\ rcq(0) \in Handles /\ addrs \in Handles
         /\ waitset \in Kept /\ addrs \in Kept /\ scq(0) \notin Kept
         /\ MbwComps(p) = <<Receiving(p), Sending(p)>>
  <1>1. 0 \in Nat
    OBVIOUS
  <1>2. scq(0) \in Handles /\ rcq(0) \in Handles /\ ep(0) \in Handles
    BY <1>1, HandleTypes
  <1>3. Sending(p) \in Handles /\ Receiving(p) \in Handles
    BY <1>2, CommonHandles DEF Sending, Receiving
  <1>4. MbwComps(p) = <<Receiving(p), Sending(p)>>
    BY DEF MbwComps, Sending, Receiving
  <1>5. scq(0) \notin Kept
    BY DEF Kept, NeverClosed, scq
  <1>6. waitset \in Kept /\ addrs \in Kept
    BY <1>1, KeptHandles
  <1> QED
    BY <1>2, <1>3, <1>4, <1>5, <1>6, CommonHandles

(* are different ones.                                                     *)
LEMMA MbwDistinct ==
  ASSUME NEW p
  PROVE  /\ fab # dom /\ fab # ep(0) /\ dom # ep(0)
         /\ \A h \in {fab, dom, ep(0)} :
              h # Sending(p) /\ h # Receiving(p) /\ h # av /\ h # scq(0) /\ h # rcq(0) /\ h # waitset
         /\ Sending(p) # Receiving(p) /\ av # Sending(p) /\ av # Receiving(p) /\ rcq(0) # scq(0)
         /\ scq(0) # waitset /\ scq(0) # av /\ scq(0) # Receiving(p)
         /\ p # "rdm_mbw_mr" => scq(0) # Sending(p)
  BY DEF fab, dom, ep, Sending, Receiving, scq, rcq, scntr, rcntr, av, waitset

(* init_fabric of rdm_mbw_mr, call by call                                 *)
LEMMA MbwFabricSteps ==
  ASSUME NEW p \in {"rdm_mbw_mr", "rdm_mbw_mr_cntr"}
  PROVE  LET s == MbwFabric(p)
             c == Sending(p)
             d == Receiving(p)
         IN  /\ s \in Seq(Steps) /\ Len(s) = 9
             /\ \A k \in 1 .. 9 : s[k].kind = "call"
             /\ s[1].use = {} /\ s[2].use = {} /\ s[3].use = {fab} /\ s[4].use = {dom} /\ s[5].use = {fab}
             /\ s[6].use = {dom} /\ s[7].use = {dom} /\ s[8].use = {dom} /\ s[9].use = {ep(0), av, d, c}
             /\ s[1].make = {} /\ s[2].make = {fab} /\ s[3].make = {dom} /\ s[4].make = {ep(0)}
             /\ s[5].make = {waitset} /\ s[6].make = {c} /\ s[7].make = {d} /\ s[8].make = {av}
             /\ s[9].make = {}
             /\ \A k \in 1 .. 9 : IsInjective(s[k].drop)
             /\ ToSet(s[1].drop) = {} /\ ToSet(s[2].drop) = {} /\ ToSet(s[3].drop) = {fab}
             /\ ToSet(s[4].drop) = {dom, fab} /\ ToSet(s[5].drop) = {ep(0), dom, fab}
             /\ ToSet(s[6].drop) = {ep(0), dom, fab} /\ ToSet(s[7].drop) = {scq(0), ep(0), dom, fab}
             /\ ToSet(s[8].drop) = {rcq(0), scq(0), ep(0), dom, fab}
             /\ ToSet(s[9].drop) = {av, d, c, ep(0), dom, fab}
             /\ ~Careful(p, s[7]) <=> p = "rdm_mbw_mr_cntr"
             /\ ~Careful(p, s[8]) <=> p = "rdm_mbw_mr_cntr"
             /\ \A k \in 1 .. 9 : k # 7 /\ k # 8 => Careful(p, s[k])
             /\ \A k \in 1 .. 9 : s[k].name \notin {"drc_acquire", "drc_access", "drc_release", "test"}
  <1> DEFINE c == Sending(p)
             d == Receiving(p)
             e == << Call("fi_endpoint", {dom}, {ep(0)}, <<dom, fab>>) >>
             alloc == IF p = "rdm_mbw_mr" THEN AllocCq ELSE AllocCntr
             own == <<av>> \o MbwComps(p)
             bind == << Call("fi_ep_bind", {ep(0), av} \cup ToSet(MbwComps(p)), {}, own) >>
             more == <<ep(0), dom, fab>>
             inner == alloc \o bind
             outer == Unwinding(inner, more)
             s == MbwFabric(p)
  <1>1. s = (Fabric \o e) \o outer
    BY DEF MbwFabric
  <1>2. /\ fab \in Handles /\ dom \in Handles /\ ep(0) \in Handles /\ waitset \in Handles
        /\ c \in Handles /\ d \in Handles /\ av \in Handles /\ scq(0) \in Handles /\ rcq(0) \in Handles
        /\ MbwComps(p) = <<d, c>>
    BY MbwHandles
  <1>3. own \in Seq(Handles) /\ ToSet(own) = {av, d, c} /\ IsInjective(own)
    <2>1. /\ ToSet(<<av>>) = {av} /\ ToSet(<<d, c>>) = {d, c} /\ IsInjective(<<av>>) /\ IsInjective(<<d, c>>)
          /\ <<av>> \in Seq(Handles) /\ <<d, c>> \in Seq(Handles)
      BY <1>2, Tuple1, Tuple2, MbwDistinct
    <2>2. ToSet(<<av>>) \cap ToSet(<<d, c>>) = {}
      BY <2>1, MbwDistinct
    <2>3. own = <<av>> \o <<d, c>>
      BY <1>2
    <2> HIDE DEF c, d, own
    <2>4. {av} \cup {d, c} = {av, d, c}
      OBVIOUS
    <2> QED
      BY <2>1, <2>2, <2>3, <2>4, ConcatDrops, Zenon
  <1>4. more \in Seq(Handles) /\ ToSet(more) = {ep(0), dom, fab} /\ IsInjective(more)
    BY <1>2, MbwDistinct, Tuple3
  <1>5. /\ e \in Seq(Steps) /\ Len(e) = 1 /\ e[1].kind = "call" /\ e[1].name = "fi_endpoint"
        /\ e[1].use = {dom} /\ e[1].make = {ep(0)} /\ e[1].drop = <<dom, fab>>
    BY <1>2 DEF Call, Steps, Kinds, Names
  <1>6. /\ Fabric \in Seq(Steps) /\ Len(Fabric) = 3
        /\ Fabric[1].kind = "call" /\ Fabric[2].kind = "call" /\ Fabric[3].kind = "call"
        /\ Fabric[1].name = "fi_getinfo" /\ Fabric[2].name = "fi_fabric" /\ Fabric[3].name = "fi_domain"
        /\ Fabric[1].use = {} /\ Fabric[2].use = {} /\ Fabric[3].use = {fab}
        /\ Fabric[1].make = {} /\ Fabric[2].make = {fab} /\ Fabric[3].make = {dom}
        /\ Fabric[1].drop = <<>> /\ Fabric[2].drop = <<>> /\ Fabric[3].drop = <<fab>>
    <2>1. Fabric \in Seq(Steps)
      BY FabricFacts
    <2> QED
      BY <2>1, Zenon DEF Fabric, Call
  <1>7. /\ alloc \in Seq(Steps) /\ Len(alloc) = 4
        /\ alloc[1].kind = "call" /\ alloc[2].kind = "call" /\ alloc[3].kind = "call" /\ alloc[4].kind = "call"
        /\ alloc[1].name = "fi_wait_open" /\ alloc[4].name = "fi_av_open"
        /\ alloc[2].name = IF p = "rdm_mbw_mr" THEN "fi_cq_open" ELSE "fi_cntr_open"
        /\ alloc[3].name = IF p = "rdm_mbw_mr" THEN "fi_cq_open" ELSE "fi_cntr_open 2"
        /\ alloc[1].use = {fab} /\ alloc[2].use = {dom} /\ alloc[3].use = {dom} /\ alloc[4].use = {dom}
        /\ alloc[1].make = {waitset} /\ alloc[2].make = {c} /\ alloc[3].make = {d} /\ alloc[4].make = {av}
        /\ alloc[1].drop = <<>> /\ alloc[2].drop = <<>> /\ alloc[3].drop = <<scq(0)>>
        /\ alloc[4].drop = <<rcq(0), scq(0)>>
    <2>1. CASE p = "rdm_mbw_mr"
      <3>1. c = scq(0) /\ d = rcq(0) /\ alloc = AllocCq
        BY <2>1 DEF Sending, Receiving
      <3>2. AllocCq \in Seq(Steps)
        BY <1>2 DEF AllocCq, Call, Steps, Kinds, Names
      <3> QED
        BY <2>1, <3>1, <3>2, Zenon DEF AllocCq, Call
    <2>2. CASE p # "rdm_mbw_mr"
      <3>1. c = scntr /\ d = rcntr /\ alloc = AllocCntr
        BY <2>2 DEF Sending, Receiving
      <3>2. AllocCntr \in Seq(Steps)
        <4>1. scntr \in Handles /\ rcntr \in Handles
          BY CommonHandles
        <4> QED
          <5>1. <<>> \in Seq(Handles) /\ <<scq(0)>> \in Seq(Handles) /\ <<rcq(0), scq(0)>> \in Seq(Handles)
            BY <1>2
          <5>2. /\ Call("fi_wait_open", {fab}, {waitset}, <<>>) \in Steps
                /\ Call("fi_cntr_open", {dom}, {scntr}, <<>>) \in Steps
            BY <1>2, <4>1, <5>1 DEF Call, Steps, Kinds, Names
          <5>3. /\ Call("fi_cntr_open 2", {dom}, {rcntr}, <<scq(0)>>) \in Steps
                /\ Call("fi_av_open", {dom}, {av}, <<rcq(0), scq(0)>>) \in Steps
            BY <1>2, <4>1, <5>1, Zenon DEF Call, Steps, Kinds, Names
          <5> DEFINE w == Call("fi_wait_open", {fab}, {waitset}, <<>>)
                     x == Call("fi_cntr_open", {dom}, {scntr}, <<>>)
                     y == Call("fi_cntr_open 2", {dom}, {rcntr}, <<scq(0)>>)
                     z == Call("fi_av_open", {dom}, {av}, <<rcq(0), scq(0)>>)
          <5>4. AllocCntr = <<w, x, y, z>>
            BY DEF AllocCntr
          <5>5. w \in Steps /\ x \in Steps /\ y \in Steps /\ z \in Steps
            BY <5>2, <5>3, Zenon
          <5> HIDE DEF w, x, y, z
          <5> QED
            BY <5>4, <5>5
      <3> QED
        BY <2>2, <3>1, <3>2, Zenon DEF AllocCntr, Call
    <2> QED
      BY <2>1, <2>2, Zenon
  <1>8. /\ bind \in Seq(Steps) /\ Len(bind) = 1 /\ bind[1].kind = "call" /\ bind[1].name = "fi_ep_bind"
        /\ bind[1].use = {ep(0), av, d, c} /\ bind[1].make = {} /\ bind[1].drop = own
    <2>1. ToSet(MbwComps(p)) = {d, c}
      BY <1>2, Tuple2, MbwDistinct
    <2>2. {ep(0), av} \cup ToSet(MbwComps(p)) = {ep(0), av, d, c}
      BY <2>1
    <2> HIDE DEF own, c, d
    <2> QED
      BY <1>2, <1>3, <2>2 DEF Call, Steps, Kinds, Names
  <1> HIDE DEF e, alloc, own, bind, more, inner, outer, s, c, d
  <1>9. /\ inner \in Seq(Steps) /\ Len(inner) = 5
        /\ inner[1] = alloc[1] /\ inner[2] = alloc[2] /\ inner[3] = alloc[3] /\ inner[4] = alloc[4]
        /\ inner[5] = bind[1]
    <2>1. /\ inner \in Seq(Steps) /\ Len(inner) = Len(alloc) + Len(bind)
          /\ \A k \in 1 .. Len(alloc) : inner[k] = alloc[k]
          /\ \A k \in 1 .. Len(bind) : inner[Len(alloc) + k] = bind[k]
      BY <1>7, <1>8, ConcatStep, Zenon DEF inner
    <2>2. 1 \in 1 .. 4 /\ 2 \in 1 .. 4 /\ 3 \in 1 .. 4 /\ 4 \in 1 .. 4 /\ 1 \in 1 .. 1 /\ 4 + 1 = 5
      OBVIOUS
    <2>3. inner[1] = alloc[1] /\ inner[2] = alloc[2] /\ inner[3] = alloc[3] /\ inner[4] = alloc[4]
      BY <1>7, <2>1, <2>2, Zenon
    <2>4. inner[4 + 1] = bind[1]
      BY <1>7, <1>8, <2>1, <2>2, Zenon
    <2>5. Len(inner) = 4 + 1
      BY <1>7, <1>8, <2>1, Zenon
    <2> QED
      BY <2>1, <2>2, <2>3, <2>4, <2>5, Zenon
  <1>10. /\ outer \in Seq(Steps) /\ Len(outer) = 5
         /\ \A k \in 1 .. 5 :
              /\ outer[k].kind = "call" /\ outer[k].name = inner[k].name
              /\ outer[k].use = inner[k].use /\ outer[k].make = inner[k].make
              /\ outer[k].drop = inner[k].drop \o more
    <2>1. /\ outer \in Seq(Steps) /\ Len(outer) = Len(inner)
          /\ \A k \in 1 .. Len(inner) :
               /\ outer[k].kind = inner[k].kind /\ outer[k].name = inner[k].name
               /\ outer[k].use = inner[k].use /\ outer[k].make = inner[k].make
               /\ inner[k].kind = "call" => outer[k].drop = inner[k].drop \o more
      BY <1>4, <1>9, UnwindingSteps, Zenon DEF outer
    <2>2. /\ inner[1].kind = "call" /\ inner[2].kind = "call" /\ inner[3].kind = "call"
          /\ inner[4].kind = "call" /\ inner[5].kind = "call"
      BY <1>7, <1>8, <1>9, Zenon
    <2>3. \A k \in 1 .. 5 : inner[k].kind = "call"
      BY <2>2
    <2> QED
      BY <1>9, <2>1, <2>3, Zenon
  <1>11. /\ s \in Seq(Steps) /\ Len(s) = 9
         /\ s[1] = Fabric[1] /\ s[2] = Fabric[2] /\ s[3] = Fabric[3] /\ s[4] = e[1]
         /\ s[5] = outer[1] /\ s[6] = outer[2] /\ s[7] = outer[3] /\ s[8] = outer[4] /\ s[9] = outer[5]
    <2> DEFINE t == Fabric \o e
    <2>1. /\ t \in Seq(Steps) /\ Len(t) = Len(Fabric) + Len(e)
          /\ \A k \in 1 .. Len(Fabric) : t[k] = Fabric[k]
          /\ \A k \in 1 .. Len(e) : t[Len(Fabric) + k] = e[k]
      BY <1>5, <1>6, ConcatStep, Zenon
    <2> HIDE DEF t
    <2>2. t \in Seq(Steps) /\ Len(t) = 4 /\ t[1] = Fabric[1] /\ t[2] = Fabric[2] /\ t[3] = Fabric[3] /\ t[4] = e[1]
      BY <1>5, <1>6, <2>1
    <2>3. /\ s \in Seq(Steps) /\ Len(s) = Len(t) + Len(outer)
          /\ \A k \in 1 .. Len(t) : s[k] = t[k]
          /\ \A k \in 1 .. Len(outer) : s[Len(t) + k] = outer[k]
      <3>1. s = t \o outer
        BY <1>1 DEF t
      <3> QED
        BY <1>10, <2>2, <3>1, ConcatStep, Zenon
    <2> QED
      BY <1>10, <2>2, <2>3
  <1>12. ASSUME NEW x \in Seq(Handles), IsInjective(x), ToSet(x) \cap {ep(0), dom, fab} = {}
         PROVE  IsInjective(x \o more) /\ ToSet(x \o more) = ToSet(x) \cup {ep(0), dom, fab}
    BY <1>4, <1>12, ConcatDrops
  <1>13. /\ <<>> \in Seq(Handles) /\ <<scq(0)>> \in Seq(Handles) /\ <<rcq(0), scq(0)>> \in Seq(Handles)
         /\ ToSet(<<>>) = {} /\ ToSet(<<scq(0)>>) = {scq(0)} /\ ToSet(<<rcq(0), scq(0)>>) = {rcq(0), scq(0)}
         /\ IsInjective(<<>>) /\ IsInjective(<<scq(0)>>) /\ IsInjective(<<rcq(0), scq(0)>>)
    BY <1>2, MbwDistinct, Tuple0, Tuple1, Tuple2
  <1>14. /\ ToSet(<<fab>>) = {fab} /\ ToSet(<<dom, fab>>) = {dom, fab}
         /\ IsInjective(<<fab>>) /\ IsInjective(<<dom, fab>>)
    BY MbwDistinct, Tuple1, Tuple2
  <1>15. /\ outer[1].drop = <<>> \o more /\ outer[2].drop = <<>> \o more /\ outer[3].drop = <<scq(0)>> \o more
         /\ outer[4].drop = <<rcq(0), scq(0)>> \o more /\ outer[5].drop = own \o more
    <2>1. 1 \in 1 .. 5 /\ 2 \in 1 .. 5 /\ 3 \in 1 .. 5 /\ 4 \in 1 .. 5 /\ 5 \in 1 .. 5
      OBVIOUS
    <2>2. /\ outer[1].drop = inner[1].drop \o more /\ outer[2].drop = inner[2].drop \o more
          /\ outer[3].drop = inner[3].drop \o more /\ outer[4].drop = inner[4].drop \o more
          /\ outer[5].drop = inner[5].drop \o more
      BY <1>10, <2>1, Zenon
    <2> QED
      BY <1>7, <1>8, <1>9, <2>2, ZenonT(60)
  <1>16. /\ IsInjective(<<>> \o more) /\ ToSet(<<>> \o more) = {ep(0), dom, fab}
         /\ IsInjective(<<scq(0)>> \o more) /\ ToSet(<<scq(0)>> \o more) = {scq(0), ep(0), dom, fab}
         /\ IsInjective(<<rcq(0), scq(0)>> \o more)
         /\ ToSet(<<rcq(0), scq(0)>> \o more) = {rcq(0), scq(0), ep(0), dom, fab}
         /\ IsInjective(own \o more) /\ ToSet(own \o more) = {av, d, c, ep(0), dom, fab}
    <2>1. IsInjective(<<>> \o more) /\ ToSet(<<>> \o more) = {ep(0), dom, fab}
      BY <1>12, <1>13, Zenon
    <2>2. IsInjective(<<scq(0)>> \o more) /\ ToSet(<<scq(0)>> \o more) = {scq(0), ep(0), dom, fab}
      <3>1. {scq(0)} \cap {ep(0), dom, fab} = {}
        BY MbwDistinct
      <3> QED
        BY <1>12, <1>13, <3>1, Zenon
    <2>3. /\ IsInjective(<<rcq(0), scq(0)>> \o more)
          /\ ToSet(<<rcq(0), scq(0)>> \o more) = {rcq(0), scq(0), ep(0), dom, fab}
      <3>1. {rcq(0), scq(0)} \cap {ep(0), dom, fab} = {}
        BY MbwDistinct
      <3> QED
        BY <1>12, <1>13, <3>1, Zenon
    <2>4. IsInjective(own \o more) /\ ToSet(own \o more) = {av, d, c, ep(0), dom, fab}
      <3>1. {av, d, c} \cap {ep(0), dom, fab} = {}
        BY MbwDistinct DEF c, d
      <3> QED
        BY <1>3, <1>12, <3>1, Zenon
    <2> QED
      BY <2>1, <2>2, <2>3, <2>4
  <1>17. /\ outer[1].kind = "call" /\ outer[2].kind = "call" /\ outer[3].kind = "call"
          /\ outer[4].kind = "call" /\ outer[5].kind = "call"
          /\ outer[1].name = alloc[1].name /\ outer[2].name = alloc[2].name /\ outer[3].name = alloc[3].name
          /\ outer[4].name = alloc[4].name /\ outer[5].name = bind[1].name
          /\ outer[1].use = alloc[1].use /\ outer[2].use = alloc[2].use /\ outer[3].use = alloc[3].use
          /\ outer[4].use = alloc[4].use /\ outer[5].use = bind[1].use
          /\ outer[1].make = alloc[1].make /\ outer[2].make = alloc[2].make /\ outer[3].make = alloc[3].make
          /\ outer[4].make = alloc[4].make /\ outer[5].make = bind[1].make
    <2>1. 1 \in 1 .. 5 /\ 2 \in 1 .. 5 /\ 3 \in 1 .. 5 /\ 4 \in 1 .. 5 /\ 5 \in 1 .. 5
      OBVIOUS
    <2> QED
      BY <1>9, <1>10, <2>1
  <1>18. /\ \A k \in 1 .. 9 : s[k].kind = "call"
         /\ s[1].use = {} /\ s[2].use = {} /\ s[3].use = {fab} /\ s[4].use = {dom} /\ s[5].use = {fab}
         /\ s[6].use = {dom} /\ s[7].use = {dom} /\ s[8].use = {dom} /\ s[9].use = {ep(0), av, d, c}
         /\ s[1].make = {} /\ s[2].make = {fab} /\ s[3].make = {dom} /\ s[4].make = {ep(0)}
         /\ s[5].make = {waitset} /\ s[6].make = {c} /\ s[7].make = {d} /\ s[8].make = {av}
         /\ s[9].make = {}
    <2>1. /\ s[1].kind = "call" /\ s[2].kind = "call" /\ s[3].kind = "call" /\ s[4].kind = "call"
          /\ s[5].kind = "call" /\ s[6].kind = "call" /\ s[7].kind = "call" /\ s[8].kind = "call"
          /\ s[9].kind = "call"
      BY <1>5, <1>6, <1>11, <1>17
    <2>2. \A k \in 1 .. 9 : s[k].kind = "call"
      BY <2>1
    <2>3. /\ s[1].use = {} /\ s[2].use = {} /\ s[3].use = {fab} /\ s[4].use = {dom}
          /\ s[1].make = {} /\ s[2].make = {fab} /\ s[3].make = {dom} /\ s[4].make = {ep(0)}
      BY <1>5, <1>6, <1>11, Zenon
    <2>4. /\ s[5].use = {fab} /\ s[6].use = {dom} /\ s[7].use = {dom} /\ s[8].use = {dom}
          /\ s[5].make = {waitset} /\ s[6].make = {c} /\ s[7].make = {d} /\ s[8].make = {av}
      BY <1>7, <1>11, <1>17, Zenon
    <2>5. s[9].use = {ep(0), av, d, c} /\ s[9].make = {}
      BY <1>8, <1>11, <1>17
    <2> QED
      BY <2>2, <2>3, <2>4, <2>5
  <1>19. /\ \A k \in 1 .. 9 : IsInjective(s[k].drop)
         /\ ToSet(s[1].drop) = {} /\ ToSet(s[2].drop) = {} /\ ToSet(s[3].drop) = {fab}
         /\ ToSet(s[4].drop) = {dom, fab} /\ ToSet(s[5].drop) = {ep(0), dom, fab}
         /\ ToSet(s[6].drop) = {ep(0), dom, fab} /\ ToSet(s[7].drop) = {scq(0), ep(0), dom, fab}
         /\ ToSet(s[8].drop) = {rcq(0), scq(0), ep(0), dom, fab}
         /\ ToSet(s[9].drop) = {av, d, c, ep(0), dom, fab}
    <2>1. /\ IsInjective(s[1].drop) /\ IsInjective(s[2].drop) /\ IsInjective(s[3].drop)
          /\ IsInjective(s[4].drop) /\ IsInjective(s[5].drop) /\ IsInjective(s[6].drop)
          /\ IsInjective(s[7].drop) /\ IsInjective(s[8].drop) /\ IsInjective(s[9].drop)
      BY <1>5, <1>6, <1>11, <1>13, <1>14, <1>15, <1>16, ZenonT(60)
    <2>2. \A k \in 1 .. 9 : IsInjective(s[k].drop)
      BY <2>1
    <2>3. /\ ToSet(s[1].drop) = {} /\ ToSet(s[2].drop) = {} /\ ToSet(s[3].drop) = {fab}
          /\ ToSet(s[4].drop) = {dom, fab}
      BY <1>5, <1>6, <1>11, <1>13, <1>14, Zenon
    <2>4. /\ ToSet(s[5].drop) = {ep(0), dom, fab} /\ ToSet(s[6].drop) = {ep(0), dom, fab}
          /\ ToSet(s[7].drop) = {scq(0), ep(0), dom, fab}
          /\ ToSet(s[8].drop) = {rcq(0), scq(0), ep(0), dom, fab}
          /\ ToSet(s[9].drop) = {av, d, c, ep(0), dom, fab}
      BY <1>11, <1>15, <1>16, Zenon
    <2> QED
      BY <2>2, <2>3, <2>4
  <1>20. /\ s[1].name = "fi_getinfo" /\ s[2].name = "fi_fabric" /\ s[3].name = "fi_domain"
         /\ s[4].name = "fi_endpoint" /\ s[5].name = "fi_wait_open"
         /\ s[6].name = IF p = "rdm_mbw_mr" THEN "fi_cq_open" ELSE "fi_cntr_open"
         /\ s[7].name = IF p = "rdm_mbw_mr" THEN "fi_cq_open" ELSE "fi_cntr_open 2"
         /\ s[8].name = "fi_av_open" /\ s[9].name = "fi_ep_bind"
    <2>1. /\ s[1].name = "fi_getinfo" /\ s[2].name = "fi_fabric" /\ s[3].name = "fi_domain"
          /\ s[4].name = "fi_endpoint"
      BY <1>5, <1>6, <1>11
    <2>2. /\ s[5].name = "fi_wait_open" /\ s[8].name = "fi_av_open" /\ s[9].name = "fi_ep_bind"
      BY <1>7, <1>8, <1>11, <1>17, Zenon
    <2>3. s[6].name = IF p = "rdm_mbw_mr" THEN "fi_cq_open" ELSE "fi_cntr_open"
      BY <1>7, <1>11, <1>17, Zenon
    <2>4. s[7].name = IF p = "rdm_mbw_mr" THEN "fi_cq_open" ELSE "fi_cntr_open 2"
      BY <1>7, <1>11, <1>17, Zenon
    <2> QED
      BY <2>1, <2>2, <2>3, <2>4, Zenon
  <1>21. /\ ~Careful(p, s[7]) <=> p = "rdm_mbw_mr_cntr"
         /\ ~Careful(p, s[8]) <=> p = "rdm_mbw_mr_cntr"
         /\ \A k \in 1 .. 9 : k # 7 /\ k # 8 => Careful(p, s[k])
         /\ \A k \in 1 .. 9 : s[k].name \notin {"drc_acquire", "drc_access", "drc_release", "test"}
    <2>1. p # "rdm_mbw_mr_cntr" <=> p = "rdm_mbw_mr"
      OBVIOUS
    <2>2. Careful(p, s[7]) <=> p = "rdm_mbw_mr"
      BY <1>20, <2>1, Zenon DEF Careful
    <2>3. Careful(p, s[8]) <=> p = "rdm_mbw_mr"
      BY <1>20, <2>1, Zenon DEF Careful
    <2>4. /\ Careful(p, s[1]) /\ Careful(p, s[2]) /\ Careful(p, s[3]) /\ Careful(p, s[4]) /\ Careful(p, s[5])
          /\ Careful(p, s[6]) /\ Careful(p, s[9])
      BY <1>20, <2>1, Zenon DEF Careful
    <2>5. \A k \in 1 .. 9 : k # 7 /\ k # 8 => Careful(p, s[k])
      BY <2>4
    <2>6. /\ s[1].name \notin {"drc_acquire", "drc_access", "drc_release", "test"}
          /\ s[2].name \notin {"drc_acquire", "drc_access", "drc_release", "test"}
          /\ s[3].name \notin {"drc_acquire", "drc_access", "drc_release", "test"}
          /\ s[4].name \notin {"drc_acquire", "drc_access", "drc_release", "test"}
          /\ s[5].name \notin {"drc_acquire", "drc_access", "drc_release", "test"}
          /\ s[6].name \notin {"drc_acquire", "drc_access", "drc_release", "test"}
          /\ s[7].name \notin {"drc_acquire", "drc_access", "drc_release", "test"}
          /\ s[8].name \notin {"drc_acquire", "drc_access", "drc_release", "test"}
          /\ s[9].name \notin {"drc_acquire", "drc_access", "drc_release", "test"}
      BY <1>20, Zenon
    <2>7. \A k \in 1 .. 9 : s[k].name \notin {"drc_acquire", "drc_access", "drc_release", "test"}
      BY <2>6
    <2> QED
      BY <2>1, <2>2, <2>3, <2>5, <2>7
  <1> QED
    BY <1>11, <1>18, <1>19, <1>21 DEF s, c, d
(* Its last part: the test, and the closing of everything                  *)
LEMMA MbwTestFacts ==
  ASSUME NEW p \in {"rdm_mbw_mr", "rdm_mbw_mr_cntr"}, NEW A,
         {fab, dom, ep(0), Sending(p), Receiving(p), av, addrs} \subseteq A
  PROVE  LET s == MbwProgram(p)[3].steps
         IN  /\ s \in Seq(Steps) /\ Len(s) = 10 /\ NoCalls(s) /\ Makes(s) = {} /\ Supplied(A, s)
             /\ \A h : h \in Closes(s) <=> h \in {fab, dom, ep(0), Sending(p), Receiving(p), av}
  <1> DEFINE c == Sending(p)
             d == Receiving(p)
             test == Do("test", {ep(0), addrs} \cup ToSet(MbwComps(p)), {}, <<>>)
             x == << Barrier, test, Barrier, Close(av) >>
             y == [k \in 1 .. 2 |-> Close(MbwComps(p)[k])]
             z == << Close(ep(0)), Close(dom), Close(fab), Barrier >>
             s == MbwProgram(p)[3].steps
  <1>1. s = (x \o y) \o z
    BY DEF MbwProgram, Part
  <1>2. /\ fab \in Handles /\ dom \in Handles /\ ep(0) \in Handles /\ c \in Handles /\ d \in Handles
        /\ av \in Handles /\ addrs \in Handles /\ MbwComps(p) = <<d, c>>
    BY MbwHandles
  <1>3. /\ test \in Steps /\ test.kind = "step" /\ test.use = {ep(0), addrs, d, c} /\ test.make = {}
        /\ test.drop = <<>> /\ ToSet(test.drop) = {}
    <2>1. {ep(0), addrs} \cup ToSet(MbwComps(p)) = {ep(0), addrs, d, c}
      BY <1>2, Tuple2, MbwDistinct
    <2>2. <<>> \in Seq(Handles)
      OBVIOUS
    <2> HIDE DEF c, d
    <2> QED
      BY <1>2, <2>1, <2>2, Tuple0 DEF Do, Steps, Kinds, Names
  <1> HIDE DEF test
  <1>4. /\ x \in Seq(Steps) /\ Len(x) = 4
        /\ x[1] = Barrier /\ x[2] = test /\ x[3] = Barrier /\ x[4] = Close(av)
    <2>1. Close(av) \in Steps
      BY <1>2, CloseFacts
    <2> QED
      BY <1>3, <2>1, BarrierFacts
  <1>5. y \in Seq(Steps) /\ Len(y) = 2 /\ y[1] = Close(d) /\ y[2] = Close(c)
    <2>1. MbwComps(p)[1] = d /\ MbwComps(p)[2] = c
      BY <1>2
    <2>2. Close(c) \in Steps /\ Close(d) \in Steps
      BY <1>2, CloseFacts
    <2>3. y[1] = Close(d) /\ y[2] = Close(c)
      BY <2>1
    <2>4. \A k \in 1 .. 2 : Close(MbwComps(p)[k]) \in Steps
      BY <2>1, <2>2
    <2> HIDE DEF c, d
    <2>5. y \in [1 .. 2 -> Steps]
      BY <2>4
    <2> QED
      BY <2>3, <2>5
  <1>6. /\ z \in Seq(Steps) /\ Len(z) = 4
        /\ z[1] = Close(ep(0)) /\ z[2] = Close(dom) /\ z[3] = Close(fab) /\ z[4] = Barrier
    <2>1. Close(ep(0)) \in Steps /\ Close(dom) \in Steps /\ Close(fab) \in Steps
      BY <1>2, CloseFacts
    <2> QED
      BY <2>1, BarrierFacts
  <1> HIDE DEF x, y, z, s, c, d
  <1>7. /\ s \in Seq(Steps) /\ Len(s) = 10
        /\ s[1] = Barrier /\ s[2] = test /\ s[3] = Barrier /\ s[4] = Close(av)
        /\ s[5] = Close(d) /\ s[6] = Close(c)
        /\ s[7] = Close(ep(0)) /\ s[8] = Close(dom) /\ s[9] = Close(fab) /\ s[10] = Barrier
    <2> DEFINE t == x \o y
    <2>1. /\ t \in Seq(Steps) /\ Len(t) = Len(x) + Len(y)
          /\ \A k \in 1 .. Len(x) : t[k] = x[k]
          /\ \A k \in 1 .. Len(y) : t[Len(x) + k] = y[k]
      BY <1>4, <1>5, ConcatStep, Zenon
    <2> HIDE DEF t
    <2>2. t \in Seq(Steps) /\ Len(t) = 6 /\ t[1] = x[1] /\ t[2] = x[2] /\ t[3] = x[3] /\ t[4] = x[4]
      BY <1>4, <1>5, <2>1
    <2>3. t[4 + 1] = y[1] /\ t[4 + 2] = y[2]
      <3>1. 1 \in 1 .. Len(y) /\ 2 \in 1 .. Len(y)
        BY <1>5
      <3> QED
        BY <1>4, <2>1, <3>1
    <2>4. /\ s \in Seq(Steps) /\ Len(s) = Len(t) + Len(z)
          /\ \A k \in 1 .. Len(t) : s[k] = t[k]
          /\ \A k \in 1 .. Len(z) : s[Len(t) + k] = z[k]
      <3>1. s = t \o z
        BY <1>1 DEF t
      <3> QED
        BY <1>6, <2>2, <3>1, ConcatStep, Zenon
    <2>5. /\ s \in Seq(Steps) /\ Len(s) = 10 /\ s[1] = t[1] /\ s[2] = t[2] /\ s[3] = t[3] /\ s[4] = t[4]
          /\ s[5] = t[5] /\ s[6] = t[6]
      BY <1>6, <2>2, <2>4
    <2>6. s[6 + 1] = z[1] /\ s[6 + 2] = z[2] /\ s[6 + 3] = z[3] /\ s[6 + 4] = z[4]
      <3>1. 1 \in 1 .. Len(z) /\ 2 \in 1 .. Len(z) /\ 3 \in 1 .. Len(z) /\ 4 \in 1 .. Len(z)
        BY <1>6
      <3> QED
        BY <2>2, <2>4, <3>1, Zenon
    <2>7. 4 + 1 = 5 /\ 4 + 2 = 6 /\ 6 + 1 = 7 /\ 6 + 2 = 8 /\ 6 + 3 = 9 /\ 6 + 4 = 10
      OBVIOUS
    <2> QED
      BY <1>4, <1>5, <1>6, <2>2, <2>3, <2>5, <2>6, <2>7
  <1>8. /\ Barrier.kind = "barrier" /\ Barrier.use = {} /\ Barrier.make = {}
        /\ \A h \in {fab, dom, ep(0), c, d, av} :
             /\ Close(h).kind = "step" /\ Close(h).use = {h} /\ Close(h).make = {}
             /\ ToSet(Close(h).drop) = {h}
    <2>1. Barrier.kind = "barrier" /\ Barrier.use = {} /\ Barrier.make = {}
      BY DEF Barrier
    <2> QED
      BY <1>2, <2>1, CloseFacts, Zenon
  <1>9. \A k \in 1 .. 10 : s[k].kind # "call" /\ s[k].make = {}
    <2>1. \A k \in 1 .. 10 :
            s[k] = Barrier \/ s[k] = test \/ \E h \in {fab, dom, ep(0), c, d, av} : s[k] = Close(h)
      BY <1>7
    <2> QED
      BY <1>3, <1>8, <2>1, Zenon
  <1>10. NoCalls(s) /\ Makes(s) = {}
    BY <1>7, <1>9 DEF NoCalls, Makes
  <1>11. ASSUME NEW h PROVE h \in Closes(s) <=> h \in {fab, dom, ep(0), c, d, av}
    <2>1. h \in Closes(s) <=> \E k \in 1 .. 10 : s[k].kind = "step" /\ h \in ToSet(s[k].drop)
      BY <1>7 DEF Closes
    <2>2. /\ s[1].kind = "barrier" /\ ToSet(s[2].drop) = {} /\ s[3].kind = "barrier"
          /\ s[4].kind = "step" /\ ToSet(s[4].drop) = {av}
          /\ s[5].kind = "step" /\ ToSet(s[5].drop) = {d}
          /\ s[6].kind = "step" /\ ToSet(s[6].drop) = {c}
          /\ s[7].kind = "step" /\ ToSet(s[7].drop) = {ep(0)}
          /\ s[8].kind = "step" /\ ToSet(s[8].drop) = {dom}
          /\ s[9].kind = "step" /\ ToSet(s[9].drop) = {fab}
          /\ s[10].kind = "barrier"
      BY <1>3, <1>7, <1>8
    <2>3. ASSUME NEW k \in 1 .. 10, s[k].kind = "step", h \in ToSet(s[k].drop)
          PROVE  h \in {fab, dom, ep(0), c, d, av}
      BY <2>2, <2>3
    <2>4. ASSUME h \in {fab, dom, ep(0), c, d, av}
          PROVE  \E k \in 1 .. 10 : s[k].kind = "step" /\ h \in ToSet(s[k].drop)
      BY <2>2, <2>4
    <2> QED
      BY <2>1, <2>3, <2>4
  <1>12. Supplied(A, s)
    <2>1. \A h, k : k \in 1 .. 4 => ~Closed(h, s, k)
      <3>1. s[1].kind = "barrier" /\ s[3].kind = "barrier" /\ ToSet(s[2].drop) = {}
        BY <1>3, <1>7, <1>8
      <3>2. ASSUME NEW h, NEW k \in 1 .. 4, NEW j \in 1 .. k - 1 PROVE ~(s[j].kind = "step" /\ h \in ToSet(s[j].drop))
        <4>1. j = 1 \/ j = 2 \/ j = 3
          OBVIOUS
        <4> QED
          BY <3>1, <4>1
      <3> QED
        BY <3>2 DEF Closed
    <2>2. /\ ToSet(s[1].drop) \cap {ep(0), dom, fab} = {} \/ s[1].kind # "step"
          /\ s[3].kind # "step" /\ ToSet(s[2].drop) = {} /\ s[1].kind # "step"
          /\ ToSet(s[4].drop) = {av} /\ ToSet(s[5].drop) = {d} /\ ToSet(s[6].drop) = {c}
          /\ ToSet(s[7].drop) = {ep(0)} /\ ToSet(s[8].drop) = {dom}
      BY <1>3, <1>7, <1>8
    <2>3. /\ s[1].use = {} /\ s[2].use = {ep(0), addrs, d, c} /\ s[3].use = {} /\ s[4].use = {av}
          /\ s[5].use = {d} /\ s[6].use = {c} /\ s[7].use = {ep(0)} /\ s[8].use = {dom} /\ s[9].use = {fab}
          /\ s[10].use = {}
      BY <1>3, <1>7, <1>8
    <2>4. \A k \in 1 .. 10 : s[k].use \subseteq A
      BY <2>3 DEF c, d
    <2>5. ASSUME NEW k \in 5 .. 9, NEW h \in s[k].use, NEW j \in 1 .. k - 1
          PROVE  ~(s[j].kind = "step" /\ h \in ToSet(s[j].drop))
      <3>1. c # d /\ av # c /\ av # d
        BY MbwDistinct DEF c, d
      <3>2. \A g \in {fab, dom, ep(0)} : g # c /\ g # d /\ g # av
        BY MbwDistinct DEF c, d
      <3>3. fab # dom /\ fab # ep(0) /\ dom # ep(0)
        BY MbwDistinct
      <3>4. j \in 1 .. 8
        OBVIOUS
      <3>5. CASE k = 5
        <4>1. j = 1 \/ j = 2 \/ j = 3 \/ j = 4
          BY <3>5
        <4> QED
          BY <2>2, <2>3, <3>1, <3>2, <3>5, <4>1, <2>5
      <3>6. CASE k = 6
        <4>1. j = 1 \/ j = 2 \/ j = 3 \/ j = 4 \/ j = 5
          BY <3>6
        <4> QED
          BY <2>2, <2>3, <3>1, <3>2, <3>6, <4>1, <2>5
      <3>7. CASE k = 7
        <4>1. j = 1 \/ j = 2 \/ j = 3 \/ j = 4 \/ j = 5 \/ j = 6
          BY <3>7
        <4> QED
          BY <2>2, <2>3, <3>2, <3>3, <3>7, <4>1, <2>5
      <3>8. CASE k = 8
        <4>1. j = 1 \/ j = 2 \/ j = 3 \/ j = 4 \/ j = 5 \/ j = 6 \/ j = 7
          BY <3>8
        <4> QED
          BY <2>2, <2>3, <3>2, <3>3, <3>8, <4>1, <2>5
      <3>9. CASE k = 9
        <4>1. j = 1 \/ j = 2 \/ j = 3 \/ j = 4 \/ j = 5 \/ j = 6 \/ j = 7 \/ j = 8
          BY <3>9
        <4> QED
          BY <2>2, <2>3, <3>2, <3>3, <3>9, <4>1, <2>5
      <3> QED
        BY <3>5, <3>6, <3>7, <3>8, <3>9
    <2>6. ASSUME NEW k \in 1 .. 10, NEW h \in s[k].use PROVE ~Closed(h, s, k)
      <3>1. CASE k \in 1 .. 4
        BY <2>1, <3>1
      <3>2. CASE k \in 5 .. 9
        BY <2>5, <3>2 DEF Closed
      <3>3. CASE k = 10
        BY <2>3, <3>3
      <3> QED
        BY <3>1, <3>2, <3>3
    <2> QED
      BY <1>7, <2>4, <2>6 DEF Supplied
  <1> QED
    BY <1>7, <1>10, <1>11, <1>12 DEF s, c, d
(* Its first part                                                          *)
LEMMA MbwFabricFacts ==
  ASSUME NEW p \in {"rdm_mbw_mr", "rdm_mbw_mr_cntr"}
  PROVE  LET s == MbwFabric(p)
         IN  /\ s \in Seq(Steps) /\ Len(s) = 9 /\ Opening(s) /\ Supplied({}, s)
             /\ Makes(s) = {fab, dom, ep(0), waitset, Sending(p), Receiving(p), av}
             /\ \A k \in 1 .. 9 : Careful(p, s[k]) => ClosesItsOwn(s, k)
             /\ FirstThorough(p, s)
  <1> DEFINE s == MbwFabric(p)
             c == Sending(p)
             d == Receiving(p)
  <1> HIDE DEF s, c, d
  <1>1. s \in Seq(Steps) /\ Len(s) = 9 /\ \A k \in 1 .. 9 : s[k].kind = "call" /\ IsInjective(s[k].drop)
    BY MbwFabricSteps DEF s
  <1>2. /\ s[1].use = {} /\ s[2].use = {} /\ s[3].use = {fab} /\ s[4].use = {dom} /\ s[5].use = {fab}
        /\ s[6].use = {dom} /\ s[7].use = {dom} /\ s[8].use = {dom} /\ s[9].use = {ep(0), av, d, c}
        /\ s[1].make = {} /\ s[2].make = {fab} /\ s[3].make = {dom} /\ s[4].make = {ep(0)}
        /\ s[5].make = {waitset} /\ s[6].make = {c} /\ s[7].make = {d} /\ s[8].make = {av}
        /\ s[9].make = {}
    BY MbwFabricSteps DEF s, c, d
  <1>3. /\ ToSet(s[1].drop) = {} /\ ToSet(s[2].drop) = {} /\ ToSet(s[3].drop) = {fab}
        /\ ToSet(s[4].drop) = {dom, fab} /\ ToSet(s[5].drop) = {ep(0), dom, fab}
        /\ ToSet(s[6].drop) = {ep(0), dom, fab} /\ ToSet(s[7].drop) = {scq(0), ep(0), dom, fab}
        /\ ToSet(s[8].drop) = {rcq(0), scq(0), ep(0), dom, fab}
        /\ ToSet(s[9].drop) = {av, d, c, ep(0), dom, fab}
    BY MbwFabricSteps DEF s, c, d
  <1>4. /\ ~Careful(p, s[7]) <=> p = "rdm_mbw_mr_cntr"
        /\ ~Careful(p, s[8]) <=> p = "rdm_mbw_mr_cntr"
        /\ \A k \in 1 .. 9 : k # 7 /\ k # 8 => Careful(p, s[k])
    BY MbwFabricSteps, Zenon DEF s
  <1>5. waitset \in Kept /\ scq(0) \notin Kept
    BY MbwHandles
  <1>6. Opening(s)
    BY <1>1 DEF Opening
  <1>7. \A h : h \in Makes(s) <=> h \in {fab, dom, ep(0), waitset, c, d, av}
    BY <1>1, <1>2 DEF Makes
  <1>8. /\ \A h : ~Made(h, s, 1) /\ ~Made(h, s, 2)
        /\ \A h : Made(h, s, 3) <=> h = fab
        /\ \A h : Made(h, s, 4) <=> h \in {fab, dom}
        /\ \A h : Made(h, s, 5) <=> h \in {fab, dom, ep(0)}
        /\ \A h : Made(h, s, 6) <=> h \in {fab, dom, ep(0), waitset}
        /\ \A h : Made(h, s, 7) <=> h \in {fab, dom, ep(0), waitset, c}
        /\ \A h : Made(h, s, 8) <=> h \in {fab, dom, ep(0), waitset, c, d}
        /\ \A h : Made(h, s, 9) <=> h \in {fab, dom, ep(0), waitset, c, d, av}
    <2>1. ASSUME NEW h PROVE ~Made(h, s, 1) /\ ~Made(h, s, 2)
      BY <1>2 DEF Made
    <2>2. ASSUME NEW h PROVE Made(h, s, 3) <=> h = fab
      BY <1>2 DEF Made
    <2>3. ASSUME NEW h PROVE Made(h, s, 4) <=> h \in {fab, dom}
      BY <1>2 DEF Made
    <2>4. ASSUME NEW h PROVE Made(h, s, 5) <=> h \in {fab, dom, ep(0)}
      BY <1>2 DEF Made
    <2>5. ASSUME NEW h PROVE Made(h, s, 6) <=> h \in {fab, dom, ep(0), waitset}
      BY <1>2 DEF Made
    <2>6. ASSUME NEW h PROVE Made(h, s, 7) <=> h \in {fab, dom, ep(0), waitset, c}
      BY <1>2 DEF Made
    <2>7. ASSUME NEW h PROVE Made(h, s, 8) <=> h \in {fab, dom, ep(0), waitset, c, d}
      BY <1>2 DEF Made
    <2>8. ASSUME NEW h PROVE Made(h, s, 9) <=> h \in {fab, dom, ep(0), waitset, c, d, av}
      BY <1>2 DEF Made
    <2> QED
      BY <2>1, <2>2, <2>3, <2>4, <2>5, <2>6, <2>7, <2>8
  <1>9. \A k \in 1 .. 9 : k = 1 \/ k = 2 \/ k = 3 \/ k = 4 \/ k = 5 \/ k = 6 \/ k = 7 \/ k = 8 \/ k = 9
    OBVIOUS
  <1>10. Supplied({}, s)
    <2> SUFFICES ASSUME NEW k \in 1 .. 9, NEW h \in s[k].use PROVE Made(h, s, k)
      BY <1>1, <1>6, OpeningCloses, Zenon DEF Supplied
    <2>1. CASE k \in {1, 2, 3, 4, 5}
      BY <1>2, <1>8, <2>1
    <2>2. CASE k \in {6, 7, 8, 9}
      BY <1>2, <1>8, <2>2
    <2> QED
      BY <1>9, <2>1, <2>2
  <1>11. ASSUME NEW k \in 1 .. 9, Careful(p, s[k]) PROVE ClosesItsOwn(s, k)
    <2> SUFFICES ASSUME NEW h \in ToSet(s[k].drop) PROVE h \in s[k].use \/ Made(h, s, k)
      BY <1>1 DEF ClosesItsOwn
    <2>1. CASE k \in {1, 2, 3, 4, 5}
      BY <1>3, <1>8, <2>1
    <2>2. CASE k \in {6, 9}
      BY <1>3, <1>8, <2>2
    <2>3. CASE k \in {7, 8}
      <3>1. p = "rdm_mbw_mr"
        BY <1>4, <1>11, <2>3
      <3>2. c = scq(0) /\ d = rcq(0)
        BY <3>1 DEF c, d, Sending, Receiving
      <3> QED
        BY <1>3, <1>8, <2>3, <3>2
    <2> QED
      BY <1>9, <2>1, <2>2, <2>3
  <1>12. ASSUME NEW k \in 1 .. 9
         PROVE  IF Careful(p, s[k])
                  THEN \A h : Made(h, s, k) => h \in Kept \/ h \in ToSet(s[k].drop)
                  ELSE \E h \in ToSet(s[k].drop) : h \notin Kept /\ ~Made(h, s, k)
    <2>1. CASE k \in {1, 2, 3, 4, 5}
      BY <1>3, <1>4, <1>8, <2>1
    <2>2. CASE k \in {6, 9}
      BY <1>3, <1>4, <1>5, <1>8, <2>2
    <2>3. CASE k \in {7, 8}
      <3>1. CASE p = "rdm_mbw_mr"
        <4>1. c = scq(0) /\ d = rcq(0)
          BY <3>1 DEF c, d, Sending, Receiving
        <4> QED
          BY <1>3, <1>4, <1>5, <1>8, <2>3, <3>1, <4>1
      <3>2. CASE p = "rdm_mbw_mr_cntr"
        <4>1. scq(0) \notin {fab, dom, ep(0), waitset, c, d}
          BY <3>2, MbwDistinct DEF c, d
        <4>2. scq(0) \in ToSet(s[k].drop)
          BY <1>3, <2>3
        <4>3. ~Made(scq(0), s, k)
          BY <1>8, <2>3, <4>1
        <4>4. ~Careful(p, s[k])
          BY <1>4, <2>3, <3>2
        <4> QED
          BY <1>5, <4>2, <4>3, <4>4
      <3> QED
        BY <3>1, <3>2
    <2> QED
      BY <1>9, <2>1, <2>2, <2>3
  <1>13. FirstThorough(p, s)
    BY <1>1, <1>12 DEF FirstThorough
  <1>14. Makes(s) = {fab, dom, ep(0), waitset, c, d, av}
    BY <1>7
  <1> QED
    BY <1>1, <1>6, <1>10, <1>11, <1>13, <1>14 DEF s, c, d

(* rdm_mbw_mr is sound, with queues and with counters.                     *)
LEMMA MbwProgramFacts ==
  ASSUME NEW p \in {"rdm_mbw_mr", "rdm_mbw_mr_cntr"}
  PROVE  Sound(p, MbwProgram(p))
  <1> DEFINE P == MbwProgram(p)
             a == MbwFabric(p)
             b == InitAv("name", ep(0), av, addrs)
             z == P[3].steps
             A == {fab, dom, ep(0), Sending(p), Receiving(p), av, addrs}
  <1>1. /\ Len(P) = 3 /\ P[1] = Part("leave", a) /\ P[2] = Part("leave", b) /\ P[3] = Part("abort", z)
    BY Zenon DEF MbwProgram, Part
  <1>2. /\ a \in Seq(Steps) /\ Len(a) = 9 /\ Opening(a) /\ Supplied({}, a)
        /\ Makes(a) = {fab, dom, ep(0), waitset, Sending(p), Receiving(p), av}
        /\ \A k \in 1 .. 9 : Careful(p, a[k]) => ClosesItsOwn(a, k)
        /\ FirstThorough(p, a)
    BY MbwFabricFacts
  <1>3. /\ b \in Seq(Steps) /\ Len(b) = 3 /\ Opening(b) /\ Supplied({ep(0), av}, b) /\ Neat({}, b)
        /\ \A h : h \in Makes(b) <=> h = addrs
    <2>1. "name" \in Names \ {"drc_acquire", "drc_access", "drc_release"} /\ ep(0) \in Handles /\ av \in Handles /\ addrs \in Handles
      BY MbwHandles DEF Names
    <2>2. Len(b) = 3
      BY DEF InitAv
    <2> HIDE DEF b
    <2> QED
      BY <2>1, <2>2, InitAvFacts, Zenon DEF b
  <1>4. /\ z \in Seq(Steps) /\ Len(z) = 10 /\ NoCalls(z) /\ Makes(z) = {}
        /\ \A h : h \in Closes(z) <=> h \in {fab, dom, ep(0), Sending(p), Receiving(p), av}
    BY MbwTestFacts, Zenon
  <1>5. \A B : A \subseteq B => Supplied(B, z)
    BY MbwTestFacts
  <1> HIDE DEF P, a, b, z
  <1>6. /\ P[1].on_error = "leave" /\ P[2].on_error = "leave" /\ P[3].on_error = "abort"
        /\ P[1].steps = a /\ P[2].steps = b /\ P[3].steps = z
    BY <1>1 DEF Part
  <1>7. P \in Seq(Parts)
    <2>1. Part("leave", a) \in Parts /\ Part("leave", b) \in Parts /\ Part("abort", z) \in Parts
      BY <1>2, <1>3, <1>4 DEF Part, Parts
    <2>2. P = <<Part("leave", a), Part("leave", b), Part("abort", z)>>
      BY Zenon DEF P, a, b, z, MbwProgram, Part
    <2> QED
      BY <2>1, <2>2
  <1>8. \A i \in 1 .. 3 : i = 1 \/ i = 2 \/ i = 3
    OBVIOUS
  <1>9. \A h : h \in Makes(a) => h \in Before(P, 2)
    BY <1>6 DEF Before
  <1>10. \A h : h \in Makes(a) \/ h \in Makes(b) => h \in Before(P, 3)
    BY <1>6 DEF Before
  <1>11. Supplied(Before(P, 1), a) /\ Supplied(Before(P, 2), b) /\ Supplied(Before(P, 3), z)
    <2>1. Supplied(Before(P, 1), a)
      BY <1>2, Monotone
    <2>2. Supplied(Before(P, 2), b)
      <3>1. {ep(0), av} \subseteq Before(P, 2)
        BY <1>2, <1>9
      <3> QED
        BY <1>3, <3>1, Monotone
    <2>3. Supplied(Before(P, 3), z)
      <3>1. A \subseteq Before(P, 3)
        BY <1>2, <1>3, <1>10
      <3> QED
        BY <1>5, <3>1
    <2> QED
      BY <2>1, <2>2, <2>3
  <1>12. Makes(a) \subseteq Kept \cup Closes(z) /\ Makes(b) \subseteq Kept \cup Closes(z)
    <2>1. waitset \in Kept /\ addrs \in Kept
      BY MbwHandles
    <2> QED
      BY <1>2, <1>3, <1>4, <2>1
  <1>13. Ordered(a) /\ Ordered(b) /\ Ordered(z) /\ EndsClosed(z)
    BY <1>2, <1>3, <1>4, OrderedFacts
  <1>14. WellMade(P)
    <2>1. \A i \in 1 .. Len(P) :
            Len(P[i].steps) > 0 /\ Ordered(P[i].steps) /\ Supplied(Before(P, i), P[i].steps)
      <3>1. Len(a) > 0 /\ Len(b) > 0 /\ Len(z) > 0
        BY <1>2, <1>3, <1>4
      <3>2. \A i \in 1 .. Len(P) : i = 1 \/ i = 2 \/ i = 3
        BY <1>1, <1>8
      <3> QED
        BY <1>6, <1>11, <1>13, <3>1, <3>2
    <2>2. \A i \in 1 .. Len(P) - 1 :
            Opening(P[i].steps) /\ Makes(P[i].steps) \subseteq Kept \cup Closes(P[Len(P)].steps)
      <3>1. \A i \in 1 .. Len(P) - 1 : i = 1 \/ i = 2
        BY <1>1
      <3> QED
        BY <1>1, <1>2, <1>3, <1>6, <1>12, <3>1, Zenon
    <2> QED
      BY <1>1, <1>6, <1>7, <1>13, <2>1, <2>2 DEF WellMade
  <1>15. ASSUME NEW i \in 1 .. Len(P), NEW k \in 1 .. Len(P[i].steps), P[i].steps[k].kind = "call",
                Careful(p, P[i].steps[k])
         PROVE  ClosesItsOwn(P[i].steps, k)
    <2>1. CASE i = 1
      BY <1>2, <1>6, <1>15, <2>1, Zenon
    <2>2. CASE i = 2
      BY <1>3, <1>6, <1>15, <2>2, NeatFacts
    <2>3. CASE i = 3
      BY <1>4, <1>6, <1>15, <2>3, Zenon DEF NoCalls
    <2> QED
      BY <1>1, <1>8, <2>1, <2>2, <2>3
  <1>16. \A i \in 1 .. Len(P) : P[i].on_error # "next"
    BY <1>1, <1>6, <1>8
  <1>17. auth_mr \notin Closes(P[Len(P)].steps)
    <2>1. auth_mr \notin {fab, dom, ep(0), Sending(p), Receiving(p), av}
      BY DEF auth_mr, fab, dom, ep, Sending, Receiving, scq, rcq, scntr, rcntr, av
    <2> QED
      BY <1>1, <1>4, <1>6, <2>1
  <1> QED
    BY <1>2, <1>6, <1>14, <1>15, <1>16, <1>17 DEF Sound, P
-----------------------------------------------------------------------------
(* random_access and auth_key_test                                         *)

PeerHandles == UNION {{ep(q), scq(q), rcq(q)} : q \in Ranks}

(* Ranks are counted from 0, peers in sequences from 1.                    *)
LEMMA RankFacts ==
  /\ num_ranks \in Nat \ {0} /\ 0 \in Ranks
  /\ \A m \in 1 .. num_ranks : m - 1 \in Nat /\ m - 1 \in Ranks
  /\ \A q \in Ranks : q \in Nat /\ q + 1 \in 1 .. num_ranks /\ (q + 1) - 1 = q
  BY SizesAssumption DEF Ranks

(* init_gnix_prov makes an endpoint with two queues for every peer,        *)
LEMMA PeerEndpointsFacts ==
  LET s == PeerEndpoints
  IN  /\ s \in Seq(Steps) /\ Opening(s) /\ Local(s) /\ Only({"call"}, s)
      /\ \A h : h \in Makes(s) <=> h \in PeerHandles
      /\ Supplied({dom, av}, s) /\ Neat({}, s)
  <1> DEFINE ss == [q \in 1 .. num_ranks |-> PeerEndpoint(q - 1)]
             s == PeerEndpoints
             n == num_ranks
  <1>1. n \in Nat \ {0} /\ \A m \in 1 .. n : m - 1 \in Nat
    BY RankFacts
  <1>2. s = FlattenSeq(ss)
    BY DEF PeerEndpoints
  <1>3. \A m \in 1 .. n : ss[m] = PeerEndpoint(m - 1)
    OBVIOUS
  <1>4. ss \in [1 .. n -> Seq(Steps)]
    BY <1>1, PeerEndpointFacts
  <1> HIDE DEF ss, s
  <1>5. ASSUME NEW m \in 1 .. n
        PROVE  /\ Opening(ss[m]) /\ Local(ss[m]) /\ Only({"call"}, ss[m]) /\ Supplied({dom, av}, ss[m])
               /\ Neat({}, ss[m]) /\ Makes(ss[m]) = {ep(m - 1), scq(m - 1), rcq(m - 1)}
    BY <1>1, <1>3, PeerEndpointFacts, Zenon
  <1>6. s \in Seq(Steps) /\ Opening(s) /\ Local(s)
    BY <1>1, <1>2, <1>4, <1>5, FlattenPlain, Zenon
  <1>7. Only({"call"}, s)
    BY <1>1, <1>2, <1>4, <1>5, FlattenPlain, Zenon
  <1>8. \A m \in 1 .. n : \A i \in 1 .. m - 1 : Closes(ss[i]) \cap Uses(ss[m]) = {}
    <2> SUFFICES ASSUME NEW m \in 1 .. n, NEW i \in 1 .. m - 1 PROVE Closes(ss[i]) = {}
      OBVIOUS
    <2>1. i \in 1 .. n
      BY <1>1
    <2> QED
      BY <1>5, <2>1, OpeningCloses
  <1>9. Supplied({dom, av}, s)
    BY <1>1, <1>2, <1>4, <1>5, <1>8, FlattenSupplied, Zenon
  <1>10. Neat({}, s)
    BY <1>1, <1>2, <1>4, <1>5, FlattenNeat, Zenon
  <1>11. ASSUME NEW h PROVE h \in Makes(s) <=> h \in PeerHandles
    <2>1. h \in Makes(s) <=> \E m \in 1 .. n : h \in Makes(ss[m])
      BY <1>1, <1>2, <1>4, FlattenPlain, Zenon
    <2>2. ASSUME NEW m \in 1 .. n, h \in Makes(ss[m]) PROVE h \in PeerHandles
      BY <1>5, <2>2, RankFacts, Zenon DEF PeerHandles
    <2>3. ASSUME h \in PeerHandles PROVE \E m \in 1 .. n : h \in Makes(ss[m])
      <3>1. PICK q \in Ranks : h \in {ep(q), scq(q), rcq(q)}
        BY <2>3 DEF PeerHandles
      <3>2. q + 1 \in 1 .. n /\ (q + 1) - 1 = q
        BY RankFacts
      <3>3. Makes(ss[q + 1]) = {ep(q), scq(q), rcq(q)}
        BY <1>5, <3>2
      <3> QED
        BY <3>1, <3>2, <3>3
    <2> QED
      BY <2>1, <2>2, <2>3
  <1> QED
    BY <1>6, <1>7, <1>9, <1>10, <1>11 DEF s

(* init_gnix_prov                                                          *)
LEMMA InitProvFacts ==
  LET s == InitProv.steps
  IN  /\ s \in Seq(Steps) /\ Len(s) > 4 /\ Opening(s) /\ Local(s)
      /\ \A k \in 1 .. Len(s) : s[k].kind = IF k = Len(s) - 1 THEN "gather" ELSE "call"
      /\ \A h : h \in Makes(s) <=> h \in {fab, dom, av, addrs} \cup PeerHandles
      /\ Supplied({}, s) /\ Neat({}, s)
  <1> DEFINE b == << Call("fi_av_open", {dom}, {av}, <<>>) >>
             c == PeerEndpoints
             d == InitAv("name", ep(0), av, addrs)
             s == InitProv.steps
  <1>1. s = ((Fabric \o b) \o c) \o d
    BY DEF InitProv, Part
  <1>2. /\ Fabric \in Seq(Steps) /\ Opening(Fabric) /\ Local(Fabric) /\ Only({"call"}, Fabric)
        /\ Makes(Fabric) = {fab, dom} /\ Supplied({}, Fabric) /\ Neat({}, Fabric)
    BY FabricFacts
  <1>3. /\ b \in Seq(Steps) /\ Len(b) = 1 /\ Opening(b) /\ Local(b) /\ Only({"call"}, b) /\ Makes(b) = {av}
        /\ Supplied({dom}, b) /\ Neat({}, b)
    <2> DEFINE x == Call("fi_av_open", {dom}, {av}, <<>>)
    <2>1. <<>> \in Seq(Handles) /\ dom \in Handles /\ av \in Handles
      BY CommonHandles
    <2>2. x \in Steps
      BY <2>1 DEF Call, Steps, Kinds, Names
    <2>3. /\ x.kind = "call" /\ x.use = {dom} /\ x.make = {av} /\ x.drop = <<>> /\ ToSet(x.drop) = {}
          /\ IsInjective(x.drop) /\ x.name = "fi_av_open"
      BY Tuple0 DEF Call
    <2>4. b = <<x>>
      OBVIOUS
    <2> HIDE DEF x, b
    <2>5. b \in Seq(Steps) /\ Len(b) = 1 /\ Opening(b) /\ Local(b) /\ Makes(b) = {av}
      BY <2>2, <2>3, <2>4, Single
    <2>6. Only({"call"}, b)
      BY <2>2, <2>3, <2>4, Single
    <2>7. Supplied({dom}, b)
      BY <2>2, <2>3, <2>4, Single
    <2>8. Neat({}, b)
      <3>1. IsInjective(x.drop) /\ ToSet(x.drop) \subseteq {dom} \cup x.use
        BY <2>3
      <3>2. x.drop = <<>> /\ ToSet(x.drop) = {} /\ Len(b) = 1 /\ b[1] = x
        BY <2>2, <2>3, <2>4, Single
      <3> QED
        BY <3>1, <3>2 DEF Neat
    <2> QED
      BY <2>5, <2>6, <2>7, <2>8
  <1>4. /\ c \in Seq(Steps) /\ Opening(c) /\ Local(c) /\ Only({"call"}, c)
        /\ (\A h : h \in Makes(c) <=> h \in PeerHandles)
        /\ Supplied({dom, av}, c) /\ Neat({}, c)
    BY PeerEndpointsFacts
  <1>5. /\ d \in Seq(Steps) /\ Opening(d) /\ Local(d) /\ (\A h : h \in Makes(d) <=> h = addrs)
        /\ Supplied({ep(0), av}, d) /\ Neat({}, d)
        /\ Len(d) = 3 /\ d[1].kind = "call" /\ d[2].kind = "gather" /\ d[3].kind = "call"
    <2>1. /\ "name" \in Names \ {"drc_acquire", "drc_access", "drc_release"}
          /\ ep(0) \in Handles /\ av \in Handles /\ addrs \in Handles
      BY MbwHandles DEF Names
    <2>2. Len(d) = 3 /\ d[1].kind = "call" /\ d[2].kind = "gather" /\ d[3].kind = "call"
      BY DEF InitAv, Call, Gather
    <2>3. d \in Seq(Steps) /\ Opening(d) /\ Local(d) /\ Supplied({ep(0), av}, d) /\ Neat({}, d)
      BY <2>1, InitAvFacts, Zenon
    <2>4. \A h : h \in Makes(d) <=> h = addrs
      BY <2>1, InitAvFacts, Zenon
    <2> HIDE DEF d
    <2> QED
      BY <2>2, <2>3, <2>4
  <1>6. Len(Fabric) = 3
    BY DEF Fabric
  <1> DEFINE u == Fabric \o b
             v == u \o c
  <1> HIDE DEF b, c, d, s
  <1>7. /\ u \in Seq(Steps) /\ Len(u) = 4 /\ Opening(u) /\ Local(u) /\ Only({"call"}, u)
        /\ Makes(u) = {fab, dom, av} /\ Supplied({}, u) /\ Neat({}, u)
    <2>1. u \in Seq(Steps) /\ Len(u) = Len(Fabric) + Len(b)
      BY <1>2, <1>3, ConcatStep, Zenon
    <2>2. Opening(u) /\ Local(u) /\ Only({"call"}, u)
      BY <1>2, <1>3, ConcatPlain
    <2>3. Makes(u) = Makes(Fabric) \cup Makes(b)
      BY <1>2, <1>3, ConcatSets
    <2>4. Supplied({}, u)
      <3>1. Supplied({} \cup Makes(Fabric), b)
        BY <1>2, <1>3, Monotone
      <3>2. Closes(Fabric) = {}
        BY <1>2, OpeningCloses
      <3> QED
        BY <1>2, <1>3, <3>1, <3>2, ConcatSupplied
    <2>5. Neat({}, u)
      <3>1. Neat({} \cup Uses(Fabric) \cup Makes(Fabric), b)
        BY <1>3, NeatAnywhere
      <3> QED
        BY <1>2, <1>3, <3>1, ConcatNeat
    <2>6. Makes(u) = {fab, dom, av}
      BY <1>2, <1>3, <2>3
    <2>7. Len(u) = 4
      BY <1>3, <1>6, <2>1
    <2> HIDE DEF u
    <2> QED
      BY <2>1, <2>2, <2>4, <2>5, <2>6, <2>7, Zenon
  <1> HIDE DEF u
  <1>8. /\ v \in Seq(Steps) /\ Len(v) \in Nat /\ Len(v) > 3 /\ Opening(v) /\ Local(v) /\ Only({"call"}, v)
        /\ (\A h : h \in Makes(v) <=> h \in {fab, dom, av} \cup PeerHandles)
        /\ Supplied({}, v) /\ Neat({}, v)
    <2>1. v \in Seq(Steps) /\ Len(v) = Len(u) + Len(c) /\ Len(c) \in Nat
      BY <1>4, <1>7, ConcatStep, Zenon
    <2>2. Opening(v) /\ Local(v) /\ Only({"call"}, v)
      BY <1>4, <1>7, ConcatPlain
    <2>3. Makes(v) = Makes(u) \cup Makes(c)
      BY <1>4, <1>7, ConcatSets
    <2>4. Supplied({}, v)
      <3>1. Supplied({} \cup Makes(u), c)
        BY <1>4, <1>7, Monotone
      <3>2. Closes(u) = {}
        BY <1>7, OpeningCloses
      <3> QED
        BY <1>4, <1>7, <3>1, <3>2, ConcatSupplied
    <2>5. Neat({}, v)
      <3>1. Neat({} \cup Uses(u) \cup Makes(u), c)
        BY <1>4, NeatAnywhere
      <3> QED
        BY <1>4, <1>7, <3>1, ConcatNeat
    <2> HIDE DEF v
    <2>6. \A h : h \in Makes(v) <=> h \in {fab, dom, av} \cup PeerHandles
      BY <1>4, <1>7, <2>3
    <2>7. Len(v) \in Nat /\ Len(v) > 3
      BY <1>7, <2>1
    <2> QED
      BY <2>1, <2>2, <2>4, <2>5, <2>6, <2>7
  <1>9. s = v \o d
    BY <1>1 DEF u
  <1> HIDE DEF v
  <1>10. /\ s \in Seq(Steps) /\ Len(s) = Len(v) + 3
         /\ \A k \in 1 .. Len(v) : s[k] = v[k]
         /\ \A k \in 1 .. 3 : s[Len(v) + k] = d[k]
    <2>1. /\ v \o d \in Seq(Steps) /\ Len(v \o d) = Len(v) + Len(d)
          /\ \A k \in 1 .. Len(v) : (v \o d)[k] = v[k]
          /\ \A k \in 1 .. Len(d) : (v \o d)[Len(v) + k] = d[k]
      BY <1>5, <1>8, ConcatStep, Zenon
    <2> QED
      BY <1>5, <1>9, <2>1
  <1>11. \A k \in 1 .. Len(s) : s[k].kind = IF k = Len(s) - 1 THEN "gather" ELSE "call"
    <2> SUFFICES ASSUME NEW k \in 1 .. Len(s)
                 PROVE  s[k].kind = IF k = Len(s) - 1 THEN "gather" ELSE "call"
      OBVIOUS
    <2>1. CASE k \in 1 .. Len(v)
      BY <1>8, <1>10, <2>1 DEF Only
    <2>2. CASE k = Len(v) + 1
      BY <1>5, <1>8, <1>10, <2>2
    <2>3. CASE k = Len(v) + 2
      BY <1>5, <1>8, <1>10, <2>3
    <2>4. CASE k = Len(v) + 3
      BY <1>5, <1>8, <1>10, <2>4
    <2>5. k \in 1 .. Len(v) \/ k = Len(v) + 1 \/ k = Len(v) + 2 \/ k = Len(v) + 3
      BY <1>8, <1>10
    <2> QED
      BY <2>1, <2>2, <2>3, <2>4, <2>5
  <1>12. Opening(s) /\ Local(s)
    BY <1>5, <1>8, <1>9, ConcatPlain
  <1>13. \A h : h \in Makes(s) <=> h \in {fab, dom, av, addrs} \cup PeerHandles
    <2>1. Makes(s) = Makes(v) \cup Makes(d)
      BY <1>5, <1>8, <1>9, ConcatSets
    <2> QED
      BY <1>5, <1>8, <2>1
  <1>14. Supplied({}, s)
    <2>1. ep(0) \in PeerHandles
      BY RankFacts DEF PeerHandles
    <2>2. Supplied({} \cup Makes(v), d)
      <3>1. {ep(0), av} \subseteq {} \cup Makes(v)
        BY <1>8, <2>1
      <3> QED
        BY <1>5, <3>1, Monotone
    <2>3. Closes(v) = {}
      BY <1>8, OpeningCloses
    <2> QED
      BY <1>5, <1>8, <1>9, <2>2, <2>3, ConcatSupplied, Zenon
  <1>15. Neat({}, s)
    <2>1. Neat({} \cup Uses(v) \cup Makes(v), d)
      BY <1>5, NeatAnywhere
    <2> QED
      BY <1>5, <1>8, <1>9, <2>1, ConcatNeat, Zenon
  <1>16. Len(s) > 4
    BY <1>8, <1>10
  <1> QED
    BY <1>10, <1>11, <1>12, <1>13, <1>14, <1>15, <1>16 DEF s
(* fini_gnix_prov                                                          *)
LEMMA FiniPeerFacts ==
  ASSUME NEW t \in Nat
  PROVE  LET s == FiniPeer(t)
         IN  /\ s \in Seq(Steps) /\ NoCalls(s) /\ Local(s) /\ Only({"step"}, s) /\ Makes(s) = {}
             /\ Closes(s) = {ep(t), scq(t), rcq(t)} /\ Uses(s) = {ep(t), scq(t), rcq(t)}
             /\ Supplied({ep(t), scq(t), rcq(t)}, s)
  <1> DEFINE hs == <<rcq(t), scq(t), ep(t)>>
             s == FiniPeer(t)
  <1>1. ep(t) \in Handles /\ scq(t) \in Handles /\ rcq(t) \in Handles
    BY HandleTypes
  <1>2. IsInjective(hs)
    BY DEF IsInjective, rcq, scq, ep
  <1>3. hs \in [1 .. 3 -> Handles] /\ Len(s) = 3
    BY <1>1 DEF FiniPeer
  <1>4. s[1] = Close(hs[1]) /\ s[2] = Close(hs[2]) /\ s[3] = Close(hs[3])
    BY DEF FiniPeer
  <1>5. s \in Seq(Steps)
    <2>1. Close(rcq(t)) \in Steps /\ Close(scq(t)) \in Steps /\ Close(ep(t)) \in Steps
      BY <1>1, CloseFacts
    <2> QED
      BY <2>1 DEF FiniPeer
  <1>6. hs[1] = rcq(t) /\ hs[2] = scq(t) /\ hs[3] = ep(t)
    OBVIOUS
  <1>7. Uses(s) = {ep(t), scq(t), rcq(t)}
    <2>1. s[1].use = {rcq(t)} /\ s[2].use = {scq(t)} /\ s[3].use = {ep(t)}
      BY <1>1, <1>4, <1>6, CloseFacts
    <2> HIDE DEF s
    <2> QED
      BY <1>3, <2>1 DEF Uses
  <1>8. Local(s) /\ Only({"step"}, s)
    BY DEF Local, Only, FiniPeer, Close, Do
  <1> HIDE DEF s, hs
  <1>9. \A k \in 1 .. Len(s) : s[k] \in {Close(hs[k]), CloseIfSet(hs[k])}
    BY <1>3, <1>4
  <1>10. {hs[k] : k \in 1 .. Len(s)} = {ep(t), scq(t), rcq(t)}
    BY <1>3, <1>6
  <1>11. /\ NoCalls(s) /\ Makes(s) = {} /\ Closes(s) = {hs[k] : k \in 1 .. Len(s)} /\ Supplied(Uses(s), s)
    BY <1>2, <1>3, <1>5, <1>9, SeveralCloses, Zenon
  <1> QED
    BY <1>5, <1>7, <1>8, <1>10, <1>11, Zenon DEF s

(* and fini_gnix_prov closes them, the vector, the domain and the fabric.  *)
LEMMA FiniProvFacts ==
  ASSUME NEW A, PeerHandles \subseteq A
  PROVE  LET s == FiniProv
         IN  /\ s \in Seq(Steps) /\ NoCalls(s) /\ Local(s) /\ Only({"step"}, s) /\ Makes(s) = {}
             /\ \A h : h \in Closes(s) <=> h \in {fab, dom, av} \cup PeerHandles
             /\ \A h : h \in Uses(s) => h \in PeerHandles
             /\ Supplied(A, s)
  <1> DEFINE ss == [q \in 1 .. num_ranks |-> FiniPeer(q - 1)]
             a == FlattenSeq(ss)
             b == << CloseIfSet(av), CloseIfSet(dom), CloseIfSet(fab) >>
             s == FiniProv
             n == num_ranks
  <1>1. n \in Nat \ {0} /\ \A m \in 1 .. n : m - 1 \in Nat /\ m - 1 \in Ranks
    BY RankFacts
  <1>2. s = a \o b
    BY DEF FiniProv
  <1>3. \A m \in 1 .. n : ss[m] = FiniPeer(m - 1)
    OBVIOUS
  <1>4. ss \in [1 .. n -> Seq(Steps)]
    BY <1>1, FiniPeerFacts, Zenon
  <1>5. /\ b \in Seq(Steps) /\ NoCalls(b) /\ Local(b) /\ Only({"step"}, b) /\ Makes(b) = {}
        /\ (\A h : h \in Closes(b) <=> h \in {fab, dom, av}) /\ Uses(b) = {} /\ Supplied(A, b)
    <2>1. fab \in Handles /\ dom \in Handles /\ av \in Handles
      BY CommonHandles
    <2>2. CloseIfSet(av) \in Steps /\ CloseIfSet(dom) \in Steps /\ CloseIfSet(fab) \in Steps
      BY <2>1, CloseFacts
    <2>3. /\ b \in Seq(Steps) /\ Len(b) = 3
          /\ b[1] = CloseIfSet(av) /\ b[2] = CloseIfSet(dom) /\ b[3] = CloseIfSet(fab)
      BY <2>2
    <2> HIDE DEF b
    <2>5. \A k \in 1 .. 3 :
            b[k].kind = "step" /\ b[k].make = {} /\ b[k].use = {} /\ b[k].name = "fi_close if set"
      <3>1. \A k \in 1 .. 3 : b[k] = CloseIfSet(av) \/ b[k] = CloseIfSet(dom) \/ b[k] = CloseIfSet(fab)
        BY <2>3
      <3> QED
        <4>1. \A h \in {av, dom, fab} :
                CloseIfSet(h).kind = "step" /\ CloseIfSet(h).make = {} /\ CloseIfSet(h).use = {}
          BY <2>1, CloseFacts
        <4>2. \A h \in {av, dom, fab} : CloseIfSet(h).name = "fi_close if set"
          BY CloseNames, Zenon
        <4> QED
          BY <3>1, <4>1, <4>2, Zenon
    <2>4. Local(b) /\ Only({"step"}, b)
      BY <2>3, <2>5, Zenon DEF Local, Only
    <2>6. NoCalls(b) /\ Makes(b) = {} /\ Uses(b) = {} /\ Supplied(A, b)
      BY <2>3, <2>5, Zenon DEF NoCalls, Makes, Uses, Supplied
    <2>7. ASSUME NEW h PROVE h \in Closes(b) <=> h \in {fab, dom, av}
      <3>1. ToSet(b[1].drop) = {av} /\ ToSet(b[2].drop) = {dom} /\ ToSet(b[3].drop) = {fab}
        BY <2>1, <2>3, CloseFacts, Zenon
      <3>2. h \in Closes(b) <=> \E k \in 1 .. 3 : h \in ToSet(b[k].drop)
        BY <2>3, <2>5, Zenon DEF Closes
      <3> QED
        BY <3>1, <3>2
    <2> QED
      BY <2>3, <2>4, <2>6, <2>7
  <1> HIDE DEF ss, b, s
  <1>6. ASSUME NEW m \in 1 .. n
        PROVE  /\ NoCalls(ss[m]) /\ Local(ss[m]) /\ Only({"step"}, ss[m]) /\ Makes(ss[m]) = {}
               /\ Closes(ss[m]) = {ep(m - 1), scq(m - 1), rcq(m - 1)}
               /\ Uses(ss[m]) = {ep(m - 1), scq(m - 1), rcq(m - 1)}
               /\ Supplied(A, ss[m])
    <2>1. /\ NoCalls(ss[m]) /\ Local(ss[m]) /\ Only({"step"}, ss[m]) /\ Makes(ss[m]) = {}
          /\ Closes(ss[m]) = {ep(m - 1), scq(m - 1), rcq(m - 1)}
          /\ Uses(ss[m]) = {ep(m - 1), scq(m - 1), rcq(m - 1)}
          /\ Supplied({ep(m - 1), scq(m - 1), rcq(m - 1)}, ss[m])
      BY <1>1, <1>3, FiniPeerFacts
    <2>2. {ep(m - 1), scq(m - 1), rcq(m - 1)} \subseteq A
      BY <1>1 DEF PeerHandles
    <2> QED
      BY <2>1, <2>2, Monotone
  <1>7. a \in Seq(Steps) /\ NoCalls(a) /\ Local(a)
    BY <1>1, <1>4, <1>6, FlattenPlain, Zenon
  <1>8. Only({"step"}, a)
    BY <1>1, <1>4, <1>6, FlattenPlain, Zenon
  <1>9. \A h : /\ h \in Makes(a) <=> \E m \in 1 .. n : h \in Makes(ss[m])
               /\ h \in Uses(a) <=> \E m \in 1 .. n : h \in Uses(ss[m])
               /\ h \in Closes(a) <=> \E m \in 1 .. n : h \in Closes(ss[m])
    BY <1>1, <1>4, FlattenPlain, Zenon
  <1>10. Supplied(A, a)
    <2>1. \A m \in 1 .. n : \A i \in 1 .. m - 1 : Closes(ss[i]) \cap Uses(ss[m]) = {}
      <3> SUFFICES ASSUME NEW m \in 1 .. n, NEW i \in 1 .. m - 1
                   PROVE  Closes(ss[i]) \cap Uses(ss[m]) = {}
        OBVIOUS
      <3>1. i \in 1 .. n /\ i - 1 # m - 1
        BY <1>1
      <3>2. /\ Closes(ss[i]) = {ep(i - 1), scq(i - 1), rcq(i - 1)}
            /\ Uses(ss[m]) = {ep(m - 1), scq(m - 1), rcq(m - 1)}
        BY <1>6, <3>1
      <3> QED
        BY <3>1, <3>2 DEF ep, scq, rcq
    <2> QED
      BY <1>1, <1>4, <1>6, <2>1, FlattenSupplied, Zenon
  <1> HIDE DEF a
  <1>11. ASSUME NEW h PROVE (\E m \in 1 .. n : h \in {ep(m - 1), scq(m - 1), rcq(m - 1)}) <=> h \in PeerHandles
    <2>1. ASSUME NEW m \in 1 .. n, h \in {ep(m - 1), scq(m - 1), rcq(m - 1)} PROVE h \in PeerHandles
      BY <1>1, <2>1 DEF PeerHandles
    <2>2. ASSUME h \in PeerHandles PROVE \E m \in 1 .. n : h \in {ep(m - 1), scq(m - 1), rcq(m - 1)}
      <3>1. PICK q \in Ranks : h \in {ep(q), scq(q), rcq(q)}
        BY <2>2 DEF PeerHandles
      <3>2. q + 1 \in 1 .. n /\ (q + 1) - 1 = q
        BY RankFacts
      <3> QED
        BY <3>1, <3>2
    <2> QED
      BY <2>1, <2>2
  <1>12. Makes(a) = {}
    BY <1>6, <1>9
  <1>13. \A h : (h \in Uses(a) <=> h \in PeerHandles) /\ (h \in Closes(a) <=> h \in PeerHandles)
    <2> SUFFICES ASSUME NEW h
                 PROVE  (h \in Uses(a) <=> h \in PeerHandles) /\ (h \in Closes(a) <=> h \in PeerHandles)
      OBVIOUS
    <2>1. /\ h \in Uses(a) <=> \E m \in 1 .. n : h \in Uses(ss[m])
          /\ h \in Closes(a) <=> \E m \in 1 .. n : h \in Closes(ss[m])
      BY <1>9
    <2>2. \A m \in 1 .. n : /\ h \in Uses(ss[m]) <=> h \in {ep(m - 1), scq(m - 1), rcq(m - 1)}
                            /\ h \in Closes(ss[m]) <=> h \in {ep(m - 1), scq(m - 1), rcq(m - 1)}
      BY <1>6
    <2>3. (\E m \in 1 .. n : h \in {ep(m - 1), scq(m - 1), rcq(m - 1)}) <=> h \in PeerHandles
      BY <1>11
    <2> QED
      BY <2>1, <2>2, <2>3
  <1>14. s \in Seq(Steps) /\ NoCalls(s) /\ Local(s) /\ Only({"step"}, s)
    BY <1>2, <1>5, <1>7, <1>8, ConcatStep, ConcatPlain
  <1>15. /\ Makes(s) = {} /\ Closes(s) = Closes(a) \cup Closes(b) /\ Uses(s) = Uses(a) \cup Uses(b)
    BY <1>2, <1>5, <1>7, <1>12, ConcatSets, ZenonT(60)
  <1>16. Supplied(A, s)
    <2>1. Supplied(A \cup Makes(a), b) /\ Closes(a) \cap Uses(b) = {}
      BY <1>5, <1>12
    <2> QED
      BY <1>2, <1>5, <1>7, <1>10, <2>1, ConcatSupplied
  <1>17. \A h : h \in Closes(s) <=> h \in {fab, dom, av} \cup PeerHandles
    BY <1>5, <1>13, <1>15
  <1>18. \A h : h \in Uses(s) => h \in PeerHandles
    BY <1>5, <1>13, <1>15
  <1> QED
    BY <1>14, <1>15, <1>16, <1>17, <1>18 DEF s
(* How both tests begin                                                    *)
LEMMA StartFacts ==
  LET s == <<Barrier>> \o Allocated
  IN  /\ s \in Seq(Steps) /\ Len(s) = 5 /\ Opening(s) /\ NoCalls(s) /\ Local(s)
      /\ Makes(s) = {} /\ Uses(s) = {} /\ Closes(s) = {} /\ \A A : Supplied(A, s)
      /\ \A k \in 1 .. 5 : s[k].kind = IF k = 3 THEN "gather" ELSE "barrier"
  <1> DEFINE g == Gather("abort", {}, {})
             a == Allocated
             s == <<Barrier>> \o a
  <1>1. g \in Steps
    <2>1. <<>> \in Seq(Handles)
      OBVIOUS
    <2> QED
      BY <2>1 DEF Gather, Steps, Kinds, Names, Meeting
  <1>2. /\ g.kind = "gather" /\ g.use = {} /\ g.make = {} /\ g.drop = <<>> /\ g.name = "abort"
        /\ Barrier.kind = "barrier" /\ Barrier.use = {} /\ Barrier.make = {} /\ Barrier.drop = <<>>
        /\ Barrier.name = "ctpm_Barrier"
    BY DEF Gather, Barrier
  <1>3. a = <<Barrier, g, Barrier, Barrier>>
    BY DEF Allocated
  <1> HIDE DEF g, a
  <1>4. /\ a \in Seq(Steps) /\ Len(a) = 4 /\ a[1] = Barrier /\ a[2] = g /\ a[3] = Barrier /\ a[4] = Barrier
    BY <1>1, <1>3, BarrierFacts
  <1>5. /\ <<Barrier>> \in Seq(Steps) /\ Len(<<Barrier>>) = 1 /\ <<Barrier>>[1] = Barrier
    BY BarrierFacts
  <1>6. /\ s \in Seq(Steps) /\ Len(s) = 5
        /\ s[1] = Barrier /\ s[2] = Barrier /\ s[3] = g /\ s[4] = Barrier /\ s[5] = Barrier
    <2>1. /\ s \in Seq(Steps) /\ Len(s) = Len(<<Barrier>>) + Len(a)
          /\ \A k \in 1 .. Len(<<Barrier>>) : s[k] = <<Barrier>>[k]
          /\ \A k \in 1 .. Len(a) : s[Len(<<Barrier>>) + k] = a[k]
      BY <1>4, <1>5, ConcatStep, Zenon
    <2> HIDE DEF s
    <2>2. 1 \in 1 .. Len(a) /\ 2 \in 1 .. Len(a) /\ 3 \in 1 .. Len(a) /\ 4 \in 1 .. Len(a)
      BY <1>4
    <2>3. s[1 + 1] = a[1] /\ s[1 + 2] = a[2] /\ s[1 + 3] = a[3] /\ s[1 + 4] = a[4]
      BY <1>5, <2>1, <2>2
    <2> QED
      BY <1>4, <1>5, <2>1, <2>3
  <1> HIDE DEF s
  <1>7. \A k \in 1 .. 5 :
          /\ s[k].kind = IF k = 3 THEN "gather" ELSE "barrier"
          /\ s[k].use = {} /\ s[k].make = {} /\ s[k].name \in {"ctpm_Barrier", "abort"}
    BY <1>2, <1>6
  <1>8. Opening(s) /\ NoCalls(s) /\ Local(s)
    BY <1>6, <1>7 DEF Opening, NoCalls, Local
  <1>9. Makes(s) = {} /\ Uses(s) = {} /\ \A A : Supplied(A, s)
    BY <1>6, <1>7 DEF Makes, Uses, Supplied
  <1>10. Closes(s) = {}
    BY <1>8, OpeningCloses
  <1> QED
    BY <1>6, <1>7, <1>8, <1>9, <1>10 DEF s, a

(* What auth_key_test does with the memory it registers                    *)
AuthExchange ==
  << Call("fi_mr_regattr table", {dom}, {table_mr}, <<>>),
     Call("fi_mr_regattr auth", {dom}, {auth_mr}, <<>>),
     Barrier, Gather("table_key", {}, {}), Barrier, Gather("table_addr", {}, {}),
     Barrier, Barrier, Barrier,
     Do("test", {table_mr, auth_mr}, {}, <<>>),
     Close(table_mr), Close(auth_mr), Barrier, Barrier >>

(* The exchange of auth_key_test, between its registrations and their end  *)
LEMMA AuthExchangeFacts ==
  LET s == AuthExchange
  IN  /\ s \in Seq(Steps) /\ Len(s) = 14 /\ Ordered(s) /\ EndsClosed(s) /\ Local(s)
      /\ Makes(s) = {table_mr, auth_mr}
      /\ \A h : h \in Closes(s) <=> h \in {table_mr, auth_mr}
      /\ Neat({}, s) /\ \A A : dom \in A => Supplied(A, s)
      /\ \A k \in 1 .. 14 :
           s[k].kind = IF k \in {1, 2} THEN "call" ELSE IF k \in {4, 6} THEN "gather"
                       ELSE IF k \in {10, 11, 12} THEN "step" ELSE "barrier"
      /\ \A k \in 1 .. 14 : auth_mr \in s[k].make <=> k = 2
      /\ \A k \in 1 .. 14 : s[k].kind = "step" => (auth_mr \in ToSet(s[k].drop) <=> k = 12)
  <1> DEFINE c1 == Call("fi_mr_regattr table", {dom}, {table_mr}, <<>>)
             c2 == Call("fi_mr_regattr auth", {dom}, {auth_mr}, <<>>)
             g1 == Gather("table_key", {}, {})
             g2 == Gather("table_addr", {}, {})
             test == Do("test", {table_mr, auth_mr}, {}, <<>>)
             s == AuthExchange
  <1>1. /\ dom \in Handles /\ table_mr \in Handles /\ auth_mr \in Handles /\ <<>> \in Seq(Handles)
    BY CommonHandles
  <1>2. c1 \in Steps /\ c2 \in Steps
    BY <1>1, Zenon DEF Call, Steps, Kinds, Names
  <1>3. g1 \in Steps /\ g2 \in Steps
    BY <1>1 DEF Gather, Steps, Kinds, Names, Meeting
  <1>4. test \in Steps
    BY <1>1 DEF Do, Steps, Kinds, Names
  <1>5. Close(table_mr) \in Steps /\ Close(auth_mr) \in Steps /\ Barrier \in Steps
    BY <1>1, CloseFacts, BarrierFacts
  <1>6. s = <<c1, c2, Barrier, g1, Barrier, g2, Barrier, Barrier, Barrier, test, Close(table_mr),
              Close(auth_mr), Barrier, Barrier>>
    BY DEF AuthExchange
  <1>7. /\ c1.kind = "call" /\ c1.use = {dom} /\ c1.make = {table_mr} /\ c1.drop = <<>>
        /\ c2.kind = "call" /\ c2.use = {dom} /\ c2.make = {auth_mr} /\ c2.drop = <<>>
    BY DEF Call
  <1>8. /\ g1.kind = "gather" /\ g1.use = {} /\ g1.make = {} /\ g2.kind = "gather" /\ g2.use = {} /\ g2.make = {}
        /\ Barrier.kind = "barrier" /\ Barrier.use = {} /\ Barrier.make = {}
    BY DEF Gather, Barrier
  <1>9. /\ test.kind = "step" /\ test.use = {table_mr, auth_mr} /\ test.make = {} /\ ToSet(test.drop) = {}
    BY Tuple0 DEF Do
  <1>10. \A h \in {table_mr, auth_mr} :
           Close(h).kind = "step" /\ Close(h).use = {h} /\ Close(h).make = {} /\ ToSet(Close(h).drop) = {h}
    BY <1>1, CloseFacts
  <1>11. /\ c1.name = "fi_mr_regattr table" /\ c2.name = "fi_mr_regattr auth" /\ g1.name = "table_key"
         /\ g2.name = "table_addr" /\ Barrier.name = "ctpm_Barrier" /\ test.name = "test"
         /\ Close(table_mr).name = "fi_close" /\ Close(auth_mr).name = "fi_close"
    BY CloseNames, Zenon DEF Call, Gather, Barrier, Do
  <1>12. table_mr # auth_mr /\ dom # table_mr /\ dom # auth_mr
    BY DEF table_mr, auth_mr, dom
  <1>13. table_mr \notin Kept /\ auth_mr \notin Kept
    BY DEF Kept, NeverClosed, table_mr, auth_mr
  <1> HIDE DEF c1, c2, g1, g2, test, s
  <1>14. s \in Seq(Steps) /\ Len(s) = 14
    BY <1>2, <1>3, <1>4, <1>5, <1>6
  <1>15. /\ s[1] = c1 /\ s[2] = c2 /\ s[3] = Barrier /\ s[4] = g1 /\ s[5] = Barrier /\ s[6] = g2
         /\ s[7] = Barrier /\ s[8] = Barrier /\ s[9] = Barrier /\ s[10] = test
         /\ s[11] = Close(table_mr) /\ s[12] = Close(auth_mr) /\ s[13] = Barrier /\ s[14] = Barrier
    BY <1>6
  <1>16. \A k \in 1 .. 14 :
           \/ k = 1 \/ k = 2 \/ k = 3 \/ k = 4 \/ k = 5 \/ k = 6 \/ k = 7 \/ k = 8 \/ k = 9 \/ k = 10
           \/ k = 11 \/ k = 12 \/ k = 13 \/ k = 14
    OBVIOUS
  <1>17. \A k \in 1 .. 14 :
           \/ (k = 1 /\ s[k] = c1) \/ (k = 2 /\ s[k] = c2) \/ (k = 4 /\ s[k] = g1) \/ (k = 6 /\ s[k] = g2)
           \/ (k = 10 /\ s[k] = test)
           \/ (k = 11 /\ s[k] = Close(table_mr)) \/ (k = 12 /\ s[k] = Close(auth_mr))
           \/ (k \in {3, 5, 7, 8, 9, 13, 14} /\ s[k] = Barrier)
    BY <1>15, <1>16
  <1>18. \A k \in 1 .. 14 :
           s[k].kind = IF k \in {1, 2} THEN "call" ELSE IF k \in {4, 6} THEN "gather"
                       ELSE IF k \in {10, 11, 12} THEN "step" ELSE "barrier"
    BY <1>7, <1>8, <1>9, <1>10, <1>17
  <1>190. Close(table_mr).make = {} /\ Close(table_mr).use = {table_mr} /\ ToSet(Close(table_mr).drop) = {table_mr}
         /\ Close(auth_mr).make = {} /\ Close(auth_mr).use = {auth_mr} /\ ToSet(Close(auth_mr).drop) = {auth_mr}
    BY <1>10
  <1>19. ASSUME NEW k \in 1 .. 14
         PROVE  s[k].make = IF k = 1 THEN {table_mr} ELSE IF k = 2 THEN {auth_mr} ELSE {}
    <2>1. CASE k = 1 \/ k = 2
      BY <1>7, <1>15, <2>1, Zenon
    <2>2. CASE k \notin {1, 2}
      <3>1. s[k] \in {g1, g2, test, Close(table_mr), Close(auth_mr), Barrier}
        BY <1>17, <2>2
      <3>2. s[k].make = {}
        BY <1>8, <1>9, <1>190, <3>1
      <3> QED
        BY <2>2, <3>2
    <2> QED
      BY <2>1, <2>2
  <1>20. ASSUME NEW k \in 1 .. 14
         PROVE  s[k].use = IF k \in {1, 2} THEN {dom} ELSE IF k = 10 THEN {table_mr, auth_mr}
                           ELSE IF k = 11 THEN {table_mr} ELSE IF k = 12 THEN {auth_mr} ELSE {}
    <2>1. CASE k = 1 \/ k = 2
      BY <1>7, <1>15, <2>1, Zenon
    <2>2. CASE k = 10 \/ k = 11 \/ k = 12
      <3>1. s[10].use = {table_mr, auth_mr} /\ s[11].use = {table_mr} /\ s[12].use = {auth_mr}
        BY <1>9, <1>15, <1>190
      <3>2. CASE k = 10
        BY <3>1, <3>2
      <3>3. CASE k = 11
        BY <3>1, <3>3
      <3>4. CASE k = 12
        BY <3>1, <3>4
      <3> QED
        BY <2>2, <3>2, <3>3, <3>4
    <2>3. CASE k \notin {1, 2, 10, 11, 12}
      <3>1. s[k] \in {g1, g2, Barrier}
        BY <1>17, <2>3
      <3>2. s[k].use = {}
        BY <1>8, <3>1
      <3> QED
        BY <2>3, <3>2
    <2> QED
      BY <2>1, <2>2, <2>3
  <1>21. ASSUME NEW k \in 1 .. 14, s[k].kind = "step"
         PROVE  ToSet(s[k].drop) = IF k = 11 THEN {table_mr} ELSE IF k = 12 THEN {auth_mr} ELSE {}
    <2>1. k = 10 \/ k = 11 \/ k = 12
      BY <1>18, <1>21
    <2> QED
      BY <1>9, <1>15, <1>190, <2>1, Zenon
  <1>22. Local(s)
    <2>1. \A k \in 1 .. 14 : s[k].name \in
            {"fi_mr_regattr table", "fi_mr_regattr auth", "table_key", "table_addr", "ctpm_Barrier", "test",
             "fi_close"}
      BY <1>11, <1>17, Zenon
    <2>2. \A k \in 1 .. 14 : s[k].name \notin {"drc_acquire", "drc_access", "drc_release"}
      BY <2>1, Zenon
    <2> QED
      BY <1>14, <2>2, Zenon DEF Local
  <1>23. Ordered(s)
    <2> SUFFICES ASSUME NEW k \in 1 .. 14, s[k].kind = "call", NEW j \in 1 .. k - 1, s[j].kind = "step"
                 PROVE  s[j].drop = <<>>
      BY <1>14, Zenon DEF Ordered
    <2>1. k \in {1, 2}
      BY <1>18
    <2>2. j = 1
      BY <2>1
    <2> QED
      BY <1>18, <2>2
  <1>24. EndsClosed(s)
    <2> SUFFICES ASSUME NEW k \in 1 .. 14, NEW h \in s[k].make
                 PROVE  \E j \in k + 1 .. 14 : s[j].kind = "step" /\ h \in ToSet(s[j].drop)
      BY <1>14, Zenon DEF EndsClosed
    <2>1. (k = 1 /\ h = table_mr) \/ (k = 2 /\ h = auth_mr)
      BY <1>19
    <2>2. s[11].kind = "step" /\ s[12].kind = "step"
      BY <1>18
    <2>3. ToSet(s[11].drop) = {table_mr} /\ ToSet(s[12].drop) = {auth_mr}
      BY <1>21, <2>2
    <2>4. 11 \in k + 1 .. 14 /\ 12 \in k + 1 .. 14
      BY <2>1
    <2> QED
      BY <2>1, <2>2, <2>3, <2>4
  <1>25. \A h : h \in Makes(s) <=> h \in {table_mr, auth_mr}
    BY <1>14, <1>19 DEF Makes
  <1>26. ASSUME NEW h PROVE h \in Closes(s) <=> h \in {table_mr, auth_mr}
    <2>1. h \in Closes(s) <=> \E k \in 1 .. 14 : s[k].kind = "step" /\ h \in ToSet(s[k].drop)
      BY <1>14, Zenon DEF Closes
    <2>2. s[11].kind = "step" /\ s[12].kind = "step"
      BY <1>18
    <2>3. ToSet(s[11].drop) = {table_mr} /\ ToSet(s[12].drop) = {auth_mr}
      BY <1>21, <2>2
    <2>4. \A k \in 1 .. 14 : s[k].kind = "step" /\ h \in ToSet(s[k].drop) => h \in {table_mr, auth_mr}
      BY <1>21, Zenon
    <2> QED
      BY <2>1, <2>2, <2>3, <2>4
  <1>27. Neat({}, s)
    <2>1. \A k \in 1 .. 14 : s[k].kind = "call" => s[k].drop = <<>>
      BY <1>7, <1>17, <1>18
    <2> QED
      BY <1>14, <2>1, Tuple0, Zenon DEF Neat
  <1>28. ASSUME NEW A, dom \in A PROVE Supplied(A, s)
    <2> SUFFICES ASSUME NEW k \in 1 .. 14, NEW h \in s[k].use
                 PROVE  (h \in A \/ Made(h, s, k)) /\ ~Closed(h, s, k)
      BY <1>14, Zenon DEF Supplied
    <2>1. h = dom \/ Made(h, s, k)
      <3>1. CASE k \in {1, 2}
        BY <1>20, <3>1
      <3>2. CASE k \in {10, 11, 12}
        <4>1. 1 \in 1 .. k - 1 /\ 2 \in 1 .. k - 1
          BY <3>2
        <4>2. s[1].make = {table_mr} /\ s[2].make = {auth_mr}
          BY <1>19
        <4>3. h = table_mr \/ h = auth_mr
          BY <1>20, <3>2
        <4> QED
          BY <4>1, <4>2, <4>3 DEF Made
      <3>3. CASE k \notin {1, 2, 10, 11, 12}
        BY <1>20, <3>3
      <3> QED
        BY <3>1, <3>2, <3>3
    <2>2. ~Closed(h, s, k)
      <3> SUFFICES ASSUME NEW j \in 1 .. k - 1, s[j].kind = "step", h \in ToSet(s[j].drop)
                   PROVE  FALSE
        BY DEF Closed
      <3>1. j \in 1 .. 14
        OBVIOUS
      <3>2. (j = 11 /\ h = table_mr) \/ (j = 12 /\ h = auth_mr)
        BY <1>21, <3>1, Zenon
      <3>3. (k = 12 /\ h = auth_mr) \/ k > 12
        BY <1>20, <3>2
      <3>4. k > 12 => s[k].use = {}
        BY <1>20
      <3> QED
        BY <1>12, <3>2, <3>3, <3>4
    <2> QED
      BY <1>28, <2>1, <2>2
  <1>29. /\ \A k \in 1 .. 14 : auth_mr \in s[k].make <=> k = 2
         /\ \A k \in 1 .. 14 : s[k].kind = "step" => (auth_mr \in ToSet(s[k].drop) <=> k = 12)
    BY <1>12, <1>19, <1>21
  <1>30. Makes(s) = {table_mr, auth_mr}
    BY <1>25
  <1> QED
    BY <1>14, <1>18, <1>22, <1>23, <1>24, <1>26, <1>27, <1>28, <1>29, <1>30 DEF s
(* What random_access does with the memory it registers                    *)
AccessNeeds == {scratch_mr} \cup UNION {{ep(q), scq(q)} : q \in Ranks}
AccessExchange ==
  << Call("fi_mr_reg table", {dom}, {table_mr}, <<>>),
     Call("fi_mr_reg lock", {dom}, {lock_mr}, <<>>),
     Call("fi_mr_reg scratch", {dom}, {scratch_mr}, <<>>),
     Barrier, Gather("table_key", {}, {}), Barrier, Gather("lock_key", {}, {}), Barrier,
     Gather("table_addr", {}, {}), Barrier, Barrier, Gather("lock_addr", {}, {}), Barrier,
     Do("test", AccessNeeds, {}, <<>>),
     Close(lock_mr), Close(table_mr), Close(scratch_mr), Barrier, Barrier >>

(* The same of random_access                                               *)
LEMMA AccessExchangeFacts ==
  LET s == AccessExchange
  IN  /\ s \in Seq(Steps) /\ Len(s) = 19 /\ Ordered(s) /\ EndsClosed(s)
      /\ \A h : h \in Makes(s) <=> h \in {table_mr, lock_mr, scratch_mr}
      /\ \A h : h \in Closes(s) <=> h \in {table_mr, lock_mr, scratch_mr}
      /\ Neat({}, s) /\ \A A : dom \in A /\ PeerHandles \subseteq A => Supplied(A, s)
  <1> DEFINE c1 == Call("fi_mr_reg table", {dom}, {table_mr}, <<>>)
             c2 == Call("fi_mr_reg lock", {dom}, {lock_mr}, <<>>)
             c3 == Call("fi_mr_reg scratch", {dom}, {scratch_mr}, <<>>)
             g1 == Gather("table_key", {}, {})
             g2 == Gather("lock_key", {}, {})
             g3 == Gather("table_addr", {}, {})
             g4 == Gather("lock_addr", {}, {})
             test == Do("test", AccessNeeds, {}, <<>>)
             s == AccessExchange
  <1>1. /\ dom \in Handles /\ table_mr \in Handles /\ lock_mr \in Handles /\ scratch_mr \in Handles
        /\ <<>> \in Seq(Handles)
    BY CommonHandles
  <1>2. c1 \in Steps /\ c2 \in Steps /\ c3 \in Steps
    BY <1>1, Zenon DEF Call, Steps, Kinds, Names
  <1>3. g1 \in Steps /\ g2 \in Steps /\ g3 \in Steps /\ g4 \in Steps
    BY <1>1 DEF Gather, Steps, Kinds, Names, Meeting
  <1>4. test \in Steps
    <2>1. \A q \in Ranks : ep(q) \in Handles /\ scq(q) \in Handles
      BY RankFacts, HandleTypes
    <2>2. AccessNeeds \subseteq Handles
      <3> SUFFICES ASSUME NEW h \in AccessNeeds PROVE h \in Handles
        OBVIOUS
      <3>1. h = scratch_mr \/ \E q \in Ranks : h = ep(q) \/ h = scq(q)
        BY DEF AccessNeeds
      <3> QED
        BY <1>1, <2>1, <3>1
    <2> QED
      BY <1>1, <2>2 DEF Do, Steps, Kinds, Names
  <1>5. Close(table_mr) \in Steps /\ Close(lock_mr) \in Steps /\ Close(scratch_mr) \in Steps /\ Barrier \in Steps
    BY <1>1, CloseFacts, BarrierFacts
  <1>6. s = <<c1, c2, c3, Barrier, g1, Barrier, g2, Barrier, g3, Barrier, Barrier, g4, Barrier, test,
              Close(lock_mr), Close(table_mr), Close(scratch_mr), Barrier, Barrier>>
    BY DEF AccessExchange
  <1>7. /\ c1.kind = "call" /\ c1.use = {dom} /\ c1.make = {table_mr} /\ c1.drop = <<>>
        /\ c2.kind = "call" /\ c2.use = {dom} /\ c2.make = {lock_mr} /\ c2.drop = <<>>
        /\ c3.kind = "call" /\ c3.use = {dom} /\ c3.make = {scratch_mr} /\ c3.drop = <<>>
    BY DEF Call
  <1>8. /\ g1.kind = "gather" /\ g1.use = {} /\ g1.make = {} /\ g2.kind = "gather" /\ g2.use = {} /\ g2.make = {}
        /\ g3.kind = "gather" /\ g3.use = {} /\ g3.make = {} /\ g4.kind = "gather" /\ g4.use = {} /\ g4.make = {}
        /\ Barrier.kind = "barrier" /\ Barrier.use = {} /\ Barrier.make = {}
    BY DEF Gather, Barrier
  <1>9. /\ test.kind = "step" /\ test.use = AccessNeeds /\ test.make = {} /\ ToSet(test.drop) = {}
    BY Tuple0 DEF Do
  <1>10. \A h \in {table_mr, lock_mr, scratch_mr} :
           Close(h).kind = "step" /\ Close(h).use = {h} /\ Close(h).make = {} /\ ToSet(Close(h).drop) = {h}
    BY <1>1, CloseFacts
  <1>11. /\ Close(table_mr).make = {} /\ Close(table_mr).use = {table_mr} /\ Close(table_mr).kind = "step"
         /\ Close(lock_mr).make = {} /\ Close(lock_mr).use = {lock_mr} /\ Close(lock_mr).kind = "step"
         /\ Close(scratch_mr).make = {} /\ Close(scratch_mr).use = {scratch_mr} /\ Close(scratch_mr).kind = "step"
         /\ ToSet(Close(table_mr).drop) = {table_mr} /\ ToSet(Close(lock_mr).drop) = {lock_mr}
         /\ ToSet(Close(scratch_mr).drop) = {scratch_mr}
    BY <1>10
  <1>12. /\ table_mr # lock_mr /\ table_mr # scratch_mr /\ lock_mr # scratch_mr
         /\ table_mr \notin AccessNeeds /\ lock_mr \notin AccessNeeds
    BY DEF table_mr, lock_mr, scratch_mr, AccessNeeds, ep, scq
  <1> HIDE DEF c1, c2, c3, g1, g2, g3, g4, test, s
  <1>13. s \in Seq(Steps) /\ Len(s) = 19
    BY <1>2, <1>3, <1>4, <1>5, <1>6
  <1>14. /\ s[1] = c1 /\ s[2] = c2 /\ s[3] = c3 /\ s[4] = Barrier /\ s[5] = g1 /\ s[6] = Barrier
         /\ s[7] = g2 /\ s[8] = Barrier /\ s[9] = g3 /\ s[10] = Barrier
    BY <1>6
  <1>15. /\ s[11] = Barrier /\ s[12] = g4 /\ s[13] = Barrier /\ s[14] = test /\ s[15] = Close(lock_mr)
         /\ s[16] = Close(table_mr) /\ s[17] = Close(scratch_mr) /\ s[18] = Barrier /\ s[19] = Barrier
    BY <1>6
  <1>16. \A k \in 1 .. 19 :
           \/ k = 1 \/ k = 2 \/ k = 3 \/ k = 14 \/ k = 15 \/ k = 16 \/ k = 17
           \/ k \in {4, 5, 6, 7, 8, 9, 10, 11, 12, 13, 18, 19}
    OBVIOUS
  <1>17. ASSUME NEW k \in {4, 5, 6, 7, 8, 9, 10, 11, 12, 13, 18, 19}
         PROVE  /\ s[k].kind \in {"gather", "barrier"} /\ s[k].use = {} /\ s[k].make = {}
    <2>1. s[k] \in {g1, g2, g3, g4, Barrier}
      BY <1>14, <1>15
    <2> QED
      BY <1>8, <2>1
  <1>18. /\ s[1].kind = "call" /\ s[1].use = {dom} /\ s[1].make = {table_mr} /\ s[1].drop = <<>>
         /\ s[2].kind = "call" /\ s[2].use = {dom} /\ s[2].make = {lock_mr} /\ s[2].drop = <<>>
         /\ s[3].kind = "call" /\ s[3].use = {dom} /\ s[3].make = {scratch_mr} /\ s[3].drop = <<>>
    BY <1>7, <1>14
  <1>19. /\ s[14].kind = "step" /\ s[14].use = AccessNeeds /\ s[14].make = {} /\ ToSet(s[14].drop) = {}
         /\ s[15].kind = "step" /\ s[15].use = {lock_mr} /\ s[15].make = {} /\ ToSet(s[15].drop) = {lock_mr}
         /\ s[16].kind = "step" /\ s[16].use = {table_mr} /\ s[16].make = {} /\ ToSet(s[16].drop) = {table_mr}
         /\ s[17].kind = "step" /\ s[17].use = {scratch_mr} /\ s[17].make = {}
         /\ ToSet(s[17].drop) = {scratch_mr}
    BY <1>9, <1>11, <1>15
  <1>20. ASSUME NEW k \in 1 .. 19
         PROVE  /\ s[k].kind = "call" => k \in {1, 2, 3} /\ s[k].drop = <<>>
                /\ s[k].kind = "step" => k \in {14, 15, 16, 17}
    BY <1>16, <1>17, <1>18, <1>19, Zenon
  <1>21. Ordered(s)
    <2> SUFFICES ASSUME NEW k \in 1 .. 19, s[k].kind = "call", NEW j \in 1 .. k - 1, s[j].kind = "step"
                 PROVE  FALSE
      BY <1>13, Zenon DEF Ordered
    <2>1. k \in {1, 2, 3}
      BY <1>20, Zenon
    <2>2. j \in 1 .. 19 /\ j < 3
      BY <2>1
    <2> QED
      BY <1>20, <2>2
  <1>22. ASSUME NEW k \in 1 .. 19, NEW h \in s[k].make
         PROVE  (k = 1 /\ h = table_mr) \/ (k = 2 /\ h = lock_mr) \/ (k = 3 /\ h = scratch_mr)
    <2>1. CASE k \in {1, 2, 3}
      BY <1>18, <1>22, <2>1
    <2>2. CASE k \notin {1, 2, 3}
      BY <1>16, <1>17, <1>19, <1>22, <2>2
    <2> QED
      BY <2>1, <2>2
  <1>23. EndsClosed(s)
    <2> SUFFICES ASSUME NEW k \in 1 .. 19, NEW h \in s[k].make
                 PROVE  \E j \in k + 1 .. 19 : s[j].kind = "step" /\ h \in ToSet(s[j].drop)
      BY <1>13, Zenon DEF EndsClosed
    <2>1. (k = 1 /\ h = table_mr) \/ (k = 2 /\ h = lock_mr) \/ (k = 3 /\ h = scratch_mr)
      BY <1>22
    <2>2. 15 \in k + 1 .. 19 /\ 16 \in k + 1 .. 19 /\ 17 \in k + 1 .. 19
      BY <2>1
    <2> QED
      BY <1>19, <2>1, <2>2
  <1>24. ASSUME NEW h PROVE h \in Makes(s) <=> h \in {table_mr, lock_mr, scratch_mr}
    <2>1. h \in Makes(s) <=> \E k \in 1 .. 19 : h \in s[k].make
      BY <1>13 DEF Makes
    <2> QED
      BY <1>18, <1>22, <2>1
  <1>25. ASSUME NEW h PROVE h \in Closes(s) <=> h \in {table_mr, lock_mr, scratch_mr}
    <2>1. h \in Closes(s) <=> \E k \in 1 .. 19 : s[k].kind = "step" /\ h \in ToSet(s[k].drop)
      BY <1>13, Zenon DEF Closes
    <2>2. ASSUME NEW k \in 1 .. 19, s[k].kind = "step", h \in ToSet(s[k].drop)
          PROVE  h \in {table_mr, lock_mr, scratch_mr}
      <3>1. k \in {14, 15, 16, 17}
        BY <1>20, <2>2, Zenon
      <3> QED
        BY <1>19, <2>2, <3>1
    <2>3. h \in {table_mr, lock_mr, scratch_mr} => \E k \in 1 .. 19 : s[k].kind = "step" /\ h \in ToSet(s[k].drop)
      BY <1>19
    <2> QED
      BY <2>1, <2>2, <2>3
  <1>26. Neat({}, s)
    <2>1. \A k \in 1 .. 19 : s[k].kind = "call" => s[k].drop = <<>>
      BY <1>20, Zenon
    <2> QED
      BY <1>13, <2>1, Tuple0, Zenon DEF Neat
  <1>27. ASSUME NEW A, dom \in A, PeerHandles \subseteq A PROVE Supplied(A, s)
    <2> SUFFICES ASSUME NEW k \in 1 .. 19, NEW h \in s[k].use
                 PROVE  (h \in A \/ Made(h, s, k)) /\ ~Closed(h, s, k)
      BY <1>13 DEF Supplied
    <2>1. \/ k \in {1, 2, 3} /\ h = dom
          \/ k = 14 /\ h \in AccessNeeds
          \/ k = 15 /\ h = lock_mr
          \/ k = 16 /\ h = table_mr
          \/ k = 17 /\ h = scratch_mr
      <3>1. CASE k \in {1, 2, 3}
        BY <1>18, <3>1
      <3>2. CASE k \in {14, 15, 16, 17}
        BY <1>19, <3>2
      <3> QED
        BY <1>16, <1>17, <3>1, <3>2
    <2>2. h \in A \/ Made(h, s, k)
      <3>1. CASE k \in {1, 2, 3}
        BY <1>27, <2>1, <3>1
      <3>2. CASE k \in {14, 15, 16, 17}
        <4>1. 1 \in 1 .. k - 1 /\ 2 \in 1 .. k - 1 /\ 3 \in 1 .. k - 1
          BY <3>2
        <4>2. Made(table_mr, s, k) /\ Made(lock_mr, s, k) /\ Made(scratch_mr, s, k)
          BY <1>18, <4>1 DEF Made
        <4>3. h \in AccessNeeds => h = scratch_mr \/ h \in PeerHandles
          BY DEF AccessNeeds, PeerHandles
        <4> QED
          BY <1>27, <2>1, <3>2, <4>2, <4>3
      <3> QED
        BY <2>1, <3>1, <3>2
    <2>3. ~Closed(h, s, k)
      <3> SUFFICES ASSUME NEW j \in 1 .. k - 1, s[j].kind = "step", h \in ToSet(s[j].drop)
                   PROVE  FALSE
        BY DEF Closed
      <3>1. j \in 1 .. 19
        OBVIOUS
      <3>2. j \in {14, 15, 16, 17}
        BY <1>20, <3>1, Zenon
      <3>3. (j = 15 /\ h = lock_mr) \/ (j = 16 /\ h = table_mr) \/ (j = 17 /\ h = scratch_mr)
        BY <1>19, <3>2
      <3>4. k > 15
        BY <3>3
      <3>5. (k = 16 /\ h = table_mr) \/ (k = 17 /\ h = scratch_mr)
        BY <2>1, <3>4
      <3> QED
        BY <1>12, <3>3, <3>5
    <2> QED
      BY <2>2, <2>3
  <1> QED
    BY <1>13, <1>21, <1>23, <1>24, <1>25, <1>26, <1>27 DEF s
(* How both programs end                                                   *)
Lasting == {fab, dom, av, addrs} \cup PeerHandles
LastSteps(e, more) == (((<<Barrier>> \o Allocated) \o e) \o FiniProv \o more) \o <<Barrier>>

(* The release of the credential, where there is one, neither opens nor    *)
(* closes a handle.                                                        *)
LEMMA ReleaseFacts ==
  ASSUME NEW more \in {<<>>, Release}
  PROVE  /\ more \in Seq(Steps) /\ Len(more) \in {0, 1} /\ (Len(more) = 1 => more = Release)
         /\ NoCalls(more) /\ Only({"step"}, more)
         /\ Makes(more) = {} /\ Uses(more) = {} /\ Closes(more) = {} /\ \A A : Supplied(A, more)
  <1> DEFINE x == Do("drc_release", {}, {}, <<>>)
  <1>1. x \in Steps
    <2>1. <<>> \in Seq(Handles)
      OBVIOUS
    <2> QED
      BY <2>1 DEF Do, Steps, Kinds, Names
  <1>2. x.kind = "step" /\ x.use = {} /\ x.make = {} /\ x.drop = <<>>
    BY DEF Do
  <1>3. Release = <<x>>
    BY DEF Release
  <1> HIDE DEF x
  <1>4. CASE more = Release
    <2>1. /\ more \in Seq(Steps) /\ Len(more) = 1
      BY <1>1, <1>3, <1>4
    <2>2. /\ NoCalls(more) /\ Only({"step"}, more) /\ Makes(more) = {} /\ Uses(more) = {}
      BY <1>1, <1>2, <1>3, <1>4, Single, Zenon
    <2>3. Closes(more) = {}
      BY <1>1, <1>2, <1>3, <1>4, Single, Tuple0
    <2>4. \A A : Supplied(A, more)
      BY <1>1, <1>2, <1>3, <1>4, Single
    <2> QED
      BY <1>4, <2>1, <2>2, <2>3, <2>4
  <1>5. CASE more = <<>>
    <2>1. more \in Seq(Steps) /\ Len(more) = 0
      BY <1>5
    <2>2. \A k : k \notin 1 .. Len(more)
      BY <2>1
    <2>3. NoCalls(more) /\ Only({"step"}, more)
      BY <2>2 DEF NoCalls, Only
    <2>4. Makes(more) = {} /\ Uses(more) = {} /\ Closes(more) = {}
      BY <2>2 DEF Makes, Uses, Closes
    <2>5. \A A : Supplied(A, more)
      BY <2>2 DEF Supplied
    <2> QED
      BY <2>1, <2>3, <2>4, <2>5
  <1> QED
    BY <1>4, <1>5

(* The last part of both programs: what is registered there, is closed     *)
(* there, before the provider is.                                          *)
LEMMA LastStepsFacts ==
  ASSUME NEW e \in Seq(Steps), Ordered(e), EndsClosed(e), Neat({}, e), Supplied(Lasting, e),
         Closes(e) \cap PeerHandles = {}, NEW more \in {<<>>, Release}
  PROVE  LET s == LastSteps(e, more)
         IN  /\ s \in Seq(Steps) /\ Len(s) > 0 /\ Ordered(s) /\ EndsClosed(s) /\ Neat({}, s)
             /\ Supplied(Lasting, s)
             /\ \A h : h \in Closes(s) <=> h \in Closes(e) \cup {fab, dom, av} \cup PeerHandles
  <1> DEFINE a == <<Barrier>> \o Allocated
             b == a \o e
             f == FiniProv
             c == b \o f
             d == c \o more
             s == d \o <<Barrier>>
             A == Lasting
  <1>1. /\ a \in Seq(Steps) /\ Opening(a) /\ NoCalls(a) /\ Makes(a) = {} /\ Uses(a) = {} /\ Closes(a) = {}
        /\ Len(a) = 5 /\ \A B : Supplied(B, a)
    BY StartFacts, Zenon
  <1>2. s = LastSteps(e, more)
    BY DEF LastSteps
  <1>3. PeerHandles \subseteq A
    BY DEF Lasting
  <1>4. /\ f \in Seq(Steps) /\ NoCalls(f) /\ Makes(f) = {}
        /\ \A h : h \in Closes(f) <=> h \in {fab, dom, av} \cup PeerHandles
        /\ \A h : h \in Uses(f) => h \in PeerHandles
    BY <1>3, FiniProvFacts
  <1>5. Supplied(A, f)
    BY <1>3, FiniProvFacts
  <1>6. /\ more \in Seq(Steps) /\ NoCalls(more) /\ Makes(more) = {} /\ Uses(more) = {} /\ Closes(more) = {}
        /\ \A B : Supplied(B, more)
    BY ReleaseFacts, Zenon
  <1>7. /\ <<Barrier>> \in Seq(Steps) /\ NoCalls(<<Barrier>>) /\ Makes(<<Barrier>>) = {}
        /\ Uses(<<Barrier>>) = {} /\ Closes(<<Barrier>>) = {} /\ \A B : Supplied(B, <<Barrier>>)
    BY BarrierFacts
  <1> HIDE DEF a, f
  <1>8. /\ b \in Seq(Steps) /\ Ordered(b) /\ EndsClosed(b) /\ Makes(b) = Makes(e) /\ Closes(b) = Closes(e)
        /\ Uses(b) = Uses(e) /\ Len(b) >= 5
    <2>1. b \in Seq(Steps) /\ Len(b) = Len(a) + Len(e) /\ Len(e) \in Nat
      BY <1>1, ConcatStep, Zenon
    <2>2. Ordered(b) /\ EndsClosed(b)
      BY <1>1, ConcatOrdered
    <2>3. Makes(b) = Makes(e) /\ Closes(b) = Closes(e) /\ Uses(b) = Uses(e)
      <3>1. /\ Makes(b) = Makes(a) \cup Makes(e) /\ Closes(b) = Closes(a) \cup Closes(e)
            /\ Uses(b) = Uses(a) \cup Uses(e)
        BY <1>1, ConcatSets, Zenon
      <3> HIDE DEF b
      <3> QED
        BY <1>1, <3>1
    <2>4. Len(b) >= 5
      BY <1>1, <2>1
    <2> QED
      BY <2>1, <2>2, <2>3, <2>4
  <1>9. Neat({}, b) /\ Supplied(A, b)
    <2>1. Neat({}, a)
      BY <1>1 DEF NoCalls, Neat
    <2>2. Neat({} \cup Uses(a) \cup Makes(a), e)
      BY <1>1
    <2>3. Supplied(A \cup Makes(a), e) /\ Closes(a) \cap Uses(e) = {} /\ Supplied(A, a)
      BY <1>1
    <2>4. Neat({}, b)
      BY <1>1, <2>1, <2>2, ConcatNeat
    <2>5. Supplied(A, b)
      BY <1>1, <2>3, ConcatSupplied
    <2> QED
      BY <2>4, <2>5
  <1> HIDE DEF b
  <1>10. /\ c \in Seq(Steps) /\ Ordered(c) /\ EndsClosed(c) /\ Makes(c) = Makes(e)
         /\ \A h : h \in Closes(c) <=> h \in Closes(e) \cup {fab, dom, av} \cup PeerHandles
         /\ Len(c) >= 5
    <2>1. c \in Seq(Steps) /\ Len(c) = Len(b) + Len(f) /\ Len(b) \in Nat /\ Len(f) \in Nat
      BY <1>4, <1>8, ConcatStep
    <2>2. Ordered(c) /\ EndsClosed(c)
      BY <1>4, <1>8, ConcatOrdered
    <2>3. Makes(c) = Makes(b) \cup Makes(f) /\ Closes(c) = Closes(b) \cup Closes(f)
      BY <1>4, <1>8, ConcatSets, Zenon
    <2> QED
      BY <1>4, <1>8, <2>1, <2>2, <2>3
  <1>11. Neat({}, c) /\ Supplied(A, c)
    <2>1. Neat({} \cup Uses(b) \cup Makes(b), f)
      BY <1>4 DEF NoCalls, Neat
    <2>2. Closes(b) \cap Uses(f) = {}
      BY <1>4, <1>8
    <2>3. Supplied(A \cup Makes(b), f)
      <3>1. A \subseteq A \cup Makes(b)
        OBVIOUS
      <3> QED
        BY <1>5, <3>1, Monotone
    <2>4. Neat({}, c)
      BY <1>4, <1>8, <1>9, <2>1, ConcatNeat, Zenon
    <2>5. Supplied(A, c)
      BY <1>4, <1>8, <1>9, <2>2, <2>3, ConcatSupplied
    <2> QED
      BY <2>4, <2>5
  <1> HIDE DEF c
  <1>12. /\ d \in Seq(Steps) /\ Ordered(d) /\ EndsClosed(d)
         /\ \A h : h \in Closes(d) <=> h \in Closes(e) \cup {fab, dom, av} \cup PeerHandles
         /\ Len(d) >= 5
    <2>1. d \in Seq(Steps) /\ Len(d) = Len(c) + Len(more) /\ Len(c) \in Nat /\ Len(more) \in Nat
      BY <1>6, <1>10, ConcatStep
    <2>2. Ordered(d) /\ EndsClosed(d)
      BY <1>6, <1>10, ConcatOrdered
    <2>3. Closes(d) = Closes(c) \cup Closes(more)
      BY <1>6, <1>10, ConcatSets, Zenon
    <2> QED
      BY <1>6, <1>10, <2>1, <2>2, <2>3
  <1>13. Neat({}, d) /\ Supplied(A, d)
    <2>1. Neat({} \cup Uses(c) \cup Makes(c), more)
      BY <1>6 DEF NoCalls, Neat
    <2>2. Closes(c) \cap Uses(more) = {} /\ Supplied(A \cup Makes(c), more)
      BY <1>6
    <2>3. Neat({}, d)
      BY <1>6, <1>10, <1>11, <2>1, ConcatNeat
    <2>4. Supplied(A, d)
      BY <1>6, <1>10, <1>11, <2>2, ConcatSupplied
    <2> QED
      BY <2>3, <2>4
  <1> HIDE DEF d
  <1>14. /\ s \in Seq(Steps) /\ Ordered(s) /\ EndsClosed(s)
         /\ \A h : h \in Closes(s) <=> h \in Closes(e) \cup {fab, dom, av} \cup PeerHandles
         /\ Len(s) >= 5
    <2>1. s \in Seq(Steps) /\ Len(s) = Len(d) + Len(<<Barrier>>) /\ Len(d) \in Nat /\ Len(<<Barrier>>) \in Nat
      BY <1>7, <1>12, ConcatStep
    <2>2. Ordered(s) /\ EndsClosed(s)
      BY <1>7, <1>12, ConcatOrdered, Zenon
    <2>3. Closes(s) = Closes(d) \cup Closes(<<Barrier>>)
      BY <1>7, <1>12, ConcatSets, Zenon
    <2> QED
      BY <1>7, <1>12, <2>1, <2>2, <2>3
  <1>15. Neat({}, s) /\ Supplied(A, s)
    <2>1. Neat({} \cup Uses(d) \cup Makes(d), <<Barrier>>)
      BY <1>7 DEF NoCalls, Neat
    <2>2. Closes(d) \cap Uses(<<Barrier>>) = {} /\ Supplied(A \cup Makes(d), <<Barrier>>)
      BY <1>7
    <2>3. Neat({}, s)
      BY <1>7, <1>12, <1>13, <2>1, ConcatNeat, Zenon
    <2>4. Supplied(A, s)
      BY <1>7, <1>12, <1>13, <2>2, ConcatSupplied, Zenon
    <2> QED
      BY <2>3, <2>4
  <1> HIDE DEF s
  <1>16. Len(s) > 0
    <2>1. Len(s) \in Nat
      BY <1>14
    <2> QED
      BY <1>14, <2>1
  <1> QED
    BY <1>2, <1>14, <1>15, <1>16

(* What a rank does before it opens anything, where credentials are used   *)
AsHead(r) == IF r = 0 THEN 1 ELSE 0
CredentialSteps(r) == Acquire(r) \o Bcast(r) \o Access

(* The first part of a program with credentials, step by step: the head    *)
(* acquires, all meet in a broadcast, all access.                          *)
LEMMA CredentialFacts ==
  ASSUME NEW r
  PROVE  LET s == CredentialSteps(r)
             b == AsHead(r)
         IN  /\ s \in Seq(Steps) /\ Len(s) = 3 + b /\ Opening(s) /\ Makes(s) = {} /\ Neat({}, s)
             /\ \A A : Supplied(A, s)
             /\ Len(s) \in {3, 4}
             /\ \A k \in 1 .. Len(s) : s[k].name =
                  IF k = 3 + b THEN "drc_access" ELSE IF k = b THEN "drc_acquire" ELSE "ctpm_Barrier"
             /\ \A k \in 1 .. Len(s) : s[k].kind = IF k \in {b, 3 + b} THEN "call" ELSE "barrier"
             /\ \A k \in 1 .. Len(s) : s[k].use = {} /\ s[k].make = {} /\ s[k].drop = <<>>
  <1> DEFINE s == CredentialSteps(r)
             x == Call("drc_acquire", {}, {}, <<>>)
             y == Call("drc_access", {}, {}, <<>>)
  <1>1. x \in Steps /\ y \in Steps
    <2>1. <<>> \in Seq(Handles)
      OBVIOUS
    <2> QED
      BY <2>1 DEF Call, Steps, Kinds, Names
  <1>2. /\ x.kind = "call" /\ x.name = "drc_acquire" /\ x.use = {} /\ x.make = {} /\ x.drop = <<>>
        /\ y.kind = "call" /\ y.name = "drc_access" /\ y.use = {} /\ y.make = {} /\ y.drop = <<>>
        /\ Barrier.kind = "barrier" /\ Barrier.name = "ctpm_Barrier" /\ Barrier.use = {}
        /\ Barrier.make = {} /\ Barrier.drop = <<>>
    BY DEF Call, Barrier
  <1>3. s = (Acquire(r) \o <<Barrier, Barrier>>) \o <<y>>
    BY DEF CredentialSteps, Bcast, Access
  <1>4. Acquire(r) = IF r = 0 THEN <<x>> ELSE <<>>
    BY DEF Acquire
  <1> HIDE DEF x, y, s
  <1>5. <<Barrier, Barrier>> \in Seq(Steps) /\ Barrier \in Steps
    BY BarrierFacts
  <1>6. CASE r = 0
    <2>1. s \in Seq(Steps) /\ Len(s) = 4 /\ s[1] = x /\ s[2] = Barrier /\ s[3] = Barrier /\ s[4] = y
      BY <1>1, <1>3, <1>4, <1>5, <1>6
    <2>2. \A k \in 1 .. 4 : k = 1 \/ k = 2 \/ k = 3 \/ k = 4
      OBVIOUS
    <2>3. \A k \in 1 .. 4 : s[k].name =
            IF k = 4 THEN "drc_access" ELSE IF k = 1 THEN "drc_acquire" ELSE "ctpm_Barrier"
      BY <1>2, <2>1, <2>2
    <2>4. \A k \in 1 .. 4 : s[k].kind = IF k \in {1, 4} THEN "call" ELSE "barrier"
      BY <1>2, <2>1, <2>2
    <2>5. \A k \in 1 .. 4 : s[k].use = {} /\ s[k].make = {} /\ s[k].drop = <<>>
      BY <1>2, <2>1, <2>2
    <2>6. Opening(s)
      BY <2>1, <2>5 DEF Opening
    <2>7. Makes(s) = {}
      BY <2>1, <2>5 DEF Makes
    <2>8. Neat({}, s)
      BY <2>1, <2>5, Tuple0 DEF Neat
    <2>9. \A A : Supplied(A, s)
      BY <2>1, <2>5 DEF Supplied
    <2> QED
      BY <1>6, <2>1, <2>3, <2>4, <2>5, <2>6, <2>7, <2>8, <2>9 DEF s, AsHead
  <1>7. CASE r # 0
    <2>1. s \in Seq(Steps) /\ Len(s) = 3 /\ s[1] = Barrier /\ s[2] = Barrier /\ s[3] = y
      BY <1>1, <1>3, <1>4, <1>5, <1>7
    <2>2. \A k \in 1 .. 3 : k = 1 \/ k = 2 \/ k = 3
      OBVIOUS
    <2>3. \A k \in 1 .. 3 : s[k].name =
            IF k = 3 THEN "drc_access" ELSE IF k = 0 THEN "drc_acquire" ELSE "ctpm_Barrier"
      BY <1>2, <2>1, <2>2
    <2>4. \A k \in 1 .. 3 : s[k].kind = IF k \in {0, 3} THEN "call" ELSE "barrier"
      BY <1>2, <2>1, <2>2
    <2>5. \A k \in 1 .. 3 : s[k].use = {} /\ s[k].make = {} /\ s[k].drop = <<>>
      BY <1>2, <2>1, <2>2
    <2>6. Opening(s)
      BY <2>1, <2>5 DEF Opening
    <2>7. Makes(s) = {}
      BY <2>1, <2>5 DEF Makes
    <2>8. Neat({}, s)
      BY <2>1, <2>5, Tuple0 DEF Neat
    <2>9. \A A : Supplied(A, s)
      BY <2>1, <2>5 DEF Supplied
    <2> QED
      BY <1>7, <2>1, <2>3, <2>4, <2>5, <2>6, <2>7, <2>8, <2>9 DEF s, AsHead
  <1> QED
    BY <1>6, <1>7

(* The programs whose provider part goes on after an error                 *)
LEMMA ProviderProgram ==
  ASSUME NEW p \in {"random_access", "random_access_drc", "auth_key_test"},
         NEW e \in Seq(Steps), Ordered(e), EndsClosed(e), Neat({}, e), Supplied(Lasting, e),
         Closes(e) \cap PeerHandles = {}, p # "auth_key_test" => auth_mr \notin Closes(e),
         NEW more \in {<<>>, Release}, NEW how \in {"abort", "leave"}, NEW r,
         NEW drc \in BOOLEAN
  PROVE  Sound(p, (IF drc THEN <<Part(how, CredentialSteps(r))>> ELSE <<>>)
                    \o <<InitProv, Part("abort", LastSteps(e, more))>>)
  <1> DEFINE s == CredentialSteps(r)
             u == InitProv.steps
             z == LastSteps(e, more)
             X == Part(how, s)
             Y == InitProv
             Z == Part("abort", z)
             P == (IF drc THEN <<X>> ELSE <<>>) \o <<Y, Z>>
  <1>1. /\ s \in Seq(Steps) /\ Len(s) > 0 /\ Opening(s) /\ Makes(s) = {} /\ Neat({}, s)
        /\ \A A : Supplied(A, s)
    <2>1. s \in Seq(Steps) /\ Len(s) \in {3, 4} /\ Opening(s) /\ Makes(s) = {} /\ Neat({}, s)
      BY CredentialFacts
    <2>2. \A A : Supplied(A, s)
      BY CredentialFacts
    <2>3. Len(s) > 0
      BY <2>1
    <2> QED
      BY <2>1, <2>2, <2>3
  <1>2. /\ u \in Seq(Steps) /\ Len(u) > 4 /\ Opening(u) /\ Local(u)
        /\ \A h : h \in Makes(u) <=> h \in Lasting
        /\ Supplied({}, u) /\ Neat({}, u)
    BY InitProvFacts DEF Lasting
  <1>3. /\ z \in Seq(Steps) /\ Len(z) > 0 /\ Ordered(z) /\ EndsClosed(z) /\ Neat({}, z)
        /\ Supplied(Lasting, z)
        /\ \A h : h \in Closes(z) <=> h \in Closes(e) \cup {fab, dom, av} \cup PeerHandles
    BY LastStepsFacts
  <1>4. Y.on_error = "next"
    BY DEF InitProv, Part
  <1>5. Y \in Parts
    BY <1>2 DEF InitProv, Part, Parts
  <1> HIDE DEF s, u, z, Y
  <1>6. /\ X.on_error = how /\ X.steps = s /\ Z.on_error = "abort" /\ Z.steps = z /\ Y.steps = u
        /\ X \in Parts /\ Z \in Parts
    BY <1>1, <1>3 DEF Part, Parts, u, Y
  <1> HIDE DEF X, Z
  <1>7. Lasting \subseteq Kept \cup Closes(z)
    <2>1. addrs \in Kept
      BY KeptHandles
    <2> QED
      BY <1>3, <2>1 DEF Lasting
  <1>8. auth_mr \notin {fab, dom, av} \cup PeerHandles
    <2>1. auth_mr \notin {fab, dom, av} /\ \A q \in Ranks : auth_mr \notin {ep(q), scq(q), rcq(q)}
      BY DEF auth_mr, fab, dom, av, ep, scq, rcq
    <2> QED
      BY <2>1 DEF PeerHandles
  <1>9. p # "auth_key_test" => auth_mr \notin Closes(z)
    BY <1>3, <1>8
  <1>10. FirstThorough(p, s)
    <2>1. \A h, k : k \in 1 .. Len(s) => ~Made(h, s, k)
      <3> SUFFICES ASSUME NEW h, NEW k \in 1 .. Len(s), Made(h, s, k) PROVE FALSE
        OBVIOUS
      <3>1. PICK j \in 1 .. k - 1 : h \in s[j].make
        BY DEF Made
      <3>2. j \in 1 .. Len(s)
        BY <1>1
      <3> QED
        BY <1>1, <3>1, <3>2 DEF Makes
    <2>2. \A x : Careful(p, x)
      BY Zenon DEF Careful
    <2> QED
      BY <2>1, <2>2 DEF FirstThorough
  <1>11. Ordered(s) /\ Ordered(u)
    BY <1>1, <1>2, OrderedFacts
  <1>12. \A k \in 1 .. Len(u) : u[k].name # "drc_access"
    BY <1>2 DEF Local
  <1>13. CASE drc
    <2> DEFINE S == <<X>>
               T == <<Y, Z>>
    <2>1. P = S \o T
      BY <1>13
    <2>2. /\ P \in Seq(Parts) /\ Len(P) = 3 /\ P[1] = X /\ P[2] = Y /\ P[3] = Z
      <3>1. S \in Seq(Parts) /\ T \in Seq(Parts) /\ Len(S) = 1 /\ Len(T) = 2 /\ S[1] = X /\ T[1] = Y /\ T[2] = Z
        BY <1>5, <1>6
      <3> HIDE DEF S, T, P
      <3>2. /\ P \in Seq(Parts) /\ Len(P) = 1 + 2
            /\ \A i \in 1 .. 1 + 2 : P[i] = IF i <= 1 THEN S[i] ELSE T[i - 1]
        <4>1. /\ S \o T \in Seq(Parts) /\ Len(S \o T) = Len(S) + Len(T)
              /\ \A i \in 1 .. Len(S) + Len(T) : (S \o T)[i] = IF i <= Len(S) THEN S[i] ELSE T[i - Len(S)]
          BY <3>1, ConcatProperties, ZenonT(60)
        <4> QED
          BY <2>1, <3>1, <4>1
      <3>3. P[1] = S[1] /\ P[2] = T[2 - 1] /\ P[3] = T[3 - 1]
        BY <3>2
      <3> QED
        BY <3>1, <3>2, <3>3
    <2> HIDE DEF P, S, T
    <2>3. \A i \in 1 .. Len(P) : i = 1 \/ i = 2 \/ i = 3
      BY <2>2
    <2>4. \A h : h \in Lasting => h \in Before(P, 3)
      BY <1>2, <1>6, <2>2 DEF Before
    <2>5. Supplied(Before(P, 1), s) /\ Supplied(Before(P, 2), u) /\ Supplied(Before(P, 3), z)
      <3>1. Lasting \subseteq Before(P, 3)
        BY <2>4
      <3>2. Supplied(Before(P, 2), u)
        BY <1>2, Monotone
      <3>3. Supplied(Before(P, 3), z)
        BY <1>3, <3>1, Monotone
      <3> QED
        BY <1>1, <3>2, <3>3
    <2>6. WellMade(P)
      <3>1. \A i \in 1 .. Len(P) :
              Len(P[i].steps) > 0 /\ Ordered(P[i].steps) /\ Supplied(Before(P, i), P[i].steps)
        BY <1>1, <1>2, <1>3, <1>6, <1>11, <2>2, <2>3, <2>5
      <3>2. \A i \in 1 .. Len(P) - 1 :
              Opening(P[i].steps) /\ Makes(P[i].steps) \subseteq Kept \cup Closes(P[Len(P)].steps)
        <4>1. \A i \in 1 .. Len(P) - 1 : i = 1 \/ i = 2
          BY <2>2
        <4>2. Makes(s) \subseteq Kept \cup Closes(z) /\ Makes(u) \subseteq Kept \cup Closes(z)
          BY <1>1, <1>2, <1>7
        <4> QED
          BY <1>1, <1>2, <1>6, <2>2, <4>1, <4>2
      <3> QED
        BY <1>3, <1>6, <2>2, <3>1, <3>2 DEF WellMade
    <2>7. ASSUME NEW i \in 1 .. Len(P), NEW k \in 1 .. Len(P[i].steps), P[i].steps[k].kind = "call"
          PROVE  ClosesItsOwn(P[i].steps, k)
      <3>1. Neat({}, P[i].steps)
        BY <1>1, <1>2, <1>3, <1>6, <2>2, <2>3, Zenon
      <3> QED
        BY <2>7, <3>1, NeatFacts
    <2>8. \A i \in 1 .. Len(P) : P[i].on_error = "next" => i # Len(P) /\ \A k \in 1 .. Len(P[i].steps) : P[i].steps[k].name # "drc_access"
      BY <1>6, <1>12, <2>2, <2>3
    <2>9. /\ FirstThorough(p, P[1].steps)
          /\ p # "auth_key_test" => auth_mr \notin Closes(P[Len(P)].steps)
      BY <1>6, <1>9, <1>10, <2>2
    <2>10. Sound(p, P)
      BY <2>6, <2>7, <2>8, <2>9 DEF Sound
    <2> QED
      BY <2>10 DEF P, X, Y, Z, s, z
  <1>14. CASE ~drc
    <2>1. P = <<Y, Z>>
      <3>1. <<Y, Z>> \in Seq(Parts)
        BY <1>5, <1>6
      <3>2. <<>> \o <<Y, Z>> = <<Y, Z>>
        BY <3>1
      <3> QED
        BY <1>14, <3>2
    <2> HIDE DEF P
    <2>2. /\ P \in Seq(Parts) /\ Len(P) = 2 /\ P[1] = Y /\ P[2] = Z
      BY <1>5, <1>6, <2>1
    <2>3. \A i \in 1 .. Len(P) : i = 1 \/ i = 2
      BY <2>2
    <2>4. \A h : h \in Lasting => h \in Before(P, 2)
      BY <1>2, <1>6, <2>2 DEF Before
    <2>5. Supplied(Before(P, 1), u) /\ Supplied(Before(P, 2), z)
      <3>1. Lasting \subseteq Before(P, 2)
        BY <2>4
      <3>2. Supplied(Before(P, 1), u)
        BY <1>2, Monotone
      <3>3. Supplied(Before(P, 2), z)
        BY <1>3, <3>1, Monotone
      <3> QED
        BY <3>2, <3>3
    <2>6. WellMade(P)
      <3>1. \A i \in 1 .. Len(P) :
              Len(P[i].steps) > 0 /\ Ordered(P[i].steps) /\ Supplied(Before(P, i), P[i].steps)
        BY <1>2, <1>3, <1>6, <1>11, <2>2, <2>3, <2>5
      <3>2. \A i \in 1 .. Len(P) - 1 :
              Opening(P[i].steps) /\ Makes(P[i].steps) \subseteq Kept \cup Closes(P[Len(P)].steps)
        <4>1. \A i \in 1 .. Len(P) - 1 : i = 1
          BY <2>2
        <4>2. Makes(u) \subseteq Kept \cup Closes(z)
          BY <1>2, <1>7
        <4> QED
          BY <1>2, <1>6, <2>2, <4>1, <4>2
      <3> QED
        BY <1>3, <1>6, <2>2, <3>1, <3>2 DEF WellMade
    <2>7. ASSUME NEW i \in 1 .. Len(P), NEW k \in 1 .. Len(P[i].steps), P[i].steps[k].kind = "call"
          PROVE  ClosesItsOwn(P[i].steps, k)
      <3>1. Neat({}, P[i].steps)
        BY <1>2, <1>3, <1>6, <2>2, <2>3, Zenon
      <3> QED
        BY <2>7, <3>1, NeatFacts
    <2>8. \A i \in 1 .. Len(P) : P[i].on_error = "next" => i # Len(P) /\ \A k \in 1 .. Len(P[i].steps) : P[i].steps[k].name # "drc_access"
      BY <1>6, <1>12, <2>2, <2>3
    <2>9. /\ P[1].on_error # "leave"
          /\ p # "auth_key_test" => auth_mr \notin Closes(P[Len(P)].steps)
      BY <1>4, <1>6, <1>9, <2>2
    <2>10. Sound(p, P)
      BY <2>6, <2>7, <2>8, <2>9 DEF Sound
    <2> QED
      BY <2>10 DEF P, X, Y, Z, s, z
  <1> QED
    BY <1>13, <1>14

(* random_access is sound, with a credential and without.                  *)
LEMMA AccessProgramFacts ==
  ASSUME NEW p \in {"random_access", "random_access_drc"}, NEW r
  PROVE  Sound(p, AccessProgram(p, r))
  <1> DEFINE e == AccessExchange
             drc == p = "random_access_drc"
             more == IF drc THEN Release ELSE <<>>
             z == LastSteps(e, more)
  <1>1. /\ e \in Seq(Steps) /\ Ordered(e) /\ EndsClosed(e) /\ Neat({}, e)
        /\ \A h : h \in Closes(e) <=> h \in {table_mr, lock_mr, scratch_mr}
    BY AccessExchangeFacts
  <1>2. Supplied(Lasting, e)
    <2>1. dom \in Lasting /\ PeerHandles \subseteq Lasting
      BY DEF Lasting
    <2> QED
      BY <2>1, AccessExchangeFacts
  <1>3. \A q \in Ranks : {ep(q), scq(q), rcq(q)} \cap {table_mr, lock_mr, scratch_mr} = {}
    BY DEF ep, scq, rcq, table_mr, lock_mr, scratch_mr
  <1>4. Closes(e) \cap PeerHandles = {}
    BY <1>1, <1>3, Zenon DEF PeerHandles
  <1>5. auth_mr \notin Closes(e)
    <2>1. auth_mr \notin {table_mr, lock_mr, scratch_mr}
      BY DEF auth_mr, table_mr, lock_mr, scratch_mr
    <2> QED
      BY <1>1, <2>1
  <1>6. AccessTest = (<<Barrier>> \o Allocated) \o e
    BY Zenon DEF AccessTest, AccessExchange, AccessNeeds
  <1>7. AccessProgram(p, r) =
          (IF drc THEN <<Part("abort", CredentialSteps(r))>> ELSE <<>>)
            \o <<InitProv, Part("abort", AccessTest \o FiniProv \o more \o <<Barrier>>)>>
    BY Zenon DEF AccessProgram, CredentialSteps
  <1> HIDE DEF e
  <1>8. AccessTest \o FiniProv \o more \o <<Barrier>> = z
    BY <1>6 DEF LastSteps
  <1>9. AccessProgram(p, r) =
          (IF drc THEN <<Part("abort", CredentialSteps(r))>> ELSE <<>>) \o <<InitProv, Part("abort", z)>>
    BY <1>7, <1>8, Zenon
  <1>10. more \in {<<>>, Release} /\ drc \in BOOLEAN
    OBVIOUS
  <1> HIDE DEF drc, more
  <1>11. p \in {"random_access", "random_access_drc", "auth_key_test"} /\ "abort" \in {"abort", "leave"}
    OBVIOUS
  <1>12. Sound(p, (IF drc THEN <<Part("abort", CredentialSteps(r))>> ELSE <<>>) \o <<InitProv, Part("abort", z)>>)
    BY <1>1, <1>2, <1>4, <1>5, <1>10, <1>11, ProviderProgram, Zenon
  <1> QED
    BY <1>9, <1>12

AuthSteps(r) == LastSteps(AuthExchange, IF r = 0 THEN Release ELSE <<>>)

(* The three parts of auth_key_test                                        *)
LEMMA AuthProgramIs ==
  ASSUME NEW r
  PROVE  AuthProgram(r) = << Part("leave", CredentialSteps(r)), InitProv, Part("abort", AuthSteps(r)) >>
  <1> DEFINE e == AuthExchange
             more == IF r = 0 THEN Release ELSE <<>>
  <1>1. AuthTest = (<<Barrier>> \o Allocated) \o e
    BY Zenon DEF AuthTest, AuthExchange
  <1>2. AuthProgram(r) =
          << Part("leave", CredentialSteps(r)), InitProv, Part("abort", AuthTest \o FiniProv \o more \o <<Barrier>>) >>
    BY Zenon DEF AuthProgram, CredentialSteps
  <1> HIDE DEF e, more
  <1>3. AuthTest \o FiniProv \o more \o <<Barrier>> = LastSteps(e, more)
    BY <1>1 DEF LastSteps
  <1>4. AuthSteps(r) = LastSteps(e, more)
    BY DEF AuthSteps, e, more
  <1> QED
    BY <1>2, <1>3, <1>4, Zenon

(* auth_key_test is sound.                                                 *)
LEMMA AuthProgramFacts ==
  ASSUME NEW r
  PROVE  Sound("auth_key_test", AuthProgram(r))
  <1> DEFINE e == AuthExchange
             more == IF r = 0 THEN Release ELSE <<>>
             z == AuthSteps(r)
             X == Part("leave", CredentialSteps(r))
             Z == Part("abort", LastSteps(e, more))
  <1>1. /\ e \in Seq(Steps) /\ Ordered(e) /\ EndsClosed(e) /\ Neat({}, e)
        /\ \A h : h \in Closes(e) <=> h \in {table_mr, auth_mr}
    BY AuthExchangeFacts
  <1>2. Supplied(Lasting, e)
    <2>1. dom \in Lasting
      BY DEF Lasting
    <2> QED
      BY <2>1, AuthExchangeFacts
  <1>3. \A q \in Ranks : {ep(q), scq(q), rcq(q)} \cap {table_mr, auth_mr} = {}
    BY DEF ep, scq, rcq, table_mr, auth_mr
  <1>4. Closes(e) \cap PeerHandles = {}
    BY <1>1, <1>3, Zenon DEF PeerHandles
  <1>5. AuthProgram(r) = <<X, InitProv, Z>>
    BY AuthProgramIs DEF AuthSteps
  <1>6. more \in {<<>>, Release}
    OBVIOUS
  <1>7. InitProv \in Parts
    BY InitProvFacts DEF InitProv, Part, Parts
  <1> HIDE DEF more, e
  <1>8. Sound("auth_key_test", (IF TRUE THEN <<X>> ELSE <<>>) \o <<InitProv, Z>>)
    BY <1>1, <1>2, <1>4, <1>6, ProviderProgram, Zenon
  <1>9. X \in Parts /\ Z \in Parts
    <2>1. CredentialSteps(r) \in Seq(Steps)
      BY CredentialFacts
    <2>2. LastSteps(e, more) \in Seq(Steps)
      BY <1>1, <1>2, <1>4, <1>6, LastStepsFacts
    <2> QED
      BY <2>1, <2>2 DEF Part, Parts
  <1> HIDE DEF X, Z
  <1>10. <<X>> \o <<InitProv, Z>> = <<X, InitProv, Z>>
    <2> DEFINE S == <<X>>
               T == <<InitProv, Z>>
    <2>1. S \in Seq(Parts) /\ T \in Seq(Parts) /\ Len(S) = 1 /\ Len(T) = 2 /\ S[1] = X /\ T[1] = InitProv /\ T[2] = Z
      BY <1>7, <1>9
    <2>2. <<X, InitProv, Z>> \in Seq(Parts) /\ Len(<<X, InitProv, Z>>) = 3
      BY <1>7, <1>9
    <2> DEFINE P == S \o T
    <2>3. /\ P \in Seq(Parts) /\ Len(P) = 3
          /\ P[1] = X /\ P[2] = InitProv /\ P[3] = Z
      <3> HIDE DEF S, T
      <3>1. /\ P \in Seq(Parts) /\ Len(P) = Len(S) + Len(T)
            /\ \A i \in 1 .. Len(S) + Len(T) : P[i] = IF i <= Len(S) THEN S[i] ELSE T[i - Len(S)]
        BY <2>1, ConcatProperties
      <3> HIDE DEF P
      <3>2. P[1] = S[1] /\ P[2] = T[2 - 1] /\ P[3] = T[3 - 1]
        BY <2>1, <3>1
      <3> QED
        BY <2>1, <3>1, <3>2
    <2> DEFINE Q == <<X, InitProv, Z>>
    <2>4. Q \in Seq(Parts) /\ Len(Q) = 3 /\ Q[1] = X /\ Q[2] = InitProv /\ Q[3] = Z
      BY <2>2
    <2>5. P = Q
      <3> HIDE DEF P, Q
      <3>1. \A i \in 1 .. 3 : i = 1 \/ i = 2 \/ i = 3
        OBVIOUS
      <3>2. \A i \in 1 .. Len(P) : P[i] = Q[i]
        BY <2>3, <2>4, <3>1
      <3> QED
        BY <2>3, <2>4, <3>2, SeqEqual
    <2> QED
      BY <2>5
  <1> QED
    BY <1>5, <1>8, <1>10, Zenon

(* Every program opens and closes soundly, whatever the number of ranks    *)
(* and threads (init_fabric, init_endpoint, alloc_ep_res, init_gnix_prov,  *)
(* fini_per_thread_data, fini_gnix_prov and their labels): every error     *)
(* path closes, each once, only handles that its part has made or used,    *)
(* except those of alloc_ep_res with counters; an error of a first part    *)
(* that leaves main closes all; what is made is closed by the last part,   *)
(* in an order in which each step finds what it uses.                      *)
THEOREM EveryProgramSound ==
  ASSUME NEW p \in AllPrograms, NEW r \in Ranks
  PROVE  Sound(p, Code[p][r])
  <1>1. CASE p \in {"rdm_one_sided", "rdm_pingpong"}
    <2>1. Code[p][r] = ThreadProgram(p, r)
      BY <1>1 DEF Code
    <2> QED
      BY <1>1, <2>1, ThreadProgramFacts
  <1>2. CASE p \in {"rdm_mbw_mr", "rdm_mbw_mr_cntr"}
    <2>1. Code[p][r] = MbwProgram(p)
      BY <1>2 DEF Code
    <2> QED
      BY <1>2, <2>1, MbwProgramFacts
  <1>3. CASE p \in {"random_access", "random_access_drc"}
    <2>1. Code[p][r] = AccessProgram(p, r)
      BY <1>3 DEF Code
    <2> QED
      BY <1>3, <2>1, AccessProgramFacts
  <1>4. CASE p = "auth_key_test"
    <2>1. Code[p][r] = AuthProgram(r)
      BY <1>4 DEF Code
    <2> QED
      BY <1>4, <2>1, AuthProgramFacts
  <1> QED
    BY <1>1, <1>2, <1>3, <1>4 DEF AllPrograms
=============================================================================
