------------------------- MODULE EpSetupRuns_proofs -------------------------
(***************************************************************************)
(* The ranks of the multi-node programs, which run their steps at their    *)
(* own pace, meet in barriers and allgathers, and fail anywhere, for any   *)
(* number of ranks, threads and failures.  What their code opens and       *)
(* closes is in EpSetup_proofs.                                            *)
(***************************************************************************)
EXTENDS EpSetup_proofs

-----------------------------------------------------------------------------
(* The state                                                               *)

Statuses == {"run", "done", "left", "aborted", "misuse", "bad close"}
Labels == Names \cup {"ranks"}
Flag(b) == IF b THEN 1 ELSE 0

Typed ==
  /\ prog \in AllPrograms
  /\ at \in [Ranks -> Nat \X Nat] /\ status \in [Ranks -> Statuses]
  /\ in \in [Ranks -> BOOLEAN] /\ mixed \in [Ranks -> BOOLEAN]
  /\ open \in [Ranks -> SUBSET Handles]
  /\ calls \in [Ranks -> Nat] /\ sent \in [Ranks -> Seq(Labels)]
  /\ cred \in {"none", "held", "released"}
  /\ failed \in [Ranks -> Seq(Names)]
  /\ \A r \in Ranks : /\ at[r][1] \in 1 .. Len(Code[prog][r])
                      /\ at[r][2] \in 1 .. Len(Code[prog][r][at[r][1]].steps)

MbwPrograms == {"rdm_mbw_mr", "rdm_mbw_mr_cntr"}
Shut(s, k) == \E j \in 1 .. k - 1 : s[j].kind = "step" /\ s[j].drop # <<>>

(* What a rank of program p, before step k of part i of P, has open: o.    *)
(* What this part has made or used, as long as it closes nothing:          *)
HasItsOwn(s, k, o) == \A h : Made(h, s, k) \/ Used(h, s, k) => h \in o \/ Shut(s, k)
(* all that has been made and not closed, if no call has failed:           *)
HasAll(P, i, k, o) ==
  \A h : h \in Before(P, i) \/ Made(h, P[i].steps, k) => h \in o \/ Closed(h, P[i].steps, k)
(* and nothing but what is still to be closed.                             *)
Closing(P, i, k, h) ==
  IF i = Len(P) THEN \E j \in k .. Len(P[i].steps) : P[i].steps[j].kind = "step" /\ h \in ToSet(P[i].steps[j].drop)
                ELSE h \in Closes(P[Len(P)].steps)
HasNoMore(P, i, k, o) == \A h \in o : h \in Kept \/ Closing(P, i, k, h)
FirstHasNoMore(P, k, o) == \A h \in o : h \in Kept \/ Made(h, P[1].steps, k)

CleanAt(p, P, i, k, st, o, f) ==
  /\ st = "run" => HasItsOwn(P[i].steps, k, o)
  /\ st = "run" /\ f = <<>> => HasAll(P, i, k, o)
  /\ st # "done" => HasNoMore(P, i, k, o)
  /\ st # "done" /\ i = 1 => FirstHasNoMore(P, k, o)
  /\ p \in MbwPrograms /\ st = "run" => f = <<>>
  /\ st = "bad close" =>
       p = "rdm_mbw_mr_cntr" /\ f # <<>> /\ Last(f) \in {"fi_cntr_open 2", "fi_av_open"}
  /\ st = "misuse" => f # <<>> /\ p \notin MbwPrograms
  /\ st = "done" \/ (st = "left" /\ i = 1) => o \subseteq Kept

Clean(r) == CleanAt(prog, Code[prog][r], at[r][1], at[r][2], status[r], open[r], failed[r])

-----------------------------------------------------------------------------
(* auth_key_test, step by step                                             *)

(* The steps of the last part: kinds, and what concerns the credential     *)
AuthKind(k) ==
  IF k \in {1, 2, 4, 5, 8, 10, 12, 13, 14, 18, 19} THEN "barrier"
  ELSE IF k \in {3, 9, 11} THEN "gather" ELSE IF k \in {6, 7} THEN "call" ELSE "step"

(* The steps of the last part: the memory is registered at the seventh and *)
(* closed at the seventeenth, and only the head releases the credential,   *)
(* later than both.                                                        *)
LEMMA AuthPositions ==
  ASSUME NEW r
  PROVE  LET s == AuthSteps(r)
         IN  /\ s \in Seq(Steps) /\ Len(s) \in Nat /\ Len(s) >= 20
             /\ \A k \in 1 .. 19 : s[k].kind = AuthKind(k)
             /\ \A k \in 20 .. Len(s) : s[k].kind = IF k = Len(s) THEN "barrier" ELSE "step"
             /\ \A k \in 1 .. Len(s) : auth_mr \in s[k].make => k = 7
             /\ auth_mr \in ToSet(s[17].drop)
             /\ \A k \in 1 .. Len(s) : s[k].name # "drc_acquire" /\ s[k].name # "drc_access"
             /\ \A k \in 1 .. Len(s) : s[k].name = "drc_release" => r = 0 /\ k >= 20 /\ k # Len(s)
  <1> DEFINE a == <<Barrier>> \o Allocated
             e == AuthExchange
             b == a \o e
             f == FiniProv
             c == b \o f
             more == IF r = 0 THEN Release ELSE <<>>
             d == c \o more
             s == d \o <<Barrier>>
             drc == {"drc_acquire", "drc_access", "drc_release"}
  <1>1. /\ a \in Seq(Steps) /\ Len(a) = 5 /\ Makes(a) = {} /\ Local(a)
        /\ \A k \in 1 .. 5 : a[k].kind = IF k = 3 THEN "gather" ELSE "barrier"
    BY StartFacts
  <1>2. /\ e \in Seq(Steps) /\ Len(e) = 14 /\ Local(e)
        /\ \A k \in 1 .. 14 : e[k].kind = IF k \in {1, 2} THEN "call" ELSE IF k \in {4, 6} THEN "gather"
                       ELSE IF k \in {10, 11, 12} THEN "step" ELSE "barrier"
    BY AuthExchangeFacts
  <1>3. /\ \A k \in 1 .. 14 : auth_mr \in e[k].make <=> k = 2
        /\ \A k \in 1 .. 14 : e[k].kind = "step" => (auth_mr \in ToSet(e[k].drop) <=> k = 12)
    BY AuthExchangeFacts
  <1>4. f \in Seq(Steps) /\ Only({"step"}, f) /\ Local(f) /\ Makes(f) = {}
    BY FiniProvFacts
  <1>5. more \in Seq(Steps) /\ Only({"step"}, more) /\ Makes(more) = {}
    BY ReleaseFacts
  <1>6. \A k \in 1 .. Len(more) : more[k].name # "drc_acquire" /\ more[k].name # "drc_access" /\ r = 0
    <2>1. CASE r = 0
      <3>1. more = << Do("drc_release", {}, {}, <<>>) >>
        BY <2>1 DEF Release
      <3>2. \A k \in 1 .. Len(more) : more[k] = Do("drc_release", {}, {}, <<>>)
        BY <3>1
      <3>3. Do("drc_release", {}, {}, <<>>).name = "drc_release"
        BY DEF Do
      <3> HIDE DEF more
      <3> QED
        BY <2>1, <3>2, <3>3
    <2>2. CASE r # 0
      <3>1. Len(more) = 0
        BY <2>2
      <3> QED
        BY <3>1
    <2> QED
      BY <2>1, <2>2
  <1>7. /\ <<Barrier>> \in Seq(Steps) /\ Local(<<Barrier>>) /\ Makes(<<Barrier>>) = {}
        /\ <<Barrier>>[1].kind = "barrier" /\ Len(<<Barrier>>) = 1
    <2>1. Barrier.kind = "barrier"
      BY DEF Barrier
    <2> QED
      BY <2>1, BarrierFacts
  <1>8. s = AuthSteps(r)
    BY DEF AuthSteps, LastSteps
  <1> HIDE DEF a, e, f, more
  <1>9. /\ b \in Seq(Steps) /\ Len(b) = 19
        /\ \A k \in 1 .. 5 : b[k] = a[k]
        /\ \A k \in 1 .. 14 : b[5 + k] = e[k]
    <2>1. /\ b \in Seq(Steps) /\ Len(b) = Len(a) + Len(e)
          /\ \A k \in 1 .. Len(a) : b[k] = a[k]
          /\ \A k \in 1 .. Len(e) : b[Len(a) + k] = e[k]
      BY <1>1, <1>2, ConcatStep, ZenonT(60)
    <2> HIDE DEF b
    <2> QED
      BY <1>1, <1>2, <2>1
  <1>10. Local(b)
    BY <1>1, <1>2, ConcatPlain
  <1> HIDE DEF b
  <1>11. \A k \in 1 .. 19 : k \in 1 .. 5 \/ (k - 5 \in 1 .. 14 /\ k = 5 + (k - 5))
    OBVIOUS
  <1>12. ASSUME NEW k \in 1 .. 19 PROVE b[k].kind = AuthKind(k)
    <2>1. CASE k \in 1 .. 5
      <3>1. b[k].kind = IF k = 3 THEN "gather" ELSE "barrier"
        BY <1>1, <1>9, <2>1, Zenon
      <3> QED
        BY <2>1, <3>1 DEF AuthKind
    <2>2. CASE k \notin 1 .. 5
      <3> DEFINE j == k - 5
      <3>1. j \in 1 .. 14 /\ k = 5 + j
        BY <1>11, <2>2
      <3> HIDE DEF j
      <3>2. b[k] = e[j]
        BY <1>9, <3>1, Zenon
      <3>3. b[k].kind = IF j \in {1, 2} THEN "call" ELSE IF j \in {4, 6} THEN "gather"
                       ELSE IF j \in {10, 11, 12} THEN "step" ELSE "barrier"
        BY <1>2, <3>1, <3>2, Zenon
      <3> QED
        BY <3>1, <3>3 DEF AuthKind
    <2> QED
      BY <2>1, <2>2
  <1>13. ASSUME NEW k \in 1 .. 19, auth_mr \in b[k].make PROVE k = 7
    <2>1. CASE k \in 1 .. 5
      <3>1. b[k].make \subseteq Makes(a)
        BY <1>1, <1>9, <2>1, Zenon DEF Makes
      <3> QED
        BY <1>1, <1>13, <3>1
    <2>2. CASE k \notin 1 .. 5
      <3> DEFINE j == k - 5
      <3>1. j \in 1 .. 14 /\ k = 5 + j
        BY <1>11, <2>2
      <3> HIDE DEF j
      <3>2. b[k] = e[j]
        BY <1>9, <3>1, Zenon
      <3>3. j = 2
        BY <1>3, <1>13, <3>1, <3>2
      <3> QED
        BY <3>1, <3>3
    <2> QED
      BY <2>1, <2>2
  <1>14. auth_mr \in ToSet(b[17].drop)
    <2>1. 12 \in 1 .. 14 /\ b[5 + 12] = e[12] /\ 5 + 12 = 17
      BY <1>9
    <2>2. e[12].kind = "step"
      BY <1>2, <2>1
    <2>3. auth_mr \in ToSet(e[12].drop)
      BY <1>3, <2>1, <2>2
    <2> QED
      BY <2>1, <2>3
  <1> DEFINE m == Len(f)
             l == Len(more)
  <1>15. m \in Nat /\ l \in Nat
    BY <1>4, <1>5
  <1>16. /\ c \in Seq(Steps) /\ Len(c) = 19 + m
         /\ \A k \in 1 .. 19 : c[k] = b[k]
         /\ \A k \in 1 .. m : c[19 + k] = f[k]
         /\ Local(c)
    <2>1. /\ c \in Seq(Steps) /\ Len(c) = Len(b) + Len(f)
          /\ \A k \in 1 .. Len(b) : c[k] = b[k]
          /\ \A k \in 1 .. Len(f) : c[Len(b) + k] = f[k]
      BY <1>4, <1>9, ConcatStep, ZenonT(60)
    <2>2. Local(c)
      BY <1>4, <1>9, <1>10, ConcatPlain
    <2> HIDE DEF c
    <2> QED
      BY <1>9, <2>1, <2>2, Zenon
  <1> HIDE DEF c
  <1>17. /\ d \in Seq(Steps) /\ Len(d) = 19 + m + l
         /\ \A k \in 1 .. 19 + m : d[k] = c[k]
         /\ \A k \in 1 .. l : d[(19 + m) + k] = more[k]
    <2>1. /\ d \in Seq(Steps) /\ Len(d) = Len(c) + Len(more)
          /\ \A k \in 1 .. Len(c) : d[k] = c[k]
          /\ \A k \in 1 .. Len(more) : d[Len(c) + k] = more[k]
      BY <1>5, <1>16, ConcatStep, Zenon
    <2> HIDE DEF d
    <2> QED
      BY <1>16, <2>1
  <1> HIDE DEF d
  <1>18. /\ s \in Seq(Steps) /\ Len(s) = 20 + m + l
         /\ \A k \in 1 .. 19 + m + l : s[k] = d[k]
         /\ s[20 + m + l] = <<Barrier>>[1]
    <2>1. /\ s \in Seq(Steps) /\ Len(s) = Len(d) + Len(<<Barrier>>)
          /\ \A k \in 1 .. Len(d) : s[k] = d[k]
          /\ \A k \in 1 .. Len(<<Barrier>>) : s[Len(d) + k] = <<Barrier>>[k]
      BY <1>7, <1>17, ConcatStep, Zenon
    <2> HIDE DEF s
    <2>2. s[Len(d) + 1] = <<Barrier>>[1]
      BY <1>7, <2>1
    <2>3. Len(d) + 1 = 20 + m + l /\ Len(s) = 20 + m + l
      BY <1>7, <1>15, <1>17, <2>1
    <2> QED
      BY <1>17, <2>1, <2>2, <2>3
  <1> HIDE DEF s
  <1>19. \A k \in 1 .. 19 : s[k] = b[k]
    <2> SUFFICES ASSUME NEW k \in 1 .. 19 PROVE s[k] = b[k]
      OBVIOUS
    <2>1. k \in 1 .. 19 + m /\ k \in 1 .. 19 + m + l
      BY <1>15
    <2> QED
      BY <1>16, <1>17, <1>18, <2>1, Zenon
  <1>20. ASSUME NEW k \in 20 .. Len(s)
         PROVE  \/ \E j \in 1 .. m : s[k] = f[j]
                \/ (\E j \in 1 .. l : s[k] = more[j]) /\ k # Len(s)
                \/ s[k] = <<Barrier>>[1] /\ k = Len(s)
    <2>1. CASE k <= 19 + m
      <3> DEFINE j == k - 19
      <3>1. j \in 1 .. m /\ k = 19 + j /\ k \in 1 .. 19 + m /\ k \in 1 .. 19 + m + l
        BY <1>15, <1>18, <2>1
      <3> HIDE DEF j
      <3>2. s[k] = f[j]
        BY <1>16, <1>17, <1>18, <3>1, Zenon
      <3> QED
        BY <3>1, <3>2
    <2>2. CASE k > 19 + m /\ k <= 19 + m + l
      <3> DEFINE j == k - (19 + m)
      <3>1. j \in 1 .. l /\ k = (19 + m) + j /\ k \in 1 .. 19 + m + l /\ k # 20 + m + l
        BY <1>15, <1>18, <2>2
      <3> HIDE DEF j
      <3>2. s[k] = more[j]
        BY <1>17, <1>18, <3>1
      <3> QED
        BY <1>18, <3>1, <3>2
    <2>3. CASE k > 19 + m + l
      <3>1. k = 20 + m + l
        BY <1>15, <1>18, <2>3
      <3> QED
        BY <1>18, <3>1
    <2> QED
      BY <1>15, <2>1, <2>2, <2>3
  <1>21. ASSUME NEW k \in 20 .. Len(s), k # Len(s) PROVE s[k].kind = "step"
    BY <1>4, <1>5, <1>20, <1>21 DEF Only
  <1>22. s[Len(s)].kind = "barrier"
    BY <1>7, <1>18
  <1>23. ASSUME NEW k \in 20 .. Len(s) PROVE auth_mr \notin s[k].make
    <2>1. \A j \in 1 .. m : auth_mr \notin f[j].make
      BY <1>4 DEF Makes
    <2>2. \A j \in 1 .. l : auth_mr \notin more[j].make
      BY <1>5 DEF Makes
    <2>3. auth_mr \notin <<Barrier>>[1].make
      BY <1>7 DEF Makes
    <2> QED
      BY <1>20, <2>1, <2>2, <2>3
  <1>24. \A k \in 1 .. 19 : s[k].name \notin drc
    BY <1>9, <1>10, <1>19, Zenon DEF Local
  <1>25. ASSUME NEW k \in 20 .. Len(s)
         PROVE  s[k].name \notin drc \/ ((\E j \in 1 .. l : s[k] = more[j]) /\ k # Len(s))
    <2>1. \A j \in 1 .. m : f[j].name \notin drc
      BY <1>4 DEF Local
    <2>2. <<Barrier>>[1].name \notin drc
      BY <1>7 DEF Local
    <2> QED
      BY <1>20, <2>1, <2>2
  <1>26. Len(s) \in Nat /\ Len(s) >= 20 /\ \A k \in 1 .. Len(s) : k \in 1 .. 19 \/ k \in 20 .. Len(s)
    BY <1>15, <1>18
  <1>27. \A k \in 1 .. 19 : s[k].kind = AuthKind(k)
    BY <1>12, <1>19
  <1>28. \A k \in 1 .. Len(s) : auth_mr \in s[k].make => k = 7
    BY <1>13, <1>19, <1>23, <1>26, Zenon
  <1>29. auth_mr \in ToSet(s[17].drop)
    BY <1>14, <1>19
  <1>30. ASSUME NEW k \in 1 .. Len(s)
         PROVE  /\ s[k].name # "drc_acquire" /\ s[k].name # "drc_access"
                /\ s[k].name = "drc_release" => r = 0 /\ k >= 20 /\ k # Len(s)
    <2>1. CASE k \in 1 .. 19
      BY <1>24, <2>1, Zenon
    <2>2. CASE k \in 20 .. Len(s)
      BY <1>6, <1>25, <2>2
    <2> QED
      BY <1>26, <2>1, <2>2
  <1> QED
    BY <1>8, <1>18, <1>21, <1>22, <1>26, <1>27, <1>28, <1>29, <1>30, Zenon
-----------------------------------------------------------------------------
(* auth_key_test: the barriers and the data a rank has passed in part 3    *)
Barriers(k) ==
  Flag(k > 1) + Flag(k > 2) + Flag(k > 4) + Flag(k > 5) + Flag(k > 8) + Flag(k > 10)
    + Flag(k > 12) + Flag(k > 13) + Flag(k > 14) + Flag(k > 18) + Flag(k > 19)
Gathers(k) == Flag(k > 3) + Flag(k > 9) + Flag(k > 11)

StepKind(r, i, k) == Code["auth_key_test"][r][i].steps[k].kind
StepsIn(r, i) == Len(Code["auth_key_test"][r][i].steps)

(* A rank at step k of part i, with its status and whether it is in a      *)
(* collective, has entered c barriers and put l labels.                    *)
CountedAt(r, i, k, st, within, c, l) ==
  LET kind == StepKind(r, i, k)
      n == StepsIn(r, i)
      b == AsHead(r)
      waits == Flag(kind = "barrier" /\ (within \/ st = "done"))
      over == Flag(kind = "gather" /\ (within \/ st # "run"))
  IN  /\ within => st = "run" /\ kind \in {"barrier", "gather"}
      /\ within /\ kind = "gather" => l >= 1
      /\ i = 1 => l = 0 /\ c = Flag(k > 1 + b) + Flag(k > 2 + b) + waits
      /\ i = 2 => /\ c = 2 + l
                  /\ k < n - 1 => l = 0
                  /\ k = n - 1 => l <= 1 + over
                  /\ k = n => l <= 2
      /\ i = 3 => /\ c = 2 + Barriers(k) + l + waits
                  /\ l <= 2 + Gathers(k) + over
                  /\ k > 3 => l >= 1 + Gathers(k) + over

Counted(r) == CountedAt(r, at[r][1], at[r][2], status[r], in[r], calls[r], Len(sent[r]))

CredAt(r) ==
  /\ at[r][1] > 1 => cred # "none"
  /\ auth_mr \in open[r] => at[r][1] = 3 /\ at[r][2] \in 8 .. 17
Released ==
  \/ status[0] # "run" /\ at[0] = <<1, 4>>
  \/ at[0][1] = 3 /\ at[0][2] > 20
Abreast == \A q, r \in Ranks : calls[q] <= calls[r] + Flag(in[q])

CredentialKept ==
  prog = "auth_key_test" =>
    /\ \A r \in Ranks : Counted(r) /\ CredAt(r)
    /\ cred = "released" => Released
    /\ cred # "none" => at[0] # <<1, 1>>

(* The barriers and gathers counted step by step                           *)
LEMMA AuthTables ==
  /\ \A k \in 1 .. 19 : /\ Barriers(k + 1) = Barriers(k) + Flag(AuthKind(k) = "barrier")
                        /\ Gathers(k + 1) = Gathers(k) + Flag(AuthKind(k) = "gather")
  /\ \A k \in Nat : k >= 20 => Barriers(k) = 11 /\ Gathers(k) = 3
  /\ Barriers(1) = 0 /\ Gathers(1) = 0
  /\ \A k \in Nat : Barriers(k) \in Nat /\ Gathers(k) \in 0 .. 3
  /\ \A k \in 8 .. 17 : /\ Barriers(k) >= 4 /\ Barriers(k) + Flag(AuthKind(k) = "barrier") <= 9
                        /\ Gathers(k) + Flag(AuthKind(k) = "gather") <= 3
  /\ Gathers(3) = 0
  <1>1. ASSUME NEW k \in 1 .. 19
        PROVE  Barriers(k + 1) = Barriers(k) + Flag(AuthKind(k) = "barrier")
    BY DEF Barriers, Flag, AuthKind
  <1>2. ASSUME NEW k \in 1 .. 19
        PROVE  Gathers(k + 1) = Gathers(k) + Flag(AuthKind(k) = "gather")
    BY DEF Gathers, Flag, AuthKind
  <1>3. \A k \in Nat : k >= 20 => Barriers(k) = 11 /\ Gathers(k) = 3
    BY DEF Barriers, Gathers, Flag
  <1>4. Barriers(1) = 0 /\ Gathers(1) = 0 /\ Gathers(3) = 0
    BY DEF Barriers, Gathers, Flag
  <1>5. \A k \in Nat : Barriers(k) \in Nat /\ Gathers(k) \in 0 .. 3
    BY DEF Barriers, Gathers, Flag
  <1>6. \A k \in 8 .. 17 : /\ Barriers(k) >= 4 /\ Barriers(k) + Flag(AuthKind(k) = "barrier") <= 9
                           /\ Gathers(k) + Flag(AuthKind(k) = "gather") <= 3
    BY DEF Barriers, Gathers, Flag, AuthKind
  <1> QED
    BY <1>1, <1>2, <1>3, <1>4, <1>5, <1>6

(* The code of auth_key_test that the ranks run                            *)
LEMMA AuthCode ==
  ASSUME NEW r \in Ranks
  PROVE  LET P == Code["auth_key_test"][r]
         IN  /\ Len(P) = 3
             /\ P[1].steps = CredentialSteps(r) /\ P[1].on_error = "leave"
             /\ P[2].steps = InitProv.steps /\ P[2].on_error = "next"
             /\ P[3].steps = AuthSteps(r) /\ P[3].on_error = "abort"
  <1>1. Code["auth_key_test"][r] = AuthProgram(r)
    BY DEF Code, AllPrograms
  <1>2. InitProv.on_error = "next"
    BY DEF InitProv, Part
  <1> QED
    BY <1>1, <1>2, AuthProgramIs DEF Part

(* The kinds of all its steps                                              *)
LEMMA AuthKinds ==
  ASSUME NEW r \in Ranks
  PROVE  LET b == AsHead(r)
         IN  /\ b \in {0, 1}
             /\ StepsIn(r, 1) = 3 + b
             /\ \A k \in 1 .. 3 + b : StepKind(r, 1, k) = IF k \in {b, 3 + b} THEN "call" ELSE "barrier"
             /\ StepsIn(r, 2) \in Nat /\ StepsIn(r, 2) > 4
             /\ \A k \in 1 .. StepsIn(r, 2) :
                  StepKind(r, 2, k) = IF k = StepsIn(r, 2) - 1 THEN "gather" ELSE "call"
             /\ StepsIn(r, 3) \in Nat /\ StepsIn(r, 3) >= 20
             /\ \A k \in 1 .. 19 : StepKind(r, 3, k) = AuthKind(k)
             /\ \A k \in 20 .. StepsIn(r, 3) :
                  StepKind(r, 3, k) = IF k = StepsIn(r, 3) THEN "barrier" ELSE "step"
  <1> DEFINE P == Code["auth_key_test"][r]
             b == AsHead(r)
             c == CredentialSteps(r)
             u == InitProv.steps
             z == AuthSteps(r)
  <1>1. P[1].steps = c /\ P[2].steps = u /\ P[3].steps = z
    BY AuthCode
  <1>2. /\ \A k : /\ StepKind(r, 1, k) = c[k].kind /\ StepKind(r, 2, k) = u[k].kind
                  /\ StepKind(r, 3, k) = z[k].kind
        /\ StepsIn(r, 1) = Len(c) /\ StepsIn(r, 2) = Len(u) /\ StepsIn(r, 3) = Len(z)
    BY <1>1 DEF StepKind, StepsIn
  <1>3. Len(c) = 3 + b /\ \A k \in 1 .. Len(c) : c[k].kind = IF k \in {b, 3 + b} THEN "call" ELSE "barrier"
    BY CredentialFacts
  <1>4. Len(u) \in Nat /\ Len(u) > 4 /\ \A k \in 1 .. Len(u) : u[k].kind = IF k = Len(u) - 1 THEN "gather" ELSE "call"
    BY InitProvFacts
  <1>5. /\ Len(z) \in Nat /\ Len(z) >= 20 /\ \A k \in 1 .. 19 : z[k].kind = AuthKind(k)
        /\ \A k \in 20 .. Len(z) : z[k].kind = IF k = Len(z) THEN "barrier" ELSE "step"
    BY AuthPositions
  <1>6. b \in {0, 1}
    BY DEF AsHead
  <1> HIDE DEF P, c, u, z
  <1>7. StepsIn(r, 1) = 3 + b /\ \A k \in 1 .. 3 + b : StepKind(r, 1, k) = IF k \in {b, 3 + b} THEN "call" ELSE "barrier"
    BY <1>2, <1>3
  <1>8. /\ StepsIn(r, 2) \in Nat /\ StepsIn(r, 2) > 4
        /\ \A k \in 1 .. StepsIn(r, 2) : StepKind(r, 2, k) = IF k = StepsIn(r, 2) - 1 THEN "gather" ELSE "call"
    BY <1>2, <1>4
  <1>9. /\ StepsIn(r, 3) \in Nat /\ StepsIn(r, 3) >= 20
        /\ \A k \in 1 .. 19 : StepKind(r, 3, k) = AuthKind(k)
        /\ \A k \in 20 .. StepsIn(r, 3) : StepKind(r, 3, k) = IF k = StepsIn(r, 3) THEN "barrier" ELSE "step"
    BY <1>2, <1>5, Zenon
  <1> QED
    BY <1>6, <1>7, <1>8, <1>9

(* Calls and plain steps                                                   *)
LEMMA PassCounted ==
  ASSUME NEW r \in Ranks, NEW i \in {1, 2, 3}, NEW k \in 1 .. StepsIn(r, i), NEW c \in Nat, NEW l \in Nat,
         CountedAt(r, i, k, "run", FALSE, c, l), StepKind(r, i, k) \in {"call", "step"}
  PROVE  /\ \A st : CountedAt(r, i, k, st, FALSE, c, l)
         /\ k # StepsIn(r, i) => CountedAt(r, i, k + 1, "run", FALSE, c, l)
         /\ k = StepsIn(r, i) => i \in {1, 2} /\ CountedAt(r, i + 1, 1, "run", FALSE, c, l)
         /\ i = 2 => CountedAt(r, 3, 1, "run", FALSE, c, l)
  <1> DEFINE b == AsHead(r)
             n == StepsIn(r, i)
  <1>1. /\ b \in {0, 1} /\ StepsIn(r, 1) = 3 + b
        /\ \A j \in 1 .. 3 + b : StepKind(r, 1, j) = IF j \in {b, 3 + b} THEN "call" ELSE "barrier"
        /\ StepsIn(r, 2) \in Nat /\ StepsIn(r, 2) > 4
        /\ \A j \in 1 .. StepsIn(r, 2) : StepKind(r, 2, j) = IF j = StepsIn(r, 2) - 1 THEN "gather" ELSE "call"
        /\ StepsIn(r, 3) \in Nat /\ StepsIn(r, 3) >= 20
        /\ \A j \in 1 .. 19 : StepKind(r, 3, j) = AuthKind(j)
        /\ \A j \in 20 .. StepsIn(r, 3) : StepKind(r, 3, j) = IF j = StepsIn(r, 3) THEN "barrier" ELSE "step"
    BY AuthKinds
  <1>2. Flag(FALSE) = 0
    BY DEF Flag
  <1>3. StepKind(r, i, k) # "barrier" /\ StepKind(r, i, k) # "gather"
    OBVIOUS
  <1>4. \A st : CountedAt(r, i, k, st, FALSE, c, l)
    BY <1>3 DEF CountedAt
  <1>5. /\ i = 1 => l = 0 /\ c = Flag(k > 1 + b) + Flag(k > 2 + b)
        /\ i = 2 => /\ c = 2 + l
                    /\ k < n - 1 => l = 0
                    /\ k = n - 1 => l <= 1
                    /\ k = n => l <= 2
        /\ i = 3 => /\ c = 2 + Barriers(k) + l
                    /\ l <= 2 + Gathers(k)
                    /\ k > 3 => l >= 1 + Gathers(k)
    <2>1. c = c + 0 /\ l = l + 0 /\ \A x, y \in Nat : x + y + 0 = x + y
      OBVIOUS
    <2>2. i = 1 => l = 0 /\ c = Flag(k > 1 + b) + Flag(k > 2 + b) + 0
      BY <1>2, <1>3, Zenon DEF CountedAt
    <2>3. i = 2 => /\ c = 2 + l
                   /\ k < n - 1 => l = 0
                   /\ k = n - 1 => l <= 1 + 0
                   /\ k = n => l <= 2
      BY <1>2, <1>3, Zenon DEF CountedAt
    <2>4. i = 3 => /\ c = 2 + Barriers(k) + l + 0
                   /\ l <= 2 + Gathers(k) + 0
                   /\ k > 3 => l >= 1 + Gathers(k) + 0
      BY <1>2, <1>3, Zenon DEF CountedAt
    <2>5. i = 3 => k \in Nat /\ Barriers(k) \in Nat /\ Gathers(k) \in Nat
      BY <1>1, AuthTables
    <2>6. Flag(k > 1 + b) \in Nat /\ Flag(k > 2 + b) \in Nat
      BY DEF Flag
    <2> HIDE DEF n
    <2> QED
      BY <2>2, <2>3, <2>4, <2>5, <2>6
  <1>6. ASSUME i = 1
        PROVE  /\ k # n => CountedAt(r, 1, k + 1, "run", FALSE, c, l)
               /\ k = n => CountedAt(r, 2, 1, "run", FALSE, c, l)
    <2>1. k \in {b, 3 + b} /\ n = 3 + b /\ k \in 1 .. 3 + b /\ k \in Nat
      BY <1>1, <1>6
    <2>2. ASSUME k # n PROVE CountedAt(r, 1, k + 1, "run", FALSE, c, l)
      <3>1. b = 1 /\ k = 1 /\ l = 0 /\ c = 0
        <4>1. b = 1 /\ k = 1
          BY <1>1, <2>1, <2>2
        <4> QED
          BY <1>5, <1>6, <4>1 DEF Flag
      <3> QED
        BY <3>1 DEF CountedAt, Flag
    <2>3. ASSUME k = n PROVE CountedAt(r, 2, 1, "run", FALSE, c, l)
      <3>1. l = 0 /\ c = 2
        BY <1>1, <1>5, <1>6, <2>1, <2>3 DEF Flag
      <3>2. 1 < StepsIn(r, 2) - 1
        BY <1>1
      <3> QED
        BY <1>1, <3>1, <3>2 DEF CountedAt
    <2> QED
      BY <2>2, <2>3, Zenon
  <1>7. ASSUME i = 2
        PROVE  /\ k # n => CountedAt(r, 2, k + 1, "run", FALSE, c, l)
               /\ CountedAt(r, 3, 1, "run", FALSE, c, l)
    <2>1. k # n - 1 /\ k \in 1 .. n /\ n \in Nat
      BY <1>1, <1>7
    <2>2. ASSUME k # n PROVE CountedAt(r, 2, k + 1, "run", FALSE, c, l)
      <3>1. k < n - 1 /\ k + 1 # n /\ l = 0 /\ c = 2 + l
        BY <1>5, <1>7, <2>1, <2>2
      <3>2. \A g : l <= 1 + Flag(g)
        BY <3>1 DEF Flag
      <3> QED
        BY <1>7, <3>1, <3>2 DEF CountedAt
    <2>3. c = 2 + l /\ l <= 2
      BY <1>5, <1>7, <2>1
    <2>4. StepKind(r, 3, 1) = "barrier"
      BY <1>1 DEF AuthKind
    <2>5. Barriers(1) = 0 /\ Gathers(1) = 0
      BY AuthTables
    <2>6. CountedAt(r, 3, 1, "run", FALSE, c, l)
      BY <2>3, <2>4, <2>5 DEF CountedAt, Flag
    <2> QED
      BY <2>2, <2>6, Zenon
  <1>8. ASSUME i = 3 PROVE k # n /\ CountedAt(r, 3, k + 1, "run", FALSE, c, l)
    <2>1. k # n
      BY <1>1, <1>8
    <2>2. k \in Nat /\ Barriers(k + 1) = Barriers(k) /\ Gathers(k + 1) = Gathers(k)
      <3>1. CASE k \in 1 .. 19
        <4>1. AuthKind(k) # "barrier" /\ AuthKind(k) # "gather"
          BY <1>1, <1>8, <3>1
        <4>2. Barriers(k) \in Nat /\ Gathers(k) \in Nat
          BY <3>1, AuthTables
        <4>3. Barriers(k + 1) = Barriers(k) + 0 /\ Gathers(k + 1) = Gathers(k) + 0
          BY <1>2, <3>1, <4>1, AuthTables, Zenon
        <4> QED
          BY <3>1, <4>2, <4>3
      <3>2. CASE k \notin 1 .. 19
        <4>1. k \in Nat /\ k >= 20 /\ k + 1 \in Nat /\ k + 1 >= 20
          BY <1>1, <1>8, <3>2
        <4> QED
          BY <4>1, AuthTables
      <3> QED
        BY <3>1, <3>2
    <2>3. k > 3
      BY <1>1, <1>8 DEF AuthKind
    <2>4. /\ c = 2 + Barriers(k + 1) + l
          /\ l <= 2 + Gathers(k + 1) /\ l >= 1 + Gathers(k + 1)
          /\ Barriers(k + 1) \in Nat /\ Gathers(k + 1) \in Nat
      <3>1. Barriers(k) \in Nat /\ Gathers(k) \in Nat
        BY <2>2, AuthTables
      <3> QED
        BY <1>5, <1>8, <2>2, <2>3, <3>1
    <2>5. CountedAt(r, 3, k + 1, "run", FALSE, c, l)
      BY <2>4 DEF CountedAt, Flag
    <2> QED
      BY <2>1, <2>5, Zenon
  <1>9. k # n => CountedAt(r, i, k + 1, "run", FALSE, c, l)
    BY <1>6, <1>7, <1>8, Zenon
  <1>10. k = n => i \in {1, 2} /\ CountedAt(r, i + 1, 1, "run", FALSE, c, l)
    <2>1. 1 + 1 = 2 /\ 2 + 1 = 3
      OBVIOUS
    <2>2. CASE i = 1
      BY <1>6, <2>1, <2>2, Zenon
    <2>3. CASE i = 2
      BY <1>7, <2>1, <2>3, Zenon
    <2>4. CASE i = 3
      BY <1>8, <2>4
    <2> QED
      BY <2>2, <2>3, <2>4, Zenon
  <1> QED
    BY <1>4, <1>7, <1>9, <1>10, Zenon

(* A collective counts as it is entered,                                   *)
LEMMA EnterCounted ==
  ASSUME NEW r \in Ranks, NEW i \in {1, 2, 3}, NEW k \in 1 .. StepsIn(r, i), NEW c \in Nat, NEW l \in Nat,
         CountedAt(r, i, k, "run", FALSE, c, l)
  PROVE  /\ StepKind(r, i, k) = "barrier" => CountedAt(r, i, k, "run", TRUE, c + 1, l)
         /\ StepKind(r, i, k) = "gather" => CountedAt(r, i, k, "run", TRUE, c + 1, l + 1)
  <1> DEFINE b == AsHead(r)
             n == StepsIn(r, i)
  <1>1. /\ b \in {0, 1} /\ StepsIn(r, 1) = 3 + b
        /\ \A j \in 1 .. 3 + b : StepKind(r, 1, j) = IF j \in {b, 3 + b} THEN "call" ELSE "barrier"
        /\ StepsIn(r, 2) \in Nat /\ StepsIn(r, 2) > 4
        /\ \A j \in 1 .. StepsIn(r, 2) : StepKind(r, 2, j) = IF j = StepsIn(r, 2) - 1 THEN "gather" ELSE "call"
        /\ StepsIn(r, 3) \in Nat
    BY AuthKinds
  <1>2. n \in Nat /\ k \in Nat
    BY <1>1
  <1>3. Barriers(k) \in Nat /\ Gathers(k) \in Nat
    BY <1>2, AuthTables
  <1>4. Flag(k > 1 + b) \in Nat /\ Flag(k > 2 + b) \in Nat
    BY DEF Flag
  <1>5. ASSUME StepKind(r, i, k) = "barrier" PROVE CountedAt(r, i, k, "run", TRUE, c + 1, l)
    <2>1. i # 2
      BY <1>1, <1>5
    <2>2. CASE i = 1
      <3>1. l = 0 /\ c = Flag(k > 1 + b) + Flag(k > 2 + b) + 0
        BY <1>5, <2>2 DEF CountedAt, Flag
      <3>2. c + 1 = Flag(k > 1 + b) + Flag(k > 2 + b) + 1
        BY <1>4, <3>1
      <3> QED
        BY <1>5, <2>2, <3>1, <3>2 DEF CountedAt, Flag
    <2>3. CASE i = 3
      <3>1. c = 2 + Barriers(k) + l + 0 /\ l <= 2 + Gathers(k) + 0 /\ (k > 3 => l >= 1 + Gathers(k) + 0)
        BY <1>5, <2>3 DEF CountedAt, Flag
      <3>2. c + 1 = 2 + Barriers(k) + l + 1
        BY <1>3, <3>1
      <3> QED
        BY <1>5, <2>3, <3>1, <3>2 DEF CountedAt, Flag
    <2> QED
      BY <2>1, <2>2, <2>3, Zenon
  <1>6. ASSUME StepKind(r, i, k) = "gather" PROVE CountedAt(r, i, k, "run", TRUE, c + 1, l + 1)
    <2>1. i # 1
      BY <1>1, <1>6
    <2>2. CASE i = 2
      <3>1. k = n - 1
        BY <1>1, <1>6, <2>2
      <3>2. c = 2 + l /\ l <= 1 + 0
        BY <1>6, <2>2, <3>1 DEF CountedAt, Flag
      <3>3. c + 1 = 2 + (l + 1) /\ l + 1 <= 1 + 1 /\ l + 1 >= 1 /\ ~(k < n - 1) /\ k # n
        BY <1>2, <3>1, <3>2
      <3> QED
        BY <1>6, <2>2, <3>3 DEF CountedAt, Flag
    <2>3. CASE i = 3
      <3>1. c = 2 + Barriers(k) + l + 0 /\ l <= 2 + Gathers(k) + 0 /\ (k > 3 => l >= 1 + Gathers(k) + 0)
        BY <1>6, <2>3 DEF CountedAt, Flag
      <3>2. c + 1 = 2 + Barriers(k) + (l + 1) + 0 /\ l + 1 <= 2 + Gathers(k) + 1 /\ l + 1 >= 1
            /\ (k > 3 => l + 1 >= 1 + Gathers(k) + 1)
        BY <1>3, <3>1
      <3> QED
        BY <1>6, <2>3, <3>2 DEF CountedAt, Flag
    <2> QED
      BY <2>1, <2>2, <2>3, Zenon
  <1> QED
    BY <1>5, <1>6, Zenon

(* and a rank that leaves a barrier is one step on;                        *)
LEMMA LeaveBarrierCounted ==
  ASSUME NEW r \in Ranks, NEW i \in {1, 2, 3}, NEW k \in 1 .. StepsIn(r, i), NEW c \in Nat, NEW l \in Nat,
         CountedAt(r, i, k, "run", TRUE, c, l), StepKind(r, i, k) = "barrier"
  PROVE  /\ k # StepsIn(r, i) => CountedAt(r, i, k + 1, "run", FALSE, c, l)
         /\ k = StepsIn(r, i) => i = 3 /\ CountedAt(r, i, k, "done", FALSE, c, l)
  <1> DEFINE b == AsHead(r)
             n == StepsIn(r, i)
  <1>1. /\ b \in {0, 1} /\ StepsIn(r, 1) = 3 + b
        /\ \A j \in 1 .. 3 + b : StepKind(r, 1, j) = IF j \in {b, 3 + b} THEN "call" ELSE "barrier"
        /\ StepsIn(r, 2) \in Nat /\ StepsIn(r, 2) > 4
        /\ \A j \in 1 .. StepsIn(r, 2) : StepKind(r, 2, j) = IF j = StepsIn(r, 2) - 1 THEN "gather" ELSE "call"
        /\ StepsIn(r, 3) \in Nat /\ StepsIn(r, 3) >= 20
        /\ \A j \in 1 .. 19 : StepKind(r, 3, j) = AuthKind(j)
        /\ \A j \in 20 .. StepsIn(r, 3) : StepKind(r, 3, j) = IF j = StepsIn(r, 3) THEN "barrier" ELSE "step"
    BY AuthKinds
  <1>2. i # 2
    BY <1>1
  <1>3. CASE i = 1
    <2>1. k \in {1 + b, 2 + b} /\ k # n /\ k \in Nat
      BY <1>1, <1>3
    <2>2. l = 0 /\ c = Flag(k > 1 + b) + Flag(k > 2 + b) + 1
      BY <1>3 DEF CountedAt, Flag
    <2>3. c = Flag(k + 1 > 1 + b) + Flag(k + 1 > 2 + b)
      BY <1>1, <2>1, <2>2 DEF Flag
    <2>4. Flag(k + 1 > 1 + b) \in Nat /\ Flag(k + 1 > 2 + b) \in Nat
      BY DEF Flag
    <2>5. c = Flag(k + 1 > 1 + b) + Flag(k + 1 > 2 + b) + 0
      BY <2>3, <2>4
    <2>6. CountedAt(r, i, k + 1, "run", FALSE, c, l)
      BY <1>3, <2>2, <2>5 DEF CountedAt, Flag
    <2> QED
      BY <2>1, <2>6, Zenon
  <1>4. CASE i = 3
    <2>1. c = 2 + Barriers(k) + l + 1 /\ l <= 2 + Gathers(k) + 0 /\ (k > 3 => l >= 1 + Gathers(k) + 0)
      BY <1>4 DEF CountedAt, Flag
    <2>2. k \in Nat /\ Barriers(k) \in Nat /\ Gathers(k) \in Nat
      BY <1>1, <1>4, AuthTables
    <2>3. ASSUME k # n PROVE CountedAt(r, i, k + 1, "run", FALSE, c, l)
      <3>1. k \in 1 .. 19
        BY <1>1, <1>4, <2>3
      <3>2. AuthKind(k) = "barrier" /\ AuthKind(k) # "gather"
        BY <1>1, <1>4, <3>1
      <3>3. Flag(TRUE) = 1 /\ Flag(FALSE) = 0
        BY DEF Flag
      <3>4. Flag(AuthKind(k) = "barrier") = 1 /\ Flag(AuthKind(k) = "gather") = 0
        BY <3>2 DEF Flag
      <3>5. Barriers(k + 1) = Barriers(k) + 1 /\ Gathers(k + 1) = Gathers(k)
        BY <2>2, <3>1, <3>4, AuthTables
      <3>6. k + 1 > 3 => k > 3 \/ k = 3
        BY <2>2
      <3>7. k # 3
        BY <3>2 DEF AuthKind
      <3>8. c = 2 + Barriers(k + 1) + l + 0 /\ l <= 2 + Gathers(k + 1) + 0 /\ (k + 1 > 3 => l >= 1 + Gathers(k + 1) + 0)
        BY <2>1, <2>2, <3>5, <3>6, <3>7
      <3>9. CASE k + 1 \in 1 .. 19
        BY <1>4, <2>2, <3>8, <3>9 DEF CountedAt, Flag
      <3>10. CASE k + 1 \notin 1 .. 19
        BY <1>4, <2>2, <3>8, <3>10 DEF CountedAt, Flag
      <3> QED
        BY <3>9, <3>10, Zenon
    <2>4. ASSUME k = n PROVE CountedAt(r, i, k, "done", FALSE, c, l)
      BY <1>4, <2>1 DEF CountedAt, Flag
    <2> QED
      BY <1>4, <2>3, <2>4, Zenon
  <1> QED
    BY <1>2, <1>3, <1>4, Zenon

(* a rank that leaves its first gather enters it again for the data.       *)
LEMMA LeaveGatherCounted ==
  ASSUME NEW r \in Ranks, NEW i \in {1, 2, 3}, NEW k \in 1 .. StepsIn(r, i), NEW c \in Nat, NEW l \in Nat,
         CountedAt(r, i, k, "run", TRUE, c, l), StepKind(r, i, k) = "gather"
  PROVE  /\ CountedAt(r, i, k, "aborted", FALSE, c, l)
         /\ l = 1 => CountedAt(r, i, k, "run", FALSE, c, l)
         /\ l # 1 => k # StepsIn(r, i) /\ CountedAt(r, i, k + 1, "run", FALSE, c, l)
  <1> DEFINE b == AsHead(r)
             n == StepsIn(r, i)
  <1>1. /\ b \in {0, 1} /\ StepsIn(r, 1) = 3 + b
        /\ \A j \in 1 .. 3 + b : StepKind(r, 1, j) = IF j \in {b, 3 + b} THEN "call" ELSE "barrier"
        /\ StepsIn(r, 2) \in Nat /\ StepsIn(r, 2) > 4
        /\ \A j \in 1 .. StepsIn(r, 2) : StepKind(r, 2, j) = IF j = StepsIn(r, 2) - 1 THEN "gather" ELSE "call"
        /\ StepsIn(r, 3) \in Nat /\ StepsIn(r, 3) >= 20
        /\ \A j \in 1 .. 19 : StepKind(r, 3, j) = AuthKind(j)
        /\ \A j \in 20 .. StepsIn(r, 3) : StepKind(r, 3, j) = IF j = StepsIn(r, 3) THEN "barrier" ELSE "step"
    BY AuthKinds
  <1>2. i # 1
    BY <1>1
  <1>3. l >= 1
    BY DEF CountedAt
  <1>4. CASE i = 2
    <2>1. k = n - 1 /\ k \in Nat /\ n \in Nat
      BY <1>1, <1>4
    <2>2. c = 2 + l /\ l <= 1 + 1
      BY <1>4, <2>1 DEF CountedAt, Flag
    <2>3. k + 1 = n /\ k # n /\ ~(k + 1 < n - 1) /\ k + 1 # n - 1 /\ l <= 2 /\ ~(k < n - 1)
      BY <2>1, <2>2
    <2>4. CountedAt(r, i, k, "aborted", FALSE, c, l)
      BY <1>4, <2>2, <2>3 DEF CountedAt, Flag
    <2>5. l = 1 => CountedAt(r, i, k, "run", FALSE, c, l)
      BY <1>4, <2>2, <2>3 DEF CountedAt, Flag
    <2>6. CountedAt(r, i, k + 1, "run", FALSE, c, l)
      BY <1>4, <2>2, <2>3 DEF CountedAt, Flag
    <2> QED
      BY <2>3, <2>4, <2>5, <2>6, Zenon
  <1>5. CASE i = 3
    <2>1. c = 2 + Barriers(k) + l + 0 /\ l <= 2 + Gathers(k) + 1 /\ (k > 3 => l >= 1 + Gathers(k) + 1)
      BY <1>5 DEF CountedAt, Flag
    <2>2. k \in Nat /\ Barriers(k) \in Nat /\ Gathers(k) \in Nat
      BY <1>1, <1>5, AuthTables
    <2>3. k \in 1 .. 19 /\ AuthKind(k) = "gather" /\ k # n
      <3>1. k \in 1 .. 19
        BY <1>1, <1>5
      <3> QED
        BY <1>1, <1>5, <3>1
    <2>4. Flag(AuthKind(k) = "barrier") = 0 /\ Flag(AuthKind(k) = "gather") = 1
      BY <2>3 DEF Flag
    <2>5. Barriers(k + 1) = Barriers(k) /\ Gathers(k + 1) = Gathers(k) + 1
      BY <2>2, <2>3, <2>4, AuthTables
    <2>6. k >= 3 /\ (k = 3 => Gathers(k) = 0)
      BY <2>3, AuthTables DEF AuthKind
    <2>7. CountedAt(r, i, k, "aborted", FALSE, c, l)
      BY <1>5, <2>1 DEF CountedAt, Flag
    <2>8. ASSUME l = 1 PROVE CountedAt(r, i, k, "run", FALSE, c, l)
      <3>1. ~(k > 3) /\ l <= 2 + Gathers(k) + 0
        BY <2>1, <2>2, <2>8
      <3> QED
        BY <1>5, <2>1, <3>1 DEF CountedAt, Flag
    <2>9. ASSUME l # 1 PROVE CountedAt(r, i, k + 1, "run", FALSE, c, l)
      <3>1. /\ c = 2 + Barriers(k + 1) + l + 0 /\ l <= 2 + Gathers(k + 1) + 0
            /\ l >= 1 + Gathers(k + 1) + 0
        BY <1>3, <2>1, <2>2, <2>5, <2>6, <2>9
      <3> QED
        BY <1>5, <3>1 DEF CountedAt, Flag
    <2> QED
      BY <2>3, <2>7, <2>8, <2>9, Zenon
  <1> QED
    BY <1>2, <1>4, <1>5, Zenon

(* What has been made, used and closed one step later                      *)
LEMMA OneStepOn ==
  ASSUME NEW s \in Seq(Steps), NEW k \in 1 .. Len(s)
  PROVE  /\ \A h : Made(h, s, k + 1) <=> Made(h, s, k) \/ h \in s[k].make
         /\ \A h : Used(h, s, k + 1) <=> Used(h, s, k) \/ h \in s[k].use
         /\ \A h : Closed(h, s, k + 1) <=> Closed(h, s, k) \/ (s[k].kind = "step" /\ h \in ToSet(s[k].drop))
         /\ Shut(s, k + 1) <=> Shut(s, k) \/ (s[k].kind = "step" /\ s[k].drop # <<>>)
  <1>1. Len(s) \in Nat /\ k \in Nat
    OBVIOUS
  <1>2. 1 .. (k + 1) - 1 = (1 .. k - 1) \cup {k}
    BY <1>1
  <1> QED
    BY <1>2 DEF Made, Used, Closed, Shut

(* Nothing has been, before the first step,                                *)
LEMMA AtTheStart ==
  ASSUME NEW s
  PROVE  /\ \A h : ~Made(h, s, 1) /\ ~Used(h, s, 1) /\ ~Closed(h, s, 1)
         /\ ~Shut(s, 1)
  <1>1. 1 .. 1 - 1 = {}
    OBVIOUS
  <1> QED
    BY <1>1 DEF Made, Used, Closed, Shut

(* and after the last one, all that the part makes.                        *)
LEMMA AtTheEnd ==
  ASSUME NEW s \in Seq(Steps)
  PROVE  \A h : Made(h, s, Len(s) + 1) <=> h \in Makes(s)
  <1>1. 1 .. (Len(s) + 1) - 1 = 1 .. Len(s)
    BY Len(s) \in Nat
  <1> QED
    BY <1>1 DEF Made, Makes

(* What the parts before this one have made                                *)
LEMMA NextBefore ==
  ASSUME NEW P \in Seq(Parts), NEW i \in 1 .. Len(P)
  PROVE  /\ \A h : h \in Before(P, i + 1) <=> h \in Before(P, i) \/ h \in Makes(P[i].steps)
         /\ \A h : h \notin Before(P, 1)
  <1>1. i \in Nat /\ 1 .. (i + 1) - 1 = (1 .. i - 1) \cup {i} /\ 1 .. 1 - 1 = {}
    BY Len(P) \in Nat
  <1> QED
    BY <1>1 DEF Before

(* A program part by part                                                  *)
LEMMA SoundFacts ==
  ASSUME NEW p, NEW P, Sound(p, P), NEW i \in 1 .. Len(P)
  PROVE  LET s == P[i].steps
         IN  /\ P \in Seq(Parts) /\ Len(P) \in Nat /\ Len(P) > 0
             /\ s \in Seq(Steps) /\ Len(s) \in Nat /\ Len(s) > 0
             /\ P[i].on_error \in {"leave", "abort", "next"}
             /\ Ordered(s) /\ Supplied(Before(P, i), s)
             /\ i # Len(P) => Opening(s) /\ Makes(s) \subseteq Kept \cup Closes(P[Len(P)].steps)
             /\ i = Len(P) => EndsClosed(s)
             /\ i = 1 /\ P[1].on_error = "leave" => FirstThorough(p, s)
             /\ P[i].on_error = "next" =>
                  /\ i # Len(P) /\ p \notin {"rdm_mbw_mr", "rdm_mbw_mr_cntr"}
                  /\ \A k \in 1 .. Len(s) : s[k].name # "drc_access"
             /\ \A k \in 1 .. Len(s) : s[k].kind = "call" /\ Careful(p, s[k]) => ClosesItsOwn(s, k)
  <1>1. /\ P \in Seq(Parts) /\ Len(P) > 0 /\ Len(P) \in Nat
    BY DEF Sound, WellMade
  <1>2. P[i] \in Parts
    BY <1>1
  <1>3. P[i].steps \in Seq(Steps) /\ P[i].on_error \in {"leave", "abort", "next"}
    BY <1>2 DEF Parts
  <1>4. Len(P[i].steps) \in Nat
    BY <1>3
  <1>5. Len(P[i].steps) > 0 /\ Ordered(P[i].steps) /\ Supplied(Before(P, i), P[i].steps)
    BY DEF Sound, WellMade
  <1>6. i # Len(P) => Opening(P[i].steps) /\ Makes(P[i].steps) \subseteq Kept \cup Closes(P[Len(P)].steps)
    <2> SUFFICES ASSUME i # Len(P)
                 PROVE  Opening(P[i].steps) /\ Makes(P[i].steps) \subseteq Kept \cup Closes(P[Len(P)].steps)
      OBVIOUS
    <2>1. i \in 1 .. Len(P) - 1
      BY <1>1
    <2> QED
      BY <2>1 DEF Sound, WellMade
  <1>7. i = Len(P) => EndsClosed(P[i].steps)
    BY DEF Sound, WellMade
  <1> QED
    BY <1>1, <1>3, <1>4, <1>5, <1>6, <1>7 DEF Sound

(* What a rank has open after a step that went well                        *)
After(x, o) == IF x.kind = "step" THEN (o \cup x.make) \ ToSet(x.drop) ELSE o \cup x.make

(* A step is of one of the kinds, and collectives close nothing.           *)
LEMMA StepsItself ==
  ASSUME NEW x \in Steps
  PROVE  /\ x.kind \in Kinds /\ x.name \in Names /\ x.use \subseteq Handles /\ x.make \subseteq Handles
         /\ x.drop \in Seq(Handles)
         /\ x.kind \in {"barrier", "gather"} => x.use = {} /\ x.drop = <<>> /\ x.make \subseteq Kept
         /\ x.kind = "barrier" => x.make = {}
  BY DEF Steps, Meeting

(* A step within a part                                                    *)
LEMMA NextStepClean ==
  ASSUME NEW p, NEW P, Sound(p, P), NEW i \in 1 .. Len(P), NEW k \in 1 .. Len(P[i].steps),
         NEW o \in SUBSET Handles, NEW f, CleanAt(p, P, i, k, "run", o, f), P[i].steps[k].use \subseteq o,
         k # Len(P[i].steps)
  PROVE  CleanAt(p, P, i, k + 1, "run", After(P[i].steps[k], o), f)
  <1> DEFINE s == P[i].steps
             x == s[k]
             o2 == After(x, o)
  <1>1. /\ s \in Seq(Steps) /\ Len(s) \in Nat /\ k \in 1 .. Len(s) /\ Len(P) \in Nat
        /\ i # Len(P) => Opening(s) /\ Makes(s) \subseteq Kept \cup Closes(P[Len(P)].steps)
        /\ i = Len(P) => EndsClosed(s)
    BY SoundFacts
  <1>2. x \in Steps
    BY <1>1
  <1>3. x.drop \in Seq(Handles)
    BY <1>2, StepsItself
  <1>4. x.drop = <<>> => ToSet(x.drop) = {}
    BY Tuple0
  <1>5. /\ \A h : Made(h, s, k + 1) <=> Made(h, s, k) \/ h \in x.make
        /\ \A h : Used(h, s, k + 1) <=> Used(h, s, k) \/ h \in x.use
        /\ \A h : Closed(h, s, k + 1) <=> Closed(h, s, k) \/ (x.kind = "step" /\ h \in ToSet(x.drop))
        /\ Shut(s, k + 1) <=> Shut(s, k) \/ (x.kind = "step" /\ x.drop # <<>>)
    BY <1>1, OneStepOn, Zenon
  <1>6. \A h : h \in o2 <=> (h \in o \/ h \in x.make) /\ ~(x.kind = "step" /\ h \in ToSet(x.drop))
    BY DEF After
  <1>7. /\ HasItsOwn(s, k, o) /\ (f = <<>> => HasAll(P, i, k, o)) /\ HasNoMore(P, i, k, o)
        /\ (i = 1 => FirstHasNoMore(P, k, o)) /\ (p \in MbwPrograms => f = <<>>)
    BY DEF CleanAt
  <1>8. x.use \subseteq o
    OBVIOUS
  <1> HIDE DEF x, o2
  <1>9. HasItsOwn(s, k + 1, o2)
    BY <1>4, <1>5, <1>6, <1>7, <1>8 DEF HasItsOwn
  <1>10. ASSUME f = <<>> PROVE HasAll(P, i, k + 1, o2)
    BY <1>5, <1>6, <1>7, <1>10 DEF HasAll
  <1>11. HasNoMore(P, i, k + 1, o2)
    <2> SUFFICES ASSUME NEW h \in o2, h \notin Kept PROVE Closing(P, i, k + 1, h)
      BY DEF HasNoMore
    <2>1. CASE i = Len(P)
      <3>1. \E j \in k + 1 .. Len(s) : s[j].kind = "step" /\ h \in ToSet(s[j].drop)
        <4>1. CASE h \in x.make
          BY <1>1, <2>1, <4>1 DEF EndsClosed, x
        <4>2. CASE h \in o
          <5>1. PICK j \in k .. Len(s) : s[j].kind = "step" /\ h \in ToSet(s[j].drop)
            BY <1>7, <2>1, <4>2 DEF HasNoMore, Closing
          <5>2. j # k
            BY <1>6, <5>1 DEF x
          <5>3. j \in k + 1 .. Len(s)
            BY <1>1, <5>2
          <5> QED
            BY <5>1, <5>3
        <4> QED
          BY <1>6, <4>1, <4>2
      <3> QED
        BY <2>1, <3>1 DEF Closing
    <2>2. CASE i # Len(P)
      <3>1. x.make \subseteq Makes(s)
        BY DEF Makes, x
      <3> QED
        BY <1>1, <1>6, <1>7, <2>2, <3>1 DEF HasNoMore, Closing
    <2> QED
      BY <2>1, <2>2
  <1>12. ASSUME i = 1 PROVE FirstHasNoMore(P, k + 1, o2)
    BY <1>5, <1>6, <1>7, <1>12 DEF FirstHasNoMore
  <1> QED
    BY <1>7, <1>9, <1>10, <1>11, <1>12 DEF CleanAt, o2, x

(* Going on with the next part: after its last step, or an error that is   *)
(* ignored.  o2 is what remains open.                                      *)
LEMMA NextPartClean ==
  ASSUME NEW p, NEW P, Sound(p, P), NEW i \in 1 .. Len(P), i # Len(P),
         NEW o2 \in SUBSET Handles, NEW f, \A h \in o2 : h \in Kept \/ h \in Closes(P[Len(P)].steps),
         f = <<>> => \A h : h \in Before(P, i) \/ h \in Makes(P[i].steps) => h \in o2,
         p \in MbwPrograms => f = <<>>
  PROVE  CleanAt(p, P, i + 1, 1, "run", o2, f)
  <1> DEFINE t == P[i + 1].steps
  <1>1. P \in Seq(Parts) /\ Len(P) \in Nat
    BY SoundFacts
  <1>2. i + 1 \in 1 .. Len(P) /\ i + 1 # 1
    BY <1>1
  <1>3. t \in Seq(Steps) /\ Len(t) \in Nat /\ Len(t) > 0
    BY <1>2, SoundFacts
  <1>4. /\ \A h : ~Made(h, t, 1) /\ ~Used(h, t, 1) /\ ~Closed(h, t, 1)
        /\ ~Shut(t, 1)
    BY AtTheStart, Zenon
  <1>5. \A h : h \in Before(P, i + 1) <=> h \in Before(P, i) \/ h \in Makes(P[i].steps)
    BY <1>1, NextBefore
  <1>6. HasItsOwn(t, 1, o2)
    BY <1>4 DEF HasItsOwn
  <1>7. ASSUME f = <<>> PROVE HasAll(P, i + 1, 1, o2)
    BY <1>4, <1>5, <1>7 DEF HasAll
  <1>8. HasNoMore(P, i + 1, 1, o2)
    <2> SUFFICES ASSUME NEW h \in o2, h \notin Kept PROVE Closing(P, i + 1, 1, h)
      BY DEF HasNoMore
    <2>1. h \in Closes(P[Len(P)].steps)
      OBVIOUS
    <2> QED
      BY <2>1, Zenon DEF Closing, Closes
  <1> QED
    BY <1>2, <1>6, <1>7, <1>8 DEF CleanAt

(* The end of a part or of the program                                     *)
LEMMA PartEndsClean ==
  ASSUME NEW p, NEW P, Sound(p, P), NEW i \in 1 .. Len(P), NEW k \in 1 .. Len(P[i].steps),
         NEW o \in SUBSET Handles, NEW f, CleanAt(p, P, i, k, "run", o, f), P[i].steps[k].use \subseteq o,
         k = Len(P[i].steps)
  PROVE  LET o2 == After(P[i].steps[k], o)
         IN  /\ i # Len(P) => CleanAt(p, P, i + 1, 1, "run", o2, f)
             /\ i = Len(P) => CleanAt(p, P, i, k, "done", o2, f)
  <1> DEFINE s == P[i].steps
             x == s[k]
             o2 == After(x, o)
  <1>1. /\ s \in Seq(Steps) /\ Len(s) \in Nat /\ k \in 1 .. Len(s) /\ Len(P) \in Nat
        /\ i # Len(P) => Opening(s) /\ Makes(s) \subseteq Kept \cup Closes(P[Len(P)].steps)
        /\ i = Len(P) => EndsClosed(s)
    BY SoundFacts
  <1>2. x \in Steps
    BY <1>1
  <1>3. x.make \subseteq Handles
    BY <1>2, StepsItself
  <1>4. \A h : h \in o2 <=> (h \in o \/ h \in x.make) /\ ~(x.kind = "step" /\ h \in ToSet(x.drop))
    BY DEF After
  <1>5. o2 \in SUBSET Handles
    BY <1>3, <1>4
  <1>6. /\ HasItsOwn(s, k, o) /\ (f = <<>> => HasAll(P, i, k, o)) /\ HasNoMore(P, i, k, o)
        /\ (p \in MbwPrograms => f = <<>>)
    BY DEF CleanAt
  <1>7. \A h : h \in Makes(s) <=> Made(h, s, k) \/ h \in x.make
    <2>1. \A h : Made(h, s, k + 1) <=> Made(h, s, k) \/ h \in x.make
      BY <1>1, OneStepOn
    <2>2. \A h : Made(h, s, Len(s) + 1) <=> h \in Makes(s)
      BY <1>1, AtTheEnd
    <2> QED
      BY <2>1, <2>2
  <1> HIDE DEF x, o2
  <1>8. ASSUME i # Len(P) PROVE CleanAt(p, P, i + 1, 1, "run", o2, f)
    <2>1. x.kind = "step" => ToSet(x.drop) = {}
      BY <1>1, <1>8, Tuple0 DEF Opening, x
    <2>2. \A h \in o2 : h \in Kept \/ h \in Closes(P[Len(P)].steps)
      BY <1>1, <1>4, <1>6, <1>7, <1>8 DEF HasNoMore, Closing
    <2>3. ASSUME f = <<>>, NEW h, h \in Before(P, i) \/ h \in Makes(s) PROVE h \in o2
      <3>1. ~Closed(h, s, k)
        BY <1>1, <1>8, OpeningCloses
      <3> QED
        BY <1>4, <1>6, <1>7, <2>1, <2>3, <3>1 DEF HasAll
    <2> QED
      BY <1>5, <1>6, <1>8, <2>2, <2>3, NextPartClean
  <1>9. ASSUME i = Len(P) PROVE CleanAt(p, P, i, k, "done", o2, f)
    <2>1. o2 \subseteq Kept
      <3> SUFFICES ASSUME NEW h \in o2, h \notin Kept PROVE FALSE
        OBVIOUS
      <3>1. h \notin x.make
        <4>1. k + 1 .. Len(s) = {}
          BY <1>1
        <4> QED
          BY <1>1, <1>9, <4>1 DEF EndsClosed, x
      <3>2. PICK j \in k .. Len(s) : s[j].kind = "step" /\ h \in ToSet(s[j].drop)
        BY <1>4, <1>6, <1>9, <3>1 DEF HasNoMore, Closing
      <3>3. j = k
        BY <1>1, <3>2
      <3> QED
        BY <1>4, <3>2, <3>3 DEF x
    <2> QED
      BY <2>1 DEF CleanAt
  <1> QED
    BY <1>8, <1>9 DEF o2, x

(* The first gather of all stays where it is.                              *)
LEMMA StayClean ==
  ASSUME NEW p, NEW P, NEW i, NEW k, NEW o, NEW f, NEW m \in SUBSET Kept, CleanAt(p, P, i, k, "run", o, f)
  PROVE  CleanAt(p, P, i, k, "run", o \cup m, f)
  BY DEF CleanAt, HasItsOwn, HasAll, HasNoMore, FirstHasNoMore

(* Stopping with nothing closed, or using what is not open                 *)
LEMMA StopClean ==
  ASSUME NEW p, NEW P, NEW i, NEW k, NEW o, NEW f, CleanAt(p, P, i, k, "run", o, f)
  PROVE  CleanAt(p, P, i, k, "aborted", o, f)
  BY DEF CleanAt

(* A handle that is missed where calls have failed                         *)
LEMMA MisuseClean ==
  ASSUME NEW p, NEW P, Sound(p, P), NEW i \in 1 .. Len(P), NEW k \in 1 .. Len(P[i].steps),
         NEW o, NEW f, CleanAt(p, P, i, k, "run", o, f), ~(P[i].steps[k].use \subseteq o)
  PROVE  CleanAt(p, P, i, k, "misuse", o, f)
  <1>1. Supplied(Before(P, i), P[i].steps)
    BY SoundFacts
  <1>2. f # <<>>
    <2> SUFFICES ASSUME f = <<>> PROVE FALSE
      OBVIOUS
    <2>1. HasAll(P, i, k, o)
      BY DEF CleanAt
    <2> QED
      BY <1>1, <2>1 DEF Supplied, HasAll
  <1> QED
    BY <1>2 DEF CleanAt

(* The last call that failed is the one that fails now.                    *)
LEMMA LastAppended ==
  ASSUME NEW S, NEW s \in Seq(S), NEW a \in S
  PROVE  Append(s, a) # <<>> /\ Last(Append(s, a)) = a
  <1>1. Len(Append(s, a)) = Len(s) + 1 /\ Append(s, a)[Len(s) + 1] = a /\ Len(s) \in Nat
    OBVIOUS
  <1>2. Len(<<>>) = 0
    OBVIOUS
  <1> QED
    BY <1>1, <1>2 DEF Last

(* The error path of a call: f2 are the calls that failed, with this one,  *)
(* but for a credential that cannot be accessed.                           *)
LEMMA FailClean ==
  ASSUME NEW p \in AllPrograms, NEW P, Sound(p, P), NEW i \in 1 .. Len(P), NEW k \in 1 .. Len(P[i].steps),
         NEW o \in SUBSET Handles, NEW f \in Seq(Names), CleanAt(p, P, i, k, "run", o, f),
         P[i].steps[k].kind = "call", P[i].steps[k].use \subseteq o,
         NEW f2, f2 = Append(f, P[i].steps[k].name) \/ (P[i].steps[k].name = "drc_access" /\ f2 = f)
  PROVE  LET x == P[i].steps[k]
             o2 == o \ ToSet(x.drop)
             bad == ~(ToSet(x.drop) \subseteq o /\ IsInjective(x.drop))
         IN  /\ bad => CleanAt(p, P, i, k, "bad close", o2, f2)
             /\ ~bad /\ P[i].on_error = "leave" => CleanAt(p, P, i, k, "left", o2, f2)
             /\ ~bad /\ P[i].on_error = "abort" => CleanAt(p, P, i, k, "aborted", o2, f2)
             /\ P[i].on_error = "next" => i # Len(P) /\ CleanAt(p, P, i + 1, 1, "run", o2, f2)
  <1> DEFINE s == P[i].steps
             x == s[k]
             o2 == o \ ToSet(x.drop)
             bad == ~(ToSet(x.drop) \subseteq o /\ IsInjective(x.drop))
  <1>1. /\ s \in Seq(Steps) /\ Len(s) \in Nat /\ k \in 1 .. Len(s) /\ Len(P) \in Nat
        /\ Ordered(s)
        /\ i # Len(P) => Opening(s) /\ Makes(s) \subseteq Kept \cup Closes(P[Len(P)].steps)
        /\ i = 1 /\ P[1].on_error = "leave" => FirstThorough(p, s)
        /\ P[i].on_error = "next" =>
             /\ i # Len(P) /\ p \notin MbwPrograms
             /\ \A j \in 1 .. Len(s) : s[j].name # "drc_access"
        /\ Careful(p, x) => ClosesItsOwn(s, k)
    BY SoundFacts DEF MbwPrograms
  <1>2. x \in Steps /\ x.name \in Names
    <2>1. x \in Steps
      BY <1>1
    <2> QED
      BY <2>1, StepsItself
  <1>3. /\ HasItsOwn(s, k, o) /\ (f = <<>> => HasAll(P, i, k, o)) /\ HasNoMore(P, i, k, o)
        /\ (p \in MbwPrograms => f = <<>>) /\ (i = 1 => FirstHasNoMore(P, k, o))
    BY DEF CleanAt
  <1>4. f2 = Append(f, x.name) => f2 # <<>> /\ Last(f2) = x.name
    BY <1>2, LastAppended
  <1>5. ASSUME bad
        PROVE  p = "rdm_mbw_mr_cntr" /\ x.name \in {"fi_cntr_open 2", "fi_av_open"}
    <2> SUFFICES ASSUME Careful(p, x) PROVE FALSE
      BY Zenon DEF Careful
    <2>1. ClosesItsOwn(s, k)
      BY <1>1
    <2>2. ~Shut(s, k)
      BY <1>1, Zenon DEF Ordered, Shut
    <2>3. ToSet(x.drop) \subseteq o
      <3> HIDE DEF bad
      <3> QED
        BY <1>3, <2>1, <2>2 DEF ClosesItsOwn, HasItsOwn
    <2> QED
      BY <1>5, <2>1, <2>3 DEF ClosesItsOwn
  <1>6. o2 \subseteq o
    OBVIOUS
  <1>7. HasNoMore(P, i, k, o2) /\ (i = 1 => FirstHasNoMore(P, k, o2))
    BY <1>3, <1>6 DEF HasNoMore, FirstHasNoMore
  <1>8. bad => CleanAt(p, P, i, k, "bad close", o2, f2)
    <2>1. ASSUME bad PROVE p = "rdm_mbw_mr_cntr" /\ f2 # <<>> /\ Last(f2) \in {"fi_cntr_open 2", "fi_av_open"}
      BY <1>4, <1>5, <2>1, Zenon
    <2> HIDE DEF bad, o2
    <2> QED
      BY <1>7, <2>1, Zenon DEF CleanAt
  <1>9. ~bad /\ P[i].on_error = "leave" => CleanAt(p, P, i, k, "left", o2, f2)
    <2> SUFFICES ASSUME ~bad, P[i].on_error = "leave" PROVE CleanAt(p, P, i, k, "left", o2, f2)
      OBVIOUS
    <2>1. ASSUME i = 1 PROVE o2 \subseteq Kept
      <3> SUFFICES ASSUME NEW h \in o2, h \notin Kept PROVE FALSE
        OBVIOUS
      <3>1. FirstThorough(p, s) /\ Made(h, s, k)
        BY <1>1, <1>3, <2>1 DEF FirstHasNoMore
      <3>2. CASE Careful(p, x)
        BY <3>1, <3>2 DEF FirstThorough
      <3>3. CASE ~Careful(p, x)
        <4>1. PICK g \in ToSet(x.drop) : g \notin Kept /\ ~Made(g, s, k)
          BY <3>1, <3>3 DEF FirstThorough
        <4>2. g \in o
          OBVIOUS
        <4> QED
          BY <1>3, <2>1, <4>1, <4>2 DEF FirstHasNoMore
      <3> QED
        BY <3>2, <3>3
    <2> HIDE DEF bad, o2
    <2> QED
      BY <1>7, <2>1 DEF CleanAt
  <1>10. CleanAt(p, P, i, k, "aborted", o2, f2)
    <2> HIDE DEF o2
    <2> QED
      BY <1>7 DEF CleanAt
  <1>11. P[i].on_error = "next" => i # Len(P) /\ CleanAt(p, P, i + 1, 1, "run", o2, f2)
    <2> SUFFICES ASSUME P[i].on_error = "next" PROVE i # Len(P) /\ CleanAt(p, P, i + 1, 1, "run", o2, f2)
      OBVIOUS
    <2>1. i # Len(P) /\ p \notin MbwPrograms /\ x.name # "drc_access"
      BY <1>1
    <2>2. f2 # <<>>
      BY <1>4, <2>1
    <2>3. \A h \in o2 : h \in Kept \/ h \in Closes(P[Len(P)].steps)
      BY <1>7, <2>1 DEF HasNoMore, Closing
    <2> HIDE DEF o2
    <2>4. o2 \in SUBSET Handles
      BY DEF o2
    <2> QED
      BY <2>1, <2>2, <2>3, <2>4, NextPartClean
  <1> QED
    BY <1>8, <1>9, <1>10, <1>11, Zenon


(* Where a rank is in the code                                             *)
LEMMA PlaceFacts ==
  ASSUME Typed, NEW r \in Ranks
  PROVE  LET P == Code[prog][r]
             i == at[r][1]
             k == at[r][2]
             s == P[i].steps
         IN  /\ Sound(prog, P) /\ P \in Seq(Parts) /\ Len(P) \in Nat /\ i \in 1 .. Len(P) /\ i \in Nat
             /\ s \in Seq(Steps) /\ Len(s) \in Nat /\ k \in 1 .. Len(s) /\ k \in Nat /\ s[k] \in Steps
             /\ P[i].on_error \in {"leave", "abort", "next"}
             /\ \A j \in 1 .. Len(P) : Len(P[j].steps) > 0 /\ Len(P[j].steps) \in Nat
             /\ ThePart(r) = P[i] /\ TheStep(r) = s[k]
             /\ at[r] = <<i, k>>
  <1> DEFINE P == Code[prog][r]
             i == at[r][1]
             k == at[r][2]
  <1>1. prog \in AllPrograms /\ i \in 1 .. Len(P) /\ k \in 1 .. Len(P[i].steps) /\ at[r] \in Nat \X Nat
    BY DEF Typed
  <1>2. Sound(prog, P)
    BY <1>1, EveryProgramSound
  <1>3. ThePart(r) = P[i] /\ TheStep(r) = P[i].steps[k]
    BY DEF ThePart, TheStep
  <1> HIDE DEF P
  <1>4. /\ P \in Seq(Parts) /\ Len(P) \in Nat /\ P[i].steps \in Seq(Steps) /\ Len(P[i].steps) \in Nat
        /\ P[i].on_error \in {"leave", "abort", "next"}
    BY <1>1, <1>2, SoundFacts
  <1>5. \A j \in 1 .. Len(P) : Len(P[j].steps) > 0 /\ Len(P[j].steps) \in Nat
    BY <1>2, SoundFacts
  <1>6. P[i].steps[k] \in Steps
    BY <1>1, <1>4
  <1>7. at[r] = <<i, k>> /\ i \in Nat /\ k \in Nat
    BY <1>1
  <1> QED
    BY <1>1, <1>2, <1>3, <1>4, <1>5, <1>6, <1>7 DEF P

(* Where a rank goes                                                       *)
Elsewhere(r) == \A q \in Ranks \ {r} : at'[q] = at[q] /\ status'[q] = status[q]
Position ==
  /\ at \in [Ranks -> Nat \X Nat] /\ status \in [Ranks -> Statuses]
  /\ \A r \in Ranks : /\ at[r][1] \in 1 .. Len(Code[prog][r])
                      /\ at[r][2] \in 1 .. Len(Code[prog][r][at[r][1]].steps)

(* A rank that ends stays where it is.                                     *)
LEMMA EndsFacts ==
  ASSUME Typed, NEW r \in Ranks, NEW how \in Statuses, Ends(r, how), prog' = prog
  PROVE  at'[r] = at[r] /\ status'[r] = how /\ Elsewhere(r) /\ Position'
  <1>1. status \in [Ranks -> Statuses]
    BY DEF Typed
  <1>2. at' = at /\ status' = [status EXCEPT ![r] = how]
    BY DEF Ends
  <1> QED
    BY <1>1, <1>2 DEF Typed, Elsewhere, Position

(* The next part, or the end of main                                       *)
LEMMA NextPartFacts ==
  ASSUME Typed, NEW r \in Ranks, status[r] = "run", NextPart(r), prog' = prog
  PROVE  LET P == Code[prog][r]
             i == at[r][1]
         IN  /\ i # Len(P) => at'[r] = <<i + 1, 1>> /\ status'[r] = "run"
             /\ i = Len(P) => at'[r] = at[r] /\ status'[r] = "done"
             /\ Elsewhere(r) /\ Position'
  <1> DEFINE P == Code[prog][r]
             i == at[r][1]
  <1>1. CASE i = Len(P)
    <2>1. Ends(r, "done") /\ "done" \in Statuses
      BY <1>1 DEF NextPart, Statuses
    <2>2. at'[r] = at[r] /\ status'[r] = "done" /\ Elsewhere(r) /\ Position'
      BY <2>1, EndsFacts
    <2> QED
      BY <1>1, <2>2
  <1>2. CASE i # Len(P)
    <2>1. at' = [at EXCEPT ![r] = <<i + 1, 1>>] /\ status' = status
      BY <1>2 DEF NextPart
    <2>2. at \in [Ranks -> Nat \X Nat] /\ status \in [Ranks -> Statuses]
      BY DEF Typed
    <2>3. i \in 1 .. Len(P) /\ Len(P) \in Nat /\ \A j \in 1 .. Len(P) : Len(P[j].steps) > 0 /\ Len(P[j].steps) \in Nat
      BY PlaceFacts, Zenon
    <2> HIDE DEF P, i
    <2>4. i + 1 \in Nat /\ i + 1 \in 1 .. Len(P) /\ 1 \in 1 .. Len(P[i + 1].steps)
      <3>1. i + 1 \in 1 .. Len(P) /\ i + 1 \in Nat
        BY <1>2, <2>3
      <3> QED
        BY <2>3, <3>1
    <2>5. at'[r] = <<i + 1, 1>> /\ status'[r] = "run" /\ Elsewhere(r)
      BY <2>1, <2>2 DEF Elsewhere
    <2>6. at' \in [Ranks -> Nat \X Nat] /\ status' \in [Ranks -> Statuses]
      BY <2>1, <2>2, <2>4
    <2>7. \A q \in Ranks : /\ at'[q][1] \in 1 .. Len(Code[prog][q])
                           /\ at'[q][2] \in 1 .. Len(Code[prog][q][at'[q][1]].steps)
      <3>1. CASE TRUE
        <4> SUFFICES ASSUME NEW q \in Ranks
                     PROVE  /\ at'[q][1] \in 1 .. Len(Code[prog][q])
                            /\ at'[q][2] \in 1 .. Len(Code[prog][q][at'[q][1]].steps)
          OBVIOUS
        <4>1. CASE q = r
          <5>1. at'[q][1] = i + 1 /\ at'[q][2] = 1
            BY <2>5, <4>1
          <5> QED
            BY <2>4, <4>1, <5>1 DEF P
        <4>2. CASE q # r
          <5>1. at'[q] = at[q]
            BY <2>5, <4>2 DEF Elsewhere
          <5> QED
            BY <5>1 DEF Typed
        <4> QED
          BY <4>1, <4>2
      <3> QED
        BY <3>1
    <2> QED
      BY <1>2, <2>5, <2>6, <2>7 DEF Position, P, i
  <1> QED
    BY <1>1, <1>2

(* The next step, the next part, or the end of main                        *)
LEMMA NextStepFacts ==
  ASSUME Typed, NEW r \in Ranks, status[r] = "run", NextStep(r), prog' = prog
  PROVE  LET P == Code[prog][r]
             i == at[r][1]
             k == at[r][2]
             n == Len(P[i].steps)
         IN  /\ k # n => at'[r] = <<i, k + 1>> /\ status'[r] = "run"
             /\ k = n /\ i # Len(P) => at'[r] = <<i + 1, 1>> /\ status'[r] = "run"
             /\ k = n /\ i = Len(P) => at'[r] = at[r] /\ status'[r] = "done"
             /\ Elsewhere(r) /\ Position'
  <1> DEFINE P == Code[prog][r]
             i == at[r][1]
             k == at[r][2]
             n == Len(P[i].steps)
  <1>1. n = Len(ThePart(r).steps)
    BY DEF ThePart
  <1>2. CASE k = n
    <2>1. NextPart(r)
      BY <1>1, <1>2 DEF NextStep
    <2> QED
      BY <1>2, <2>1, NextPartFacts
  <1>3. CASE k # n
    <2>1. at' = [at EXCEPT ![r] = [at[r] EXCEPT ![2] = at[r][2] + 1]] /\ status' = status
      BY <1>1, <1>3 DEF NextStep
    <2>2. at \in [Ranks -> Nat \X Nat] /\ status \in [Ranks -> Statuses]
      BY DEF Typed
    <2>3. i \in 1 .. Len(P) /\ n \in Nat /\ k \in 1 .. n /\ at[r] = <<i, k>> /\ i \in Nat
      BY PlaceFacts
    <2>4. [at[r] EXCEPT ![2] = at[r][2] + 1] = <<i, k + 1>>
      BY <2>3
    <2> HIDE DEF P, i, k, n
    <2>5. at' = [at EXCEPT ![r] = <<i, k + 1>>]
      BY <2>1, <2>4, Zenon
    <2>6. k + 1 \in 1 .. n /\ k + 1 \in Nat
      BY <1>3, <2>3
    <2>7. at'[r] = <<i, k + 1>> /\ status'[r] = "run" /\ Elsewhere(r)
      BY <2>1, <2>2, <2>5 DEF Elsewhere
    <2>8. at' \in [Ranks -> Nat \X Nat] /\ status' \in [Ranks -> Statuses]
      BY <2>1, <2>2, <2>3, <2>5, <2>6
    <2>9. ASSUME NEW q \in Ranks
          PROVE  /\ at'[q][1] \in 1 .. Len(Code[prog][q])
                 /\ at'[q][2] \in 1 .. Len(Code[prog][q][at'[q][1]].steps)
      <3>1. CASE q = r
        <4>1. at'[q][1] = i /\ at'[q][2] = k + 1
          BY <2>7, <3>1
        <4> QED
          BY <2>3, <2>6, <3>1, <4>1 DEF P, n
      <3>2. CASE q # r
        <4>1. at'[q] = at[q]
          BY <2>7, <3>2 DEF Elsewhere
        <4> QED
          BY <4>1 DEF Typed
      <3> QED
        BY <3>1, <3>2
    <2> QED
      BY <1>3, <2>7, <2>8, <2>9 DEF Position, P, i, k, n
  <1> QED
    BY <1>2, <1>3

Others(r) ==
  /\ prog' = prog /\ Elsewhere(r)
  /\ \A q \in Ranks \ {r} : open'[q] = open[q] /\ failed'[q] = failed[q]

(* The other ranks keep what they have.                                    *)
LEMMA OthersClean ==
  ASSUME NEW r \in Ranks, Others(r), NEW q \in Ranks \ {r}, Clean(q)
  PROVE  Clean(q)'
  <1>1. prog' = prog /\ at'[q] = at[q] /\ status'[q] = status[q] /\ open'[q] = open[q] /\ failed'[q] = failed[q]
    BY DEF Others, Elsewhere
  <1>2. CleanAt(prog, Code[prog][q], at[q][1], at[q][2], status[q], open[q], failed[q])
    BY DEF Clean
  <1>3. CleanAt(prog', Code[prog'][q], at'[q][1], at'[q][2], status'[q], open'[q], failed'[q])
    BY <1>1, <1>2
  <1> QED
    BY <1>3 DEF Clean

(* Going on after a step that went well                                    *)
LEMMA PassedClean ==
  ASSUME Typed, NEW r \in Ranks, Clean(r), status[r] = "run", TheStep(r).use \subseteq open[r], NextStep(r),
         open' = [open EXCEPT ![r] = After(TheStep(r), open[r])], prog' = prog, failed' = failed
  PROVE  Position' /\ open' \in [Ranks -> SUBSET Handles] /\ Others(r) /\ Clean(r)'
  <1> DEFINE P == Code[prog][r]
             i == at[r][1]
             k == at[r][2]
             x == P[i].steps[k]
             o == open[r]
             o2 == After(x, o)
             f == failed[r]
  <1>1. /\ Sound(prog, P) /\ i \in 1 .. Len(P) /\ k \in 1 .. Len(P[i].steps) /\ TheStep(r) = x /\ x \in Steps
    BY PlaceFacts, Zenon
  <1>2. open \in [Ranks -> SUBSET Handles] /\ o \in SUBSET Handles
    BY DEF Typed
  <1>3. o2 \in SUBSET Handles
    <2>1. x.make \subseteq Handles
      BY <1>1, StepsItself, Zenon
    <2> QED
      BY <1>2, <2>1, Zenon DEF After
  <1>4. CleanAt(prog, P, i, k, "run", o, f)
    BY DEF Clean
  <1>5. x.use \subseteq o
    BY <1>1, Zenon
  <1>6. /\ k # Len(P[i].steps) => at'[r] = <<i, k + 1>> /\ status'[r] = "run"
        /\ k = Len(P[i].steps) /\ i # Len(P) => at'[r] = <<i + 1, 1>> /\ status'[r] = "run"
        /\ k = Len(P[i].steps) /\ i = Len(P) => at'[r] = at[r] /\ status'[r] = "done"
        /\ Elsewhere(r) /\ Position'
    BY NextStepFacts
  <1>7. open' = [open EXCEPT ![r] = o2]
    BY <1>1, Zenon
  <1>8. Clean(r)' <=> CleanAt(prog, P, at'[r][1], at'[r][2], status'[r], open'[r], f)
    BY DEF Clean
  <1> HIDE DEF P, i, k, x, o, o2, f
  <1>9. open'[r] = o2 /\ open' \in [Ranks -> SUBSET Handles]
    BY <1>2, <1>3, <1>7
  <1>10. Others(r)
    BY <1>2, <1>6, <1>7 DEF Others
  <1>11. CleanAt(prog, P, at'[r][1], at'[r][2], status'[r], o2, f)
    <2>1. CASE k # Len(P[i].steps)
      <3>1. CleanAt(prog, P, i, k + 1, "run", o2, f)
        BY <1>1, <1>2, <1>4, <1>5, <2>1, NextStepClean DEF o2, x
      <3>2. at'[r][1] = i /\ at'[r][2] = k + 1 /\ status'[r] = "run"
        BY <1>6, <2>1
      <3> QED
        BY <3>1, <3>2
    <2>2. CASE k = Len(P[i].steps) /\ i # Len(P)
      <3>1. CleanAt(prog, P, i + 1, 1, "run", o2, f)
        BY <1>1, <1>2, <1>4, <1>5, <2>2, PartEndsClean, Zenon DEF o2, x
      <3>2. at'[r][1] = i + 1 /\ at'[r][2] = 1 /\ status'[r] = "run"
        BY <1>6, <2>2
      <3> QED
        BY <3>1, <3>2
    <2>3. CASE k = Len(P[i].steps) /\ i = Len(P)
      <3>1. CleanAt(prog, P, i, k, "done", o2, f)
        BY <1>1, <1>2, <1>4, <1>5, <2>3, PartEndsClean DEF o2, x
      <3>2. at'[r][1] = i /\ at'[r][2] = k /\ status'[r] = "done"
        BY <1>6, <2>3 DEF i, k
      <3> QED
        BY <3>1, <3>2
    <2> QED
      BY <2>1, <2>2, <2>3
  <1> QED
    BY <1>6, <1>8, <1>9, <1>10, <1>11

(* Stopping with what is open as it is                                     *)
LEMMA StoppedClean ==
  ASSUME Typed, NEW r \in Ranks, NEW how \in Statuses, Ends(r, how), prog' = prog, open' = open, failed' = failed,
         CleanAt(prog, Code[prog][r], at[r][1], at[r][2], how, open[r], failed[r])
  PROVE  Position' /\ Others(r) /\ Clean(r)'
  <1>1. at'[r] = at[r] /\ status'[r] = how /\ Elsewhere(r) /\ Position'
    BY EndsFacts
  <1>2. Others(r)
    BY <1>1 DEF Others
  <1>3. CleanAt(prog', Code[prog'][r], at'[r][1], at'[r][2], status'[r], open'[r], failed'[r])
    BY <1>1
  <1> QED
    BY <1>1, <1>2, <1>3 DEF Clean

(* Each action keeps the handles of a rank clean: a misuse,                *)
LEMMA MisuseStep ==
  ASSUME Typed, NEW r \in Ranks, Clean(r), Misuse(r)
  PROVE  Typed' /\ Others(r) /\ Clean(r)'
  <1>1. /\ status[r] = "run" /\ ~(TheStep(r).use \subseteq open[r]) /\ Ends(r, "misuse")
        /\ UNCHANGED <<prog, in, open, calls, sent, mixed, cred, failed>>
    BY DEF Misuse, Kind, meetings
  <1> DEFINE P == Code[prog][r]
             i == at[r][1]
             k == at[r][2]
  <1>2. Sound(prog, P) /\ i \in 1 .. Len(P) /\ k \in 1 .. Len(P[i].steps) /\ TheStep(r) = P[i].steps[k]
    BY PlaceFacts
  <1>3. CleanAt(prog, P, i, k, "run", open[r], failed[r]) /\ ~(P[i].steps[k].use \subseteq open[r])
    BY <1>1, <1>2, Zenon DEF Clean
  <1>4. CleanAt(prog, P, i, k, "misuse", open[r], failed[r])
    <2> HIDE DEF P, i, k
    <2> QED
      BY <1>2, <1>3, MisuseClean
  <1>5. Position' /\ Others(r) /\ Clean(r)'
    BY <1>1, <1>4, StoppedClean, Zenon DEF Statuses
  <1>6. Typed'
    BY <1>1, <1>5 DEF Typed, Position
  <1> QED
    BY <1>5, <1>6

(* a call that succeeds,                                                   *)
LEMMA SucceedStep ==
  ASSUME Typed, NEW r \in Ranks, Clean(r), Succeed(r)
  PROVE  Typed' /\ Others(r) /\ Clean(r)'
  <1>1. /\ status[r] = "run" /\ TheStep(r).kind = "call" /\ TheStep(r).use \subseteq open[r] /\ NextStep(r)
        /\ open' = [open EXCEPT ![r] = open[r] \cup TheStep(r).make]
        /\ UNCHANGED <<prog, in, calls, sent, mixed, failed>>
    BY DEF Succeed, Kind, meetings
  <1>2. cred' \in {"none", "held", "released"}
    BY DEF Succeed, Typed
  <1>3. open' = [open EXCEPT ![r] = After(TheStep(r), open[r])]
    BY <1>1 DEF After
  <1>4. Position' /\ open' \in [Ranks -> SUBSET Handles] /\ Others(r) /\ Clean(r)'
    BY <1>1, <1>3, PassedClean, Zenon
  <1>5. Typed'
    BY <1>1, <1>2, <1>4, Zenon DEF Typed, Position
  <1> QED
    BY <1>4, <1>5

(* a step that cannot fail,                                                *)
LEMMA GoStep ==
  ASSUME Typed, NEW r \in Ranks, Clean(r), Go(r)
  PROVE  Typed' /\ Others(r) /\ Clean(r)'
  <1>1. /\ status[r] = "run" /\ TheStep(r).kind = "step" /\ TheStep(r).use \subseteq open[r] /\ NextStep(r)
        /\ open' = [open EXCEPT ![r] = (open[r] \cup TheStep(r).make) \ ToSet(TheStep(r).drop)]
        /\ UNCHANGED <<prog, in, calls, sent, mixed, failed>>
    BY DEF Go, Kind, meetings
  <1>2. cred' \in {"none", "held", "released"}
    BY DEF Go, Typed
  <1>3. open' = [open EXCEPT ![r] = After(TheStep(r), open[r])]
    BY <1>1 DEF After
  <1>4. Position' /\ open' \in [Ranks -> SUBSET Handles] /\ Others(r) /\ Clean(r)'
    BY <1>1, <1>3, PassedClean, Zenon
  <1>5. Typed'
    BY <1>1, <1>2, <1>4, Zenon DEF Typed, Position
  <1> QED
    BY <1>4, <1>5

(* a collective that is entered,                                           *)
LEMMA EnterStep ==
  ASSUME Typed, NEW r \in Ranks, Clean(r), Enter(r)
  PROVE  Typed' /\ Others(r) /\ Clean(r)'
  <1>1. /\ in' = [in EXCEPT ![r] = TRUE] /\ calls' = [calls EXCEPT ![r] = calls[r] + 1]
        /\ sent' = IF Kind(r, "gather") THEN [sent EXCEPT ![r] = Append(sent[r], Label(r))] ELSE sent
        /\ UNCHANGED <<prog, at, status, open, mixed, cred, failed>>
    BY DEF Enter
  <1>2. Label(r) \in Labels
    <2>1. TheStep(r).name \in Names
      BY PlaceFacts, StepsItself, Zenon
    <2> QED
      BY <2>1 DEF Label, Labels
  <1>3. sent' \in [Ranks -> Seq(Labels)]
    <2>1. sent \in [Ranks -> Seq(Labels)]
      BY DEF Typed
    <2>2. Append(sent[r], Label(r)) \in Seq(Labels)
      BY <1>2, <2>1
    <2> QED
      BY <1>1, <2>1, <2>2
  <1>4. in' \in [Ranks -> BOOLEAN] /\ calls' \in [Ranks -> Nat]
    <2>1. in \in [Ranks -> BOOLEAN] /\ calls \in [Ranks -> Nat]
      BY DEF Typed
    <2>2. calls[r] + 1 \in Nat
      BY <2>1
    <2> QED
      BY <1>1, <2>1, <2>2
  <1>5. Typed'
    BY <1>1, <1>3, <1>4, Zenon DEF Typed
  <1>6. Others(r)
    BY <1>1 DEF Others, Elsewhere
  <1>7. Clean(r)'
    BY <1>1 DEF Clean
  <1> QED
    BY <1>5, <1>6, <1>7

(* a barrier that is left,                                                 *)
LEMMA LeaveBarrierStep ==
  ASSUME Typed, NEW r \in Ranks, Clean(r), LeaveBarrier(r)
  PROVE  Typed' /\ Others(r) /\ Clean(r)'
  <1>1. /\ status[r] = "run" /\ TheStep(r).kind = "barrier" /\ NextStep(r)
        /\ in' = [in EXCEPT ![r] = FALSE]
        /\ UNCHANGED <<prog, open, calls, sent, mixed, cred, failed>>
    BY DEF LeaveBarrier, Kind, meetings
  <1>2. TheStep(r).use = {} /\ TheStep(r).make = {}
    BY <1>1, PlaceFacts, StepsItself, Zenon
  <1>3. open' = [open EXCEPT ![r] = After(TheStep(r), open[r])]
    <2>1. After(TheStep(r), open[r]) = open[r]
      BY <1>1, <1>2 DEF After
    <2>2. open = [open EXCEPT ![r] = open[r]]
      BY DEF Typed
    <2> QED
      BY <1>1, <2>1, <2>2
  <1>4. Position' /\ open' \in [Ranks -> SUBSET Handles] /\ Others(r) /\ Clean(r)'
    BY <1>1, <1>2, <1>3, PassedClean, Zenon
  <1>5. in' \in [Ranks -> BOOLEAN]
    BY <1>1 DEF Typed
  <1>6. Typed'
    BY <1>1, <1>4, <1>5, Zenon DEF Typed, Position
  <1> QED
    BY <1>4, <1>6

(* a gather that is left, to the data, to the next step or by an           *)
(* assertion,                                                              *)
LEMMA LeaveGatherStep ==
  ASSUME Typed, NEW r \in Ranks, Clean(r), LeaveGather(r)
  PROVE  Typed' /\ Others(r) /\ Clean(r)'
  <1> DEFINE n == Len(sent[r])
             short == \E q \in Ranks : Len(sent[q]) < n
  <1>1. /\ status[r] = "run" /\ TheStep(r).kind = "gather"
        /\ in' = [in EXCEPT ![r] = FALSE]
        /\ UNCHANGED <<prog, calls, sent, cred, failed>>
    BY DEF LeaveGather, Kind
  <1>2. IF short THEN Ends(r, "aborted") /\ UNCHANGED <<open, mixed>>
        ELSE /\ mixed' = [mixed EXCEPT ![r] = mixed[r] \/ \E q \in Ranks : sent[q][n] # sent[r][n]]
             /\ open' = [open EXCEPT ![r] = open[r] \cup TheStep(r).make]
             /\ IF n = 1 THEN UNCHANGED <<at, status>> ELSE NextStep(r)
    BY DEF LeaveGather
  <1>3. TheStep(r).use = {} /\ TheStep(r).make \subseteq Kept
    BY <1>1, PlaceFacts, StepsItself, Zenon
  <1>4. in' \in [Ranks -> BOOLEAN]
    BY <1>1 DEF Typed
  <1>5. CleanAt(prog, Code[prog][r], at[r][1], at[r][2], "run", open[r], failed[r])
    BY <1>1 DEF Clean
  <1>6. Kept \subseteq Handles
    BY DEF Kept
  <1> HIDE DEF n, short
  <1>7. CASE short
    <2>1. CleanAt(prog, Code[prog][r], at[r][1], at[r][2], "aborted", open[r], failed[r])
      BY <1>5, StopClean
    <2>2. Position' /\ Others(r) /\ Clean(r)'
      BY <1>1, <1>2, <1>7, <2>1, StoppedClean, Zenon DEF Statuses
    <2>3. Typed'
      BY <1>1, <1>2, <1>4, <1>7, <2>2 DEF Typed, Position
    <2> QED
      BY <2>2, <2>3
  <1>8. CASE ~short
    <2>1. mixed' \in [Ranks -> BOOLEAN]
      <3>1. mixed \in [Ranks -> BOOLEAN]
        BY DEF Typed
      <3> DEFINE b == mixed[r] \/ \E q \in Ranks : sent[q][n] # sent[r][n]
      <3>2. mixed' = [mixed EXCEPT ![r] = b]
        BY <1>2, <1>8
      <3>3. b \in BOOLEAN
        OBVIOUS
      <3> HIDE DEF b
      <3> QED
        BY <3>1, <3>2, <3>3
    <2>2. open' = [open EXCEPT ![r] = open[r] \cup TheStep(r).make]
      BY <1>2, <1>8
    <2>3. CASE n = 1
      <3>1. at' = at /\ status' = status
        BY <1>2, <1>8, <2>3
      <3>2. open \in [Ranks -> SUBSET Handles]
        BY DEF Typed
      <3>3. open' \in [Ranks -> SUBSET Handles] /\ open'[r] = open[r] \cup TheStep(r).make
        BY <1>3, <1>6, <2>2, <3>2
      <3>4. CleanAt(prog, Code[prog][r], at[r][1], at[r][2], "run", open'[r], failed[r])
        <4> DEFINE m == TheStep(r).make
        <4>1. m \in SUBSET Kept
          BY <1>3
        <4> HIDE DEF m
        <4>2. CleanAt(prog, Code[prog][r], at[r][1], at[r][2], "run", open[r] \cup m, failed[r])
          BY <1>5, <4>1, StayClean, Zenon
        <4>3. open'[r] = open[r] \cup m
          BY <3>3 DEF m
        <4> QED
          BY <4>2, <4>3
      <3>5. Clean(r)'
        <4>1. CleanAt(prog', Code[prog'][r], at'[r][1], at'[r][2], status'[r], open'[r], failed'[r])
          BY <1>1, <3>1, <3>4
        <4> QED
          BY <4>1 DEF Clean
      <3>6. Others(r)
        BY <1>1, <2>2, <3>1, <3>2 DEF Others, Elsewhere
      <3>7. Typed'
        BY <1>1, <1>4, <2>1, <3>1, <3>3, Zenon DEF Typed
      <3> QED
        BY <3>5, <3>6, <3>7
    <2>4. CASE n # 1
      <3>1. NextStep(r)
        BY <1>2, <1>8, <2>4
      <3>2. open' = [open EXCEPT ![r] = After(TheStep(r), open[r])]
        BY <1>1, <2>2 DEF After
      <3>3. Position' /\ open' \in [Ranks -> SUBSET Handles] /\ Others(r) /\ Clean(r)'
        BY <1>1, <1>3, <3>1, <3>2, PassedClean, Zenon
      <3>4. Typed'
        BY <1>1, <1>4, <2>1, <3>3, Zenon DEF Typed, Position
      <3> QED
        BY <3>3, <3>4
    <2> QED
      BY <2>3, <2>4
  <1> QED
    BY <1>7, <1>8

(* and a call that fails, whichever way its part goes on.                  *)
LEMMA FailStep ==
  ASSUME Typed, NEW r \in Ranks, Clean(r), Fail(r)
  PROVE  Typed' /\ Others(r) /\ Clean(r)'
  <1> DEFINE P == Code[prog][r]
             i == at[r][1]
             k == at[r][2]
             x == P[i].steps[k]
             o == open[r]
             o2 == o \ ToSet(x.drop)
             f == failed[r]
             f2 == failed'[r]
             bad == ~(ToSet(x.drop) \subseteq o /\ IsInjective(x.drop))
  <1>1. /\ Sound(prog, P) /\ P \in Seq(Parts) /\ i \in 1 .. Len(P) /\ k \in 1 .. Len(P[i].steps)
        /\ TheStep(r) = x /\ ThePart(r) = P[i] /\ x \in Steps /\ P[i].on_error \in {"leave", "abort", "next"}
    BY PlaceFacts
  <1>2. /\ prog \in AllPrograms /\ open \in [Ranks -> SUBSET Handles] /\ o \in SUBSET Handles
        /\ failed \in [Ranks -> Seq(Names)] /\ f \in Seq(Names)
    BY DEF Typed
  <1>3. x.name \in Names
    BY <1>1, StepsItself
  <1>4. /\ status[r] = "run" /\ x.kind = "call" /\ x.use \subseteq o
        /\ open' = [open EXCEPT ![r] = o2]
        /\ prog' = prog /\ in' = in /\ calls' = calls /\ sent' = sent /\ mixed' = mixed
    BY <1>1, Zenon DEF Fail, Kind, meetings
  <1>5. cred' \in {"none", "held", "released"}
    BY Zenon DEF Fail, Typed
  <1>6. \/ failed' = [failed EXCEPT ![r] = Append(failed[r], x.name)]
        \/ x.name = "drc_access" /\ failed' = failed
    BY <1>1, Zenon DEF Fail, Accessible
  <1>7. IF bad THEN Ends(r, "bad close")
        ELSE /\ P[i].on_error = "leave" => Ends(r, "left")
             /\ P[i].on_error = "abort" => Ends(r, "aborted")
             /\ P[i].on_error = "next" => NextPart(r)
    <2>1. IF bad THEN Ends(r, "bad close")
          ELSE CASE P[i].on_error = "leave" -> Ends(r, "left")
                 [] P[i].on_error = "abort" -> Ends(r, "aborted")
                 [] P[i].on_error = "next" -> NextPart(r)
      BY <1>1, Zenon DEF Fail
    <2> HIDE DEF bad, P
    <2> QED
      BY <2>1, Zenon
  <1>8. CleanAt(prog, P, i, k, "run", o, f)
    BY <1>4, Zenon DEF Clean
  <1>9. /\ failed' \in [Ranks -> Seq(Names)] /\ \A q \in Ranks \ {r} : failed'[q] = failed[q]
        /\ f2 = Append(f, x.name) \/ (x.name = "drc_access" /\ f2 = f)
    <2>1. Append(failed[r], x.name) \in Seq(Names)
      BY <1>2, <1>3
    <2> HIDE DEF x
    <2> QED
      BY <1>2, <1>6, <2>1, Zenon
  <1>10. Clean(r)' <=> CleanAt(prog, P, at'[r][1], at'[r][2], status'[r], open'[r], f2)
    BY <1>4, Zenon DEF Clean
  <1>11. o2 \in SUBSET Handles
    BY <1>2
  <1>12. open'[r] = o2 /\ open' \in [Ranks -> SUBSET Handles] /\ \A q \in Ranks \ {r} : open'[q] = open[q]
    <2> HIDE DEF o2
    <2> QED
      BY <1>2, <1>4, <1>11
  <1>13. /\ bad => CleanAt(prog, P, i, k, "bad close", o2, f2)
         /\ ~bad /\ P[i].on_error = "leave" => CleanAt(prog, P, i, k, "left", o2, f2)
         /\ ~bad /\ P[i].on_error = "abort" => CleanAt(prog, P, i, k, "aborted", o2, f2)
         /\ P[i].on_error = "next" => i # Len(P) /\ CleanAt(prog, P, i + 1, 1, "run", o2, f2)
    <2> HIDE DEF P, i, k, o, f, f2
    <2> QED
      BY <1>1, <1>2, <1>4, <1>8, <1>9, FailClean, Zenon
  <1>14. /\ \A how \in Statuses : Ends(r, how) => at'[r] = at[r] /\ status'[r] = how /\ Elsewhere(r) /\ Position'
         /\ NextPart(r) /\ i # Len(P) => at'[r] = <<i + 1, 1>> /\ status'[r] = "run" /\ Elsewhere(r) /\ Position'
    BY <1>4, EndsFacts, NextPartFacts, Zenon
  <1>15. at[r][1] = i /\ at[r][2] = k /\ {"bad close", "left", "aborted"} \subseteq Statuses
    BY DEF Statuses
  <1> HIDE DEF P, i, k, x, o, o2, f, f2, bad
  <1>16. CleanAt(prog, P, at'[r][1], at'[r][2], status'[r], o2, f2) /\ Elsewhere(r) /\ Position'
    <2>1. CASE bad
      BY <1>7, <1>13, <1>14, <1>15, <2>1, Zenon
    <2>2. CASE ~bad /\ P[i].on_error = "leave"
      BY <1>7, <1>13, <1>14, <1>15, <2>2, Zenon
    <2>3. CASE ~bad /\ P[i].on_error = "abort"
      BY <1>7, <1>13, <1>14, <1>15, <2>3, Zenon
    <2>4. CASE ~bad /\ P[i].on_error = "next"
      <3>1. at'[r] = <<i + 1, 1>> /\ status'[r] = "run" /\ Elsewhere(r) /\ Position'
        BY <1>7, <1>13, <1>14, <2>4, Zenon
      <3>2. at'[r][1] = i + 1 /\ at'[r][2] = 1
        BY <3>1
      <3> QED
        BY <1>13, <2>4, <3>1, <3>2, Zenon
    <2> QED
      BY <1>1, <2>1, <2>2, <2>3, <2>4
  <1>17. Others(r)
    BY <1>4, <1>9, <1>12, <1>16 DEF Others
  <1>18. Typed'
    BY <1>2, <1>4, <1>5, <1>9, <1>12, <1>16, Zenon DEF Typed, Position
  <1> QED
    BY <1>10, <1>12, <1>16, <1>17, <1>18

CleanInv == Typed /\ \A r \in Ranks : Clean(r)

(* Nothing is open at the beginning.                                       *)
LEMMA InitClean ==
  ASSUME Init
  PROVE  CleanInv
  <1>1. prog \in AllPrograms
    BY ProgramsAssumption DEF Init
  <1>2. ASSUME NEW r \in Ranks
        PROVE  LET P == Code[prog][r]
               IN  /\ 1 \in 1 .. Len(P) /\ 1 \in 1 .. Len(P[1].steps)
                   /\ CleanAt(prog, P, 1, 1, "run", {}, <<>>)
    <2> DEFINE P == Code[prog][r]
    <2>1. Sound(prog, P)
      BY <1>1, EveryProgramSound
    <2> HIDE DEF P
    <2>2. P \in Seq(Parts) /\ Len(P) > 0 /\ Len(P) \in Nat
      BY <2>1 DEF Sound, WellMade
    <2>3. 1 \in 1 .. Len(P)
      BY <2>2
    <2>4. Len(P[1].steps) > 0 /\ Len(P[1].steps) \in Nat
      BY <2>1, <2>3, SoundFacts
    <2>5. HasItsOwn(P[1].steps, 1, {})
      BY AtTheStart DEF HasItsOwn
    <2>6. HasAll(P, 1, 1, {})
      BY <2>2, <2>3, AtTheStart, NextBefore, Zenon DEF HasAll
    <2>7. HasNoMore(P, 1, 1, {}) /\ FirstHasNoMore(P, 1, {})
      BY DEF HasNoMore, FirstHasNoMore
    <2>8. CleanAt(prog, P, 1, 1, "run", {}, <<>>)
      BY <2>5, <2>6, <2>7 DEF CleanAt
    <2> QED
      BY <2>3, <2>4, <2>8 DEF P
  <1>3. ASSUME NEW r \in Ranks
        PROVE  at[r][1] = 1 /\ at[r][2] = 1 /\ status[r] = "run" /\ open[r] = {} /\ failed[r] = <<>>
    BY DEF Init
  <1>4. Typed
    <2>1. <<>> \in Seq(Names) /\ <<>> \in Seq(Labels) /\ <<1, 1>> \in Nat \X Nat /\ "run" \in Statuses
      BY DEF Statuses
    <2>2. /\ at \in [Ranks -> Nat \X Nat] /\ status \in [Ranks -> Statuses]
          /\ in \in [Ranks -> BOOLEAN] /\ mixed \in [Ranks -> BOOLEAN]
          /\ open \in [Ranks -> SUBSET Handles] /\ calls \in [Ranks -> Nat]
          /\ sent \in [Ranks -> Seq(Labels)] /\ cred \in {"none", "held", "released"}
          /\ failed \in [Ranks -> Seq(Names)]
      BY <2>1 DEF Init
    <2> QED
      BY <1>1, <1>2, <1>3, <2>2, Zenon DEF Typed
  <1>5. \A r \in Ranks : Clean(r)
    BY <1>2, <1>3, Zenon DEF Clean
  <1> QED
    BY <1>4, <1>5 DEF CleanInv

(* Every step of a rank keeps the invariant,                               *)
LEMMA RankStepClean ==
  ASSUME CleanInv, NEW r \in Ranks, RankStep(r)
  PROVE  CleanInv' /\ Others(r)
  <1>1. Typed /\ Clean(r)
    BY DEF CleanInv
  <1>2. Typed' /\ Others(r) /\ Clean(r)'
    <2>1. CASE Misuse(r)
      BY <1>1, <2>1, MisuseStep
    <2>2. CASE Succeed(r)
      BY <1>1, <2>2, SucceedStep
    <2>3. CASE Fail(r)
      BY <1>1, <2>3, FailStep
    <2>4. CASE Go(r)
      BY <1>1, <2>4, GoStep
    <2>5. CASE Enter(r)
      BY <1>1, <2>5, EnterStep
    <2>6. CASE LeaveBarrier(r)
      BY <1>1, <2>6, LeaveBarrierStep
    <2>7. CASE LeaveGather(r)
      BY <1>1, <2>7, LeaveGatherStep
    <2> QED
      BY <2>1, <2>2, <2>3, <2>4, <2>5, <2>6, <2>7 DEF RankStep
  <1>3. \A q \in Ranks \ {r} : Clean(q)'
    BY <1>2, OthersClean DEF CleanInv
  <1>4. \A q \in Ranks : Clean(q)'
    BY <1>2, <1>3
  <1> QED
    BY <1>2, <1>4 DEF CleanInv

(* as does doing nothing,                                                  *)
LEMMA StutterClean ==
  ASSUME CleanInv, UNCHANGED vars
  PROVE  CleanInv'
  <1>1. /\ prog' = prog /\ at' = at /\ in' = in /\ status' = status /\ open' = open /\ calls' = calls
        /\ sent' = sent /\ mixed' = mixed /\ cred' = cred /\ failed' = failed
    BY DEF vars, progress, meetings
  <1> QED
    BY <1>1 DEF CleanInv, Typed, Clean

(* and it implies what the runs check.                                     *)
LEMMA CleanInvImplies ==
  ASSUME CleanInv
  PROVE  ErrorPathsClean
  <1>1. ASSUME NEW r \in Ranks
        PROVE  /\ status[r] = "bad close" =>
                    prog = "rdm_mbw_mr_cntr" /\ Last(failed[r]) \in {"fi_cntr_open 2", "fi_av_open"}
               /\ status[r] = "misuse" => failed[r] # <<>> /\ prog \notin {"rdm_mbw_mr", "rdm_mbw_mr_cntr"}
               /\ status[r] = "done" => open[r] \subseteq Kept
               /\ status[r] = "left" /\ at[r][1] = 1 => open[r] \subseteq Kept
    BY Zenon DEF CleanInv, Clean, CleanAt, MbwPrograms
  <1>2. \A r \in Ranks : open[r] \subseteq Kept => AllClosed(r)
    BY DEF AllClosed, Kept
  <1> QED
    BY <1>1, <1>2, Zenon DEF ErrorPathsClean, BadCloses, Misuses

(* The error paths of all programs close what is open, each handle once    *)
(* (but those of alloc_ep_res with counters); a handle that is not open is *)
(* used only after a failure that the program ignores; nothing stays open  *)
(* after main, nor after a failure of its first part: for all ranks,       *)
(* threads and failures.                                                   *)
THEOREM ErrorPaths == Spec => []ErrorPathsClean
  <1>1. Init => CleanInv
    BY InitClean
  <1>2. CleanInv /\ [Next]_vars => CleanInv'
    BY RankStepClean, StutterClean DEF Next
  <1>3. CleanInv => ErrorPathsClean
    BY CleanInvImplies
  <1> QED
    BY <1>1, <1>2, <1>3, PTL DEF Spec
-----------------------------------------------------------------------------
(* auth_key_test: what a step does to the position and the counts          *)
Alone(r) == \A q \in Ranks \ {r} : in'[q] = in[q] /\ calls'[q] = calls[q] /\ sent'[q] = sent[q]
Auth == prog = "auth_key_test"

(* Where a rank is, in auth_key_test                                       *)
LEMMA AuthPlace ==
  ASSUME Typed, Auth, NEW r \in Ranks
  PROVE  LET i == at[r][1]
             k == at[r][2]
         IN  /\ i \in {1, 2, 3} /\ k \in 1 .. StepsIn(r, i) /\ at[r] = <<i, k>> /\ k \in Nat
             /\ Len(Code[prog][r]) = 3
             /\ StepsIn(r, i) = Len(Code[prog][r][i].steps) /\ StepsIn(r, i) = Len(ThePart(r).steps)
             /\ TheStep(r).kind = StepKind(r, i, k) /\ TheStep(r).kind \in Kinds
             /\ ThePart(r).on_error = IF i = 1 THEN "leave" ELSE IF i = 2 THEN "next" ELSE "abort"
             /\ calls[r] \in Nat /\ Len(sent[r]) \in Nat /\ in[r] \in BOOLEAN
  <1> DEFINE i == at[r][1]
             k == at[r][2]
             P == Code[prog][r]
  <1>1. /\ i \in 1 .. Len(P) /\ k \in 1 .. Len(P[i].steps) /\ at[r] = <<i, k>> /\ k \in Nat
        /\ ThePart(r) = P[i] /\ TheStep(r) = P[i].steps[k] /\ P[i].steps[k] \in Steps
    BY PlaceFacts
  <1>2. Len(P) = 3 /\ P[1].on_error = "leave" /\ P[2].on_error = "next" /\ P[3].on_error = "abort"
    BY AuthCode DEF Auth
  <1>3. StepsIn(r, i) = Len(P[i].steps) /\ StepKind(r, i, k) = P[i].steps[k].kind
    BY DEF Auth, StepsIn, StepKind
  <1>4. calls[r] \in Nat /\ Len(sent[r]) \in Nat /\ in[r] \in BOOLEAN
    BY DEF Typed
  <1>5. P[i].steps[k].kind \in Kinds
    BY <1>1, StepsItself, Zenon
  <1> HIDE DEF P
  <1>6. i \in {1, 2, 3}
    BY <1>1, <1>2
  <1> QED
    BY <1>1, <1>2, <1>3, <1>4, <1>5, <1>6, Zenon DEF P

(* The counts at the step where NextStep leads                             *)
LEMMA CountedThere ==
  ASSUME Typed, Auth, NEW r \in Ranks, status[r] = "run", NextStep(r), prog' = prog,
         NEW c, NEW l,
         LET i == at[r][1]
             k == at[r][2]
         IN  /\ k # StepsIn(r, i) => CountedAt(r, i, k + 1, "run", FALSE, c, l)
             /\ k = StepsIn(r, i) /\ i # 3 => CountedAt(r, i + 1, 1, "run", FALSE, c, l)
             /\ k = StepsIn(r, i) /\ i = 3 => CountedAt(r, i, k, "done", FALSE, c, l)
  PROVE  CountedAt(r, at'[r][1], at'[r][2], status'[r], FALSE, c, l)
  <1> DEFINE i == at[r][1]
             k == at[r][2]
             n == StepsIn(r, i)
  <1>1. Len(Code[prog][r]) = 3 /\ n = Len(Code[prog][r][i].steps)
    BY AuthPlace
  <1>2. /\ k # n => at'[r] = <<i, k + 1>> /\ status'[r] = "run"
        /\ k = n /\ i # 3 => at'[r] = <<i + 1, 1>> /\ status'[r] = "run"
        /\ k = n /\ i = 3 => at'[r] = at[r] /\ status'[r] = "done"
    BY <1>1, NextStepFacts, Zenon
  <1>3. /\ k # n => CountedAt(r, i, k + 1, "run", FALSE, c, l)
        /\ k = n /\ i # 3 => CountedAt(r, i + 1, 1, "run", FALSE, c, l)
        /\ k = n /\ i = 3 => CountedAt(r, i, k, "done", FALSE, c, l)
    BY Zenon
  <1>4. CASE k # n
    <2>1. at'[r][1] = i /\ at'[r][2] = k + 1 /\ status'[r] = "run"
      BY <1>2, <1>4
    <2> QED
      BY <1>3, <1>4, <2>1, Zenon
  <1>5. CASE k = n /\ i # 3
    <2>1. at'[r][1] = i + 1 /\ at'[r][2] = 1 /\ status'[r] = "run"
      BY <1>2, <1>5
    <2> QED
      BY <1>3, <1>5, <2>1, Zenon
  <1>6. CASE k = n /\ i = 3
    <2>1. at'[r][1] = i /\ at'[r][2] = k /\ status'[r] = "done"
      BY <1>2, <1>6
    <2> QED
      BY <1>3, <1>6, <2>1, Zenon
  <1> QED
    BY <1>4, <1>5, <1>6, Zenon

(* A call or a plain step passes, by a step to wherever it leads           *)
LEMMA PassedCounted ==
  ASSUME Typed, Auth, NEW r \in Ranks, Counted(r), status[r] = "run",
         TheStep(r).kind \in {"call", "step"}
  PROVE  LET i == at[r][1]
             k == at[r][2]
             c == calls[r]
             l == Len(sent[r])
         IN  /\ in[r] = FALSE
             /\ \A st : CountedAt(r, i, k, st, FALSE, c, l)
             /\ i = 2 => CountedAt(r, 3, 1, "run", FALSE, c, l)
             /\ NextStep(r) /\ prog' = prog => CountedAt(r, at'[r][1], at'[r][2], status'[r], FALSE, c, l)
  <1> DEFINE i == at[r][1]
             k == at[r][2]
             c == calls[r]
             l == Len(sent[r])
  <1>1. /\ i \in {1, 2, 3} /\ k \in 1 .. StepsIn(r, i) /\ c \in Nat /\ l \in Nat /\ in[r] \in BOOLEAN
        /\ TheStep(r).kind = StepKind(r, i, k)
    BY AuthPlace
  <1>2. CountedAt(r, i, k, "run", in[r], c, l)
    BY DEF Counted
  <1>3. in[r] = FALSE
    BY <1>1, <1>2 DEF CountedAt
  <1>4. CountedAt(r, i, k, "run", FALSE, c, l)
    BY <1>2, <1>3, Zenon
  <1> HIDE DEF i, k, c, l
  <1>5. /\ \A st : CountedAt(r, i, k, st, FALSE, c, l)
        /\ k # StepsIn(r, i) => CountedAt(r, i, k + 1, "run", FALSE, c, l)
        /\ k = StepsIn(r, i) => i \in {1, 2} /\ CountedAt(r, i + 1, 1, "run", FALSE, c, l)
        /\ i = 2 => CountedAt(r, 3, 1, "run", FALSE, c, l)
    BY <1>1, <1>4, PassCounted, Zenon
  <1>6. ASSUME NextStep(r), prog' = prog PROVE CountedAt(r, at'[r][1], at'[r][2], status'[r], FALSE, c, l)
    BY <1>5, <1>6, CountedThere, Zenon DEF i, k
  <1> QED
    BY <1>3, <1>5, <1>6, Zenon DEF i, k, c, l

(* Calls and plain steps enter no barrier,                                 *)
LEMMA CallCounted ==
  ASSUME Typed, Auth, NEW r \in Ranks, Counted(r), Misuse(r) \/ Succeed(r) \/ Fail(r) \/ Go(r)
  PROVE  Counted(r)' /\ Alone(r) /\ in[r] = FALSE /\ calls' = calls /\ in' = in
  <1> DEFINE i == at[r][1]
             k == at[r][2]
             c == calls[r]
             l == Len(sent[r])
  <1>1. /\ status[r] = "run" /\ TheStep(r).kind \in {"call", "step"}
        /\ prog' = prog /\ in' = in /\ calls' = calls /\ sent' = sent
    BY Zenon DEF Misuse, Succeed, Fail, Go, Kind, meetings
  <1>2. /\ in[r] = FALSE
        /\ \A st : CountedAt(r, i, k, st, FALSE, c, l)
        /\ i = 2 => CountedAt(r, 3, 1, "run", FALSE, c, l)
        /\ NextStep(r) => CountedAt(r, at'[r][1], at'[r][2], status'[r], FALSE, c, l)
    BY <1>1, PassedCounted, Zenon
  <1>3. Alone(r)
    BY <1>1 DEF Alone
  <1>4. ASSUME CountedAt(r, at'[r][1], at'[r][2], status'[r], FALSE, c, l) PROVE Counted(r)'
    <2>1. CountedAt(r, at'[r][1], at'[r][2], status'[r], in'[r], calls'[r], Len(sent'[r]))
      BY <1>1, <1>2, <1>4, Zenon
    <2> QED
      BY <2>1 DEF Counted
  <1>5. \A how \in Statuses : Ends(r, how) => at'[r] = at[r] /\ status'[r] = how
    BY <1>1, EndsFacts
  <1>6. ASSUME NEW how \in Statuses, Ends(r, how) PROVE Counted(r)'
    <2>1. at'[r][1] = i /\ at'[r][2] = k
      BY <1>5, <1>6
    <2> QED
      BY <1>2, <1>4, <2>1, Zenon
  <1>7. {"misuse", "bad close", "left", "aborted"} \subseteq Statuses
    BY DEF Statuses
  <1>8. ASSUME Misuse(r) PROVE Counted(r)'
    BY <1>6, <1>7, <1>8, Zenon DEF Misuse
  <1>9. ASSUME Succeed(r) PROVE Counted(r)'
    BY <1>2, <1>4, <1>9 DEF Succeed
  <1>10. ASSUME Go(r) PROVE Counted(r)'
    BY <1>2, <1>4, <1>10 DEF Go
  <1>11. ASSUME Fail(r) PROVE Counted(r)'
    <2> DEFINE bad == ~(ToSet(TheStep(r).drop) \subseteq open[r] /\ IsInjective(TheStep(r).drop))
               e == ThePart(r).on_error
    <2>1. IF bad THEN Ends(r, "bad close")
          ELSE CASE e = "leave" -> Ends(r, "left")
                 [] e = "abort" -> Ends(r, "aborted")
                 [] e = "next" -> NextPart(r)
      BY <1>11, Zenon DEF Fail
    <2>2. e = IF i = 1 THEN "leave" ELSE IF i = 2 THEN "next" ELSE "abort"
      BY AuthPlace
    <2>3. i \in {1, 2, 3} /\ Len(Code[prog][r]) = 3
      BY AuthPlace
    <2> HIDE DEF bad, e, i
    <2>4. \/ Ends(r, "bad close") \/ Ends(r, "left") \/ Ends(r, "aborted")
          \/ (i = 2 /\ NextPart(r))
      BY <2>1, <2>2, <2>3, Zenon
    <2>5. CASE i = 2 /\ NextPart(r)
      <3>1. at'[r] = <<3, 1>> /\ status'[r] = "run"
        BY <1>1, <2>3, <2>5, NextPartFacts DEF i
      <3>2. at'[r][1] = 3 /\ at'[r][2] = 1
        BY <3>1
      <3> QED
        BY <1>2, <1>4, <2>5, <3>1, <3>2
    <2> QED
      BY <1>6, <1>7, <2>4, <2>5, Zenon
  <1>12. Counted(r)'
    BY <1>8, <1>9, <1>10, <1>11
  <1> QED
    BY <1>1, <1>2, <1>3, <1>12

(* a collective that is entered counts,                                    *)
LEMMA EnteredCounted ==
  ASSUME Typed, Auth, NEW r \in Ranks, Counted(r), Enter(r)
  PROVE  /\ Counted(r)' /\ Alone(r)
         /\ in[r] = FALSE /\ in'[r] = TRUE /\ calls'[r] = calls[r] + 1
  <1> DEFINE i == at[r][1]
             k == at[r][2]
             c == calls[r]
             l == Len(sent[r])
  <1>1. /\ status[r] = "run" /\ TheStep(r).kind \in {"barrier", "gather"} /\ in[r] = FALSE
        /\ in' = [in EXCEPT ![r] = TRUE] /\ calls' = [calls EXCEPT ![r] = calls[r] + 1]
        /\ at' = at /\ status' = status
    BY AuthPlace DEF Enter, Kind
  <1>2. sent' = IF TheStep(r).kind = "gather" THEN [sent EXCEPT ![r] = Append(sent[r], Label(r))] ELSE sent
    BY <1>1 DEF Enter, Kind
  <1>3. /\ in \in [Ranks -> BOOLEAN] /\ calls \in [Ranks -> Nat] /\ sent \in [Ranks -> Seq(Labels)]
    BY DEF Typed
  <1>4. Label(r) \in Labels
    <2>1. TheStep(r).name \in Names
      BY PlaceFacts, StepsItself, Zenon
    <2> QED
      BY <2>1 DEF Label, Labels
  <1>5. /\ i \in {1, 2, 3} /\ k \in 1 .. StepsIn(r, i) /\ c \in Nat /\ l \in Nat
        /\ TheStep(r).kind = StepKind(r, i, k)
    BY AuthPlace
  <1>6. CountedAt(r, i, k, "run", FALSE, c, l)
    BY <1>1, Zenon DEF Counted
  <1>7. in'[r] = TRUE /\ calls'[r] = c + 1 /\ \A q \in Ranks \ {r} : in'[q] = in[q] /\ calls'[q] = calls[q]
    BY <1>1, <1>3
  <1>8. /\ TheStep(r).kind = "gather" => Len(sent'[r]) = l + 1
        /\ TheStep(r).kind # "gather" => Len(sent'[r]) = l
        /\ \A q \in Ranks \ {r} : sent'[q] = sent[q]
    <2>1. CASE TheStep(r).kind = "gather"
      <3>1. sent' = [sent EXCEPT ![r] = Append(sent[r], Label(r))]
        BY <1>2, <2>1
      <3>2. sent'[r] = Append(sent[r], Label(r)) /\ \A q \in Ranks \ {r} : sent'[q] = sent[q]
        BY <1>3, <3>1
      <3>3. Len(sent'[r]) = l + 1
        BY <1>3, <1>4, <3>2
      <3> QED
        BY <2>1, <3>2, <3>3
    <2>2. CASE TheStep(r).kind # "gather"
      BY <1>2, <2>2
    <2> QED
      BY <2>1, <2>2
  <1> HIDE DEF i, k, c, l
  <1>9. CountedAt(r, i, k, "run", TRUE, calls'[r], Len(sent'[r]))
    <2>1. /\ StepKind(r, i, k) = "barrier" => CountedAt(r, i, k, "run", TRUE, c + 1, l)
          /\ StepKind(r, i, k) = "gather" => CountedAt(r, i, k, "run", TRUE, c + 1, l + 1)
      BY <1>5, <1>6, EnterCounted, Zenon
    <2> QED
      BY <1>1, <1>5, <1>7, <1>8, <2>1, Zenon
  <1>10. Counted(r)'
    BY <1>1, <1>7, <1>9, Zenon DEF Counted, i, k
  <1>11. Alone(r)
    BY <1>7, <1>8 DEF Alone
  <1> QED
    BY <1>1, <1>7, <1>10, <1>11 DEF c

(* and one that is left has counted.                                       *)
LEMMA LeftCounted ==
  ASSUME Typed, Auth, NEW r \in Ranks, Counted(r), LeaveBarrier(r) \/ LeaveGather(r)
  PROVE  Counted(r)' /\ Alone(r)
  <1> DEFINE i == at[r][1]
             k == at[r][2]
             c == calls[r]
             l == Len(sent[r])
  <1>1. /\ status[r] = "run" /\ in[r] = TRUE
        /\ in' = [in EXCEPT ![r] = FALSE] /\ calls' = calls /\ sent' = sent /\ prog' = prog
    BY AuthPlace DEF LeaveBarrier, LeaveGather, Kind, meetings
  <1>2. in \in [Ranks -> BOOLEAN]
    BY DEF Typed
  <1>3. in'[r] = FALSE /\ Alone(r)
    BY <1>1, <1>2 DEF Alone
  <1>4. /\ i \in {1, 2, 3} /\ k \in 1 .. StepsIn(r, i) /\ c \in Nat /\ l \in Nat
        /\ TheStep(r).kind = StepKind(r, i, k)
    BY AuthPlace
  <1>5. CountedAt(r, i, k, "run", TRUE, c, l)
    BY <1>1, Zenon DEF Counted
  <1>6. ASSUME CountedAt(r, at'[r][1], at'[r][2], status'[r], FALSE, c, l) PROVE Counted(r)'
    <2>1. CountedAt(r, at'[r][1], at'[r][2], status'[r], in'[r], calls'[r], Len(sent'[r]))
      BY <1>1, <1>3, <1>6, Zenon
    <2> QED
      BY <2>1 DEF Counted
  <1>7. ASSUME LeaveBarrier(r) PROVE Counted(r)'
    <2>1. NextStep(r) /\ StepKind(r, i, k) = "barrier"
      BY <1>4, <1>7 DEF LeaveBarrier, Kind
    <2> HIDE DEF i, k, c, l
    <2>2. /\ k # StepsIn(r, i) => CountedAt(r, i, k + 1, "run", FALSE, c, l)
          /\ k = StepsIn(r, i) => i = 3 /\ CountedAt(r, i, k, "done", FALSE, c, l)
      BY <1>4, <1>5, <2>1, LeaveBarrierCounted, Zenon
    <2>3. CountedAt(r, at'[r][1], at'[r][2], status'[r], FALSE, c, l)
      BY <1>1, <2>1, <2>2, CountedThere, Zenon DEF i, k
    <2> QED
      BY <1>6, <2>3 DEF c, l
  <1>8. ASSUME LeaveGather(r) PROVE Counted(r)'
    <2> DEFINE short == \E q \in Ranks : Len(sent[q]) < l
    <2>1. StepKind(r, i, k) = "gather"
      BY <1>4, <1>8 DEF LeaveGather, Kind
    <2>2. /\ short => Ends(r, "aborted")
          /\ ~short /\ l = 1 => at' = at /\ status' = status
          /\ ~short /\ l # 1 => NextStep(r)
      BY <1>8 DEF LeaveGather
    <2> HIDE DEF short
    <2>3. /\ CountedAt(r, i, k, "aborted", FALSE, c, l)
          /\ l = 1 => CountedAt(r, i, k, "run", FALSE, c, l)
          /\ l # 1 => k # StepsIn(r, i) /\ CountedAt(r, i, k + 1, "run", FALSE, c, l)
      <3> HIDE DEF i, k, c, l
      <3> QED
        BY <1>4, <1>5, <2>1, LeaveGatherCounted, Zenon
    <2>4. CASE short
      <3>1. at'[r] = at[r] /\ status'[r] = "aborted"
        BY <1>1, <2>2, <2>4, EndsFacts, Zenon DEF Statuses
      <3>2. at'[r][1] = i /\ at'[r][2] = k
        BY <3>1
      <3> QED
        BY <1>6, <2>3, <3>1, <3>2
    <2>5. CASE ~short /\ l = 1
      <3>1. at'[r][1] = i /\ at'[r][2] = k /\ status'[r] = "run"
        BY <1>1, <2>2, <2>5
      <3> QED
        BY <1>6, <2>3, <2>5, <3>1
    <2>6. CASE ~short /\ l # 1
      <3>1. NextStep(r)
        BY <2>2, <2>6
      <3>2. CountedAt(r, at'[r][1], at'[r][2], status'[r], FALSE, c, l)
        <4> HIDE DEF c, l
        <4> QED
          BY <1>1, <2>3, <2>6, <3>1, CountedThere, Zenon
      <3> QED
        BY <1>6, <3>2
    <2> QED
      BY <2>4, <2>5, <2>6
  <1> QED
    BY <1>3, <1>7, <1>8

(* A step of one rank keeps the counts of all.                             *)
LEMMA RankStepCounted ==
  ASSUME Typed, Auth, NEW r \in Ranks, \A q \in Ranks : Counted(q), RankStep(r), Others(r)
  PROVE  \A q \in Ranks : Counted(q)'
  <1>1. Counted(r)' /\ Alone(r)
    BY CallCounted, EnteredCounted, LeftCounted, Zenon DEF RankStep
  <1>2. ASSUME NEW q \in Ranks \ {r} PROVE Counted(q)'
    <2>1. at'[q] = at[q] /\ status'[q] = status[q] /\ in'[q] = in[q] /\ calls'[q] = calls[q] /\ sent'[q] = sent[q]
      BY <1>1 DEF Alone, Others, Elsewhere
    <2> QED
      BY <2>1 DEF Counted
  <1> QED
    BY <1>1, <1>2

(* What a rank of auth_key_test has to do with the credential              *)
LEMMA AuthStep ==
  ASSUME Typed, Auth, NEW r \in Ranks
  PROVE  LET i == at[r][1]
             k == at[r][2]
             x == TheStep(r)
         IN  /\ i = 1 => /\ x.make = {}
                         /\ x.name = IF k = StepsIn(r, 1) THEN "drc_access"
                                     ELSE IF k = AsHead(r) THEN "drc_acquire" ELSE "ctpm_Barrier"
             /\ i = 2 => auth_mr \notin x.make /\ x.name \notin {"drc_acquire", "drc_access", "drc_release"}
             /\ i = 3 => /\ auth_mr \in x.make => k = 7
                         /\ k = 17 => auth_mr \in ToSet(x.drop)
                         /\ x.name # "drc_acquire" /\ x.name # "drc_access"
                         /\ x.name = "drc_release" => r = 0 /\ k >= 20 /\ k # StepsIn(r, 3)
  <1> DEFINE i == at[r][1]
             k == at[r][2]
             P == Code[prog][r]
  <1>1. i \in {1, 2, 3} /\ k \in 1 .. StepsIn(r, i) /\ StepsIn(r, i) = Len(P[i].steps)
    BY AuthPlace
  <1>2. TheStep(r) = P[i].steps[k]
    BY PlaceFacts
  <1>3. P[1].steps = CredentialSteps(r) /\ P[2].steps = InitProv.steps /\ P[3].steps = AuthSteps(r)
    BY AuthCode DEF Auth
  <1> HIDE DEF P, i, k
  <1>4. ASSUME i = 1
        PROVE  /\ TheStep(r).make = {}
               /\ TheStep(r).name = IF k = StepsIn(r, 1) THEN "drc_access"
                                    ELSE IF k = AsHead(r) THEN "drc_acquire" ELSE "ctpm_Barrier"
    <2> DEFINE s == CredentialSteps(r)
               b == AsHead(r)
    <2>1. /\ Len(s) = 3 + b
          /\ \A j \in 1 .. Len(s) : s[j].name =
               IF j = 3 + b THEN "drc_access" ELSE IF j = b THEN "drc_acquire" ELSE "ctpm_Barrier"
          /\ \A j \in 1 .. Len(s) : s[j].make = {}
      BY CredentialFacts
    <2>2. TheStep(r) = s[k] /\ k \in 1 .. Len(s) /\ StepsIn(r, 1) = Len(s)
      BY <1>1, <1>2, <1>3, <1>4
    <2> HIDE DEF s, b
    <2> QED
      BY <2>1, <2>2 DEF b
  <1>5. ASSUME i = 2
        PROVE  auth_mr \notin TheStep(r).make /\ TheStep(r).name \notin {"drc_acquire", "drc_access", "drc_release"}
    <2> DEFINE s == InitProv.steps
    <2>1. Local(s) /\ \A h : h \in Makes(s) <=> h \in {fab, dom, av, addrs} \cup PeerHandles
      BY InitProvFacts
    <2>2. TheStep(r) = s[k] /\ k \in 1 .. Len(s)
      BY <1>1, <1>2, <1>3, <1>5
    <2>3. auth_mr \notin {fab, dom, av, addrs} \cup PeerHandles
      BY DEF auth_mr, fab, dom, av, addrs, PeerHandles, ep, scq, rcq
    <2> HIDE DEF s
    <2>4. auth_mr \notin Makes(s)
      BY <2>1, <2>3
    <2>5. auth_mr \notin s[k].make
      BY <2>2, <2>4 DEF Makes
    <2> QED
      BY <2>1, <2>2, <2>5 DEF Local
  <1>6. ASSUME i = 3
        PROVE  /\ auth_mr \in TheStep(r).make => k = 7
               /\ k = 17 => auth_mr \in ToSet(TheStep(r).drop)
               /\ TheStep(r).name # "drc_acquire" /\ TheStep(r).name # "drc_access"
               /\ TheStep(r).name = "drc_release" => r = 0 /\ k >= 20 /\ k # StepsIn(r, 3)
    <2> DEFINE s == AuthSteps(r)
    <2>1. /\ \A j \in 1 .. Len(s) : auth_mr \in s[j].make => j = 7
          /\ auth_mr \in ToSet(s[17].drop)
          /\ \A j \in 1 .. Len(s) : s[j].name # "drc_acquire" /\ s[j].name # "drc_access"
          /\ \A j \in 1 .. Len(s) : s[j].name = "drc_release" => r = 0 /\ j >= 20 /\ j # Len(s)
      BY AuthPositions, Zenon
    <2>2. TheStep(r) = s[k] /\ k \in 1 .. Len(s) /\ StepsIn(r, 3) = Len(s)
      BY <1>1, <1>2, <1>3, <1>6
    <2> HIDE DEF s
    <2> QED
      BY <2>1, <2>2
  <1> QED
    BY <1>1, <1>4, <1>5, <1>6 DEF i, k

(* The three ways on: to stay, to go to the next step, or after a failure  *)
(* in the second part to the third; and what becomes of auth_mr.           *)
Keeps(r) == auth_mr \in open'[r] => auth_mr \in open[r]
Stays(r) == at'[r] = at[r] /\ Keeps(r)
Passes(r) ==
  /\ NextStep(r)
  /\ auth_mr \in open'[r] => auth_mr \in TheStep(r).make
                               \/ (auth_mr \in open[r] /\ ~(TheStep(r).kind = "step" /\ auth_mr \in ToSet(TheStep(r).drop)))
  /\ TheStep(r).kind = "barrier" => Keeps(r)
  /\ TheStep(r).name = "drc_access" /\ TheStep(r).kind = "call" => cred = "held"
Skips(r) == at[r][1] = 2 /\ at'[r] = <<3, 1>> /\ Keeps(r)

(* Every step of a rank is of one of the three.                            *)
LEMMA AuthMove ==
  ASSUME Typed, Auth, NEW r \in Ranks, RankStep(r)
  PROVE  status[r] = "run" /\ (Stays(r) \/ Passes(r) \/ Skips(r))
  <1>1. status[r] = "run" /\ prog' = prog
    BY Zenon DEF RankStep, Misuse, Succeed, Fail, Go, Enter, LeaveBarrier, LeaveGather, Kind
  <1>2. open \in [Ranks -> SUBSET Handles]
    BY DEF Typed
  <1>3. \A how \in Statuses : Ends(r, how) => at'[r] = at[r]
    BY <1>1, EndsFacts
  <1>4. {"misuse", "bad close", "left", "aborted"} \subseteq Statuses
    BY DEF Statuses
  <1>5. auth_mr \notin Kept
    BY DEF auth_mr, Kept, NeverClosed
  <1>6. CASE Misuse(r)
    <2>1. open' = open /\ Ends(r, "misuse")
      BY <1>6 DEF Misuse
    <2> QED
      BY <1>1, <1>3, <1>4, <2>1, Zenon DEF Stays, Keeps
  <1>7. CASE Succeed(r)
    <2>1. /\ open' = [open EXCEPT ![r] = open[r] \cup TheStep(r).make] /\ NextStep(r)
          /\ TheStep(r).kind = "call" /\ (TheStep(r).name = "drc_access" => cred = "held")
      BY <1>7 DEF Succeed, Kind, Accessible
    <2>2. open'[r] = open[r] \cup TheStep(r).make
      BY <1>2, <2>1
    <2> QED
      BY <1>1, <2>1, <2>2 DEF Passes
  <1>8. CASE Go(r)
    <2>1. /\ open' = [open EXCEPT ![r] = (open[r] \cup TheStep(r).make) \ ToSet(TheStep(r).drop)] /\ NextStep(r)
          /\ TheStep(r).kind = "step"
      BY <1>8 DEF Go, Kind
    <2>2. open'[r] = (open[r] \cup TheStep(r).make) \ ToSet(TheStep(r).drop)
      BY <1>2, <2>1
    <2> QED
      BY <1>1, <2>1, <2>2 DEF Passes
  <1>9. CASE Enter(r)
    BY <1>1, <1>9 DEF Enter, Stays, Keeps
  <1>10. CASE LeaveBarrier(r)
    <2>1. open' = open /\ NextStep(r) /\ TheStep(r).kind = "barrier"
      BY <1>10 DEF LeaveBarrier, Kind
    <2> QED
      BY <1>1, <2>1 DEF Passes, Keeps
  <1>11. CASE LeaveGather(r)
    <2> DEFINE l == Len(sent[r])
               short == \E q \in Ranks : Len(sent[q]) < l
    <2>1. /\ TheStep(r).kind = "gather"
          /\ short => Ends(r, "aborted") /\ open' = open
          /\ ~short => open' = [open EXCEPT ![r] = open[r] \cup TheStep(r).make]
          /\ ~short /\ l = 1 => at' = at /\ status' = status
          /\ ~short /\ l # 1 => NextStep(r)
      BY <1>11 DEF LeaveGather, Kind
    <2> HIDE DEF short, l
    <2>2. TheStep(r).make \subseteq Kept
      BY <2>1, PlaceFacts, StepsItself
    <2>3. Keeps(r)
      <3>1. CASE short
        BY <2>1, <3>1 DEF Keeps
      <3>2. CASE ~short
        <4>1. open'[r] = open[r] \cup TheStep(r).make
          BY <1>2, <2>1, <3>2
        <4> QED
          BY <1>5, <2>2, <4>1 DEF Keeps
      <3> QED
        BY <3>1, <3>2
    <2>4. CASE short \/ (~short /\ l = 1)
      <3>1. at'[r] = at[r]
        BY <1>3, <1>4, <2>1, <2>4, Zenon
      <3> QED
        BY <1>1, <2>3, <3>1 DEF Stays
    <2>5. CASE ~short /\ l # 1
      BY <1>1, <2>1, <2>3, <2>5 DEF Passes, Keeps
    <2> QED
      BY <2>4, <2>5
  <1>12. CASE Fail(r)
    <2> DEFINE bad == ~(ToSet(TheStep(r).drop) \subseteq open[r] /\ IsInjective(TheStep(r).drop))
               e == ThePart(r).on_error
               i == at[r][1]
    <2>1. IF bad THEN Ends(r, "bad close")
          ELSE CASE e = "leave" -> Ends(r, "left")
                 [] e = "abort" -> Ends(r, "aborted")
                 [] e = "next" -> NextPart(r)
      BY <1>12, Zenon DEF Fail
    <2>2. e = IF i = 1 THEN "leave" ELSE IF i = 2 THEN "next" ELSE "abort"
      BY AuthPlace
    <2>3. i \in {1, 2, 3} /\ Len(Code[prog][r]) = 3
      BY AuthPlace
    <2>4. open' = [open EXCEPT ![r] = open[r] \ ToSet(TheStep(r).drop)]
      BY <1>12, Zenon DEF Fail
    <2>5. Keeps(r)
      BY <1>2, <2>4 DEF Keeps
    <2> HIDE DEF bad, e, i
    <2>6. \/ Ends(r, "bad close") \/ Ends(r, "left") \/ Ends(r, "aborted")
          \/ (i = 2 /\ NextPart(r))
      BY <2>1, <2>2, <2>3, Zenon
    <2>7. CASE i = 2 /\ NextPart(r)
      <3>1. at'[r] = <<3, 1>>
        BY <1>1, <2>3, <2>7, NextPartFacts DEF i
      <3> QED
        BY <1>1, <2>5, <2>7, <3>1 DEF Skips, i
    <2>8. CASE Ends(r, "bad close") \/ Ends(r, "left") \/ Ends(r, "aborted")
      <3>1. at'[r] = at[r]
        BY <1>3, <1>4, <2>8, Zenon
      <3> QED
        BY <1>1, <2>5, <3>1 DEF Stays
    <2> QED
      BY <2>6, <2>7, <2>8, Zenon
  <1> QED
    BY <1>6, <1>7, <1>8, <1>9, <1>10, <1>11, <1>12 DEF RankStep

(* What a step does to the credential                                      *)
LEMMA CredMove ==
  ASSUME Typed, Auth, NEW r \in Ranks, RankStep(r)
  PROVE  \/ cred' = cred
         \/ r = 0 /\ at[0] = <<1, 1>> /\ at'[0] = <<1, 2>> /\ cred' = "held"
         \/ r = 0 /\ cred' = "released" /\ Released'
  <1> DEFINE i == at[r][1]
             k == at[r][2]
             x == TheStep(r)
             n == StepsIn(r, i)
  <1>1. /\ i \in {1, 2, 3} /\ k \in 1 .. n /\ at[r] = <<i, k>> /\ k \in Nat
        /\ Len(Code[prog][r]) = 3 /\ n = Len(Code[prog][r][i].steps)
        /\ ThePart(r).on_error = IF i = 1 THEN "leave" ELSE IF i = 2 THEN "next" ELSE "abort"
    BY AuthPlace
  <1>2. /\ i = 1 => x.name = IF k = n THEN "drc_access" ELSE IF k = AsHead(r) THEN "drc_acquire" ELSE "ctpm_Barrier"
        /\ i = 2 => x.name \notin {"drc_acquire", "drc_access", "drc_release"}
        /\ i = 3 => /\ x.name # "drc_acquire" /\ x.name # "drc_access"
                    /\ x.name = "drc_release" => r = 0 /\ k >= 20 /\ k # n
    BY AuthStep
  <1>3. i = 1 => n = 3 + AsHead(r)
    BY AuthKinds
  <1>4. status[r] = "run" /\ prog' = prog
    BY Zenon DEF RankStep, Misuse, Succeed, Fail, Go, Enter, LeaveBarrier, LeaveGather, Kind
  <1>5. NextStep(r) /\ k # n => at'[r] = <<i, k + 1>>
    BY <1>1, <1>4, NextStepFacts, Zenon
  <1>6. \A how \in Statuses : Ends(r, how) => at'[r] = at[r] /\ status'[r] = how
    BY <1>4, EndsFacts
  <1>7. AsHead(r) = IF r = 0 THEN 1 ELSE 0
    BY DEF AsHead
  <1>8. CASE Succeed(r) /\ x.name = "drc_acquire"
    <2>1. NextStep(r) /\ cred' = "held"
      BY <1>8 DEF Succeed
    <2> HIDE DEF i, k, x, n
    <2>2. i = 1 /\ k # n /\ k = AsHead(r)
      BY <1>1, <1>2, <1>8
    <2>3. r = 0 /\ k = 1
      BY <1>1, <1>7, <2>2
    <2>4. at[0] = <<1, 1>> /\ at'[0] = <<1, 2>>
      BY <1>1, <1>5, <2>1, <2>2, <2>3
    <2> QED
      BY <2>1, <2>3, <2>4
  <1>9. CASE Go(r) /\ x.name = "drc_release"
    <2>1. NextStep(r) /\ cred' = "released"
      BY <1>9 DEF Go
    <2> HIDE DEF i, k, x, n
    <2>2. i = 3 /\ r = 0 /\ k >= 20 /\ k # n
      BY <1>1, <1>2, <1>9
    <2>3. at'[0] = <<3, k + 1>>
      BY <1>5, <2>1, <2>2
    <2>4. at'[0][1] = 3 /\ at'[0][2] > 20
      BY <1>1, <2>2, <2>3
    <2> QED
      BY <2>1, <2>2, <2>4 DEF Released
  <1>10. CASE Fail(r) /\ x.name = "drc_access" /\ r = 0
    <2> DEFINE bad == ~(ToSet(TheStep(r).drop) \subseteq open[r] /\ IsInjective(TheStep(r).drop))
               e == ThePart(r).on_error
    <2>1. IF bad THEN Ends(r, "bad close")
          ELSE CASE e = "leave" -> Ends(r, "left")
                 [] e = "abort" -> Ends(r, "aborted")
                 [] e = "next" -> NextPart(r)
      BY <1>10, Zenon DEF Fail
    <2>2. cred' = "released"
      BY <1>10, Zenon DEF Fail, Auth
    <2>3. e = IF i = 1 THEN "leave" ELSE IF i = 2 THEN "next" ELSE "abort"
      BY <1>1
    <2> HIDE DEF bad, e, i, k, x, n
    <2>4. i = 1 /\ k = n
      <3>1. i = 1
        BY <1>1, <1>2, <1>10
      <3> QED
        BY <1>2, <1>10, <3>1
    <2>5. n = 4
      BY <1>3, <1>7, <1>10, <2>4
    <2>6. Ends(r, "bad close") \/ Ends(r, "left")
      BY <2>1, <2>3, <2>4, Zenon
    <2>7. at'[r] = at[r] /\ status'[r] # "run"
      BY <1>6, <2>6, Zenon DEF Statuses
    <2>8. at'[0] = <<1, 4>> /\ status'[0] # "run"
      BY <1>1, <1>10, <2>4, <2>5, <2>7
    <2> QED
      BY <1>10, <2>2, <2>8 DEF Released
  <1>11. CASE ~(Succeed(r) /\ x.name = "drc_acquire") /\ ~(Go(r) /\ x.name = "drc_release")
              /\ ~(Fail(r) /\ x.name = "drc_access" /\ r = 0)
    <2>1. Misuse(r) \/ Enter(r) \/ LeaveBarrier(r) \/ LeaveGather(r) => cred' = cred
      BY DEF Misuse, Enter, LeaveBarrier, LeaveGather
    <2>2. Succeed(r) => cred' = cred
      BY <1>11 DEF Succeed
    <2>3. Go(r) => cred' = cred
      BY <1>11 DEF Go
    <2>4. Fail(r) => cred' = cred
      BY <1>11, Zenon DEF Fail
    <2> QED
      BY <2>1, <2>2, <2>3, <2>4 DEF RankStep
  <1> QED
    BY <1>8, <1>9, <1>10, <1>11

(* Where a rank is after a step                                            *)
LEMMA AuthPositionAfter ==
  ASSUME Typed, Auth, NEW r \in Ranks, RankStep(r)
  PROVE  LET i == at[r][1]
             k == at[r][2]
             n == StepsIn(r, i)
         IN  /\ Passes(r) => /\ k # n => at'[r][1] = i /\ at'[r][2] = k + 1
                             /\ k = n /\ i # 3 => at'[r][1] = i + 1 /\ at'[r][2] = 1
                             /\ k = n /\ i = 3 => at'[r][1] = i /\ at'[r][2] = k
             /\ Stays(r) => at'[r][1] = i /\ at'[r][2] = k
             /\ Skips(r) => at'[r][1] = 3 /\ at'[r][2] = 1
  <1> DEFINE i == at[r][1]
             k == at[r][2]
             n == StepsIn(r, i)
  <1>1. i \in {1, 2, 3} /\ k \in Nat /\ Len(Code[prog][r]) = 3 /\ n = Len(Code[prog][r][i].steps)
    BY AuthPlace
  <1>2. status[r] = "run" /\ prog' = prog
    BY Zenon DEF RankStep, Misuse, Succeed, Fail, Go, Enter, LeaveBarrier, LeaveGather, Kind
  <1>3. ASSUME Passes(r)
        PROVE  /\ k # n => at'[r][1] = i /\ at'[r][2] = k + 1
               /\ k = n /\ i # 3 => at'[r][1] = i + 1 /\ at'[r][2] = 1
               /\ k = n /\ i = 3 => at'[r][1] = i /\ at'[r][2] = k
    <2>1. /\ k # n => at'[r] = <<i, k + 1>>
          /\ k = n /\ i # 3 => at'[r] = <<i + 1, 1>>
          /\ k = n /\ i = 3 => at'[r] = at[r]
      BY <1>1, <1>2, <1>3, NextStepFacts, Zenon DEF Passes
    <2> QED
      BY <2>1
  <1>4. Stays(r) => at'[r][1] = i /\ at'[r][2] = k
    BY DEF Stays
  <1>5. Skips(r) => at'[r][1] = 3 /\ at'[r][2] = 1
    BY DEF Skips
  <1> QED
    BY <1>3, <1>4, <1>5

(* Each step keeps who has the memory registered, and where the head is    *)
(* when the credential is released.                                        *)
LEMMA RankStepCred ==
  ASSUME Typed, Auth, NEW r \in Ranks, \A q \in Ranks : CredAt(q), cred = "released" => Released,
         cred # "none" => at[0] # <<1, 1>>, RankStep(r), Others(r)
  PROVE  /\ \A q \in Ranks : CredAt(q)'
         /\ cred' = "released" => Released'
         /\ cred' # "none" => at'[0] # <<1, 1>>
  <1> DEFINE i == at[r][1]
             k == at[r][2]
             n == StepsIn(r, i)
             i2 == at'[r][1]
             k2 == at'[r][2]
             kind == TheStep(r).kind
  <1>1. /\ i \in {1, 2, 3} /\ k \in 1 .. n /\ k \in Nat /\ at[r] = <<i, k>> /\ n \in Nat
        /\ kind = StepKind(r, i, k)
    <2>1. \A m : k \in 1 .. m => TRUE
      OBVIOUS
    <2>2. StepsIn(r, 1) \in Nat /\ StepsIn(r, 2) \in Nat /\ StepsIn(r, 3) \in Nat
      BY AuthKinds
    <2> QED
      BY <2>2, AuthPlace
  <1>2. status[r] = "run" /\ (Stays(r) \/ Passes(r) \/ Skips(r))
    BY AuthMove
  <1>3. /\ Passes(r) => /\ k # n => i2 = i /\ k2 = k + 1
                        /\ k = n /\ i # 3 => i2 = i + 1 /\ k2 = 1
                        /\ k = n /\ i = 3 => i2 = i /\ k2 = k
        /\ Stays(r) => i2 = i /\ k2 = k
        /\ Skips(r) => i2 = 3 /\ k2 = 1
    BY AuthPositionAfter
  <1>4. \/ cred' = cred
        \/ r = 0 /\ at[0] = <<1, 1>> /\ at'[0] = <<1, 2>> /\ cred' = "held"
        \/ r = 0 /\ cred' = "released" /\ Released'
    BY CredMove
  <1>5. i = 1 => n = 3 + AsHead(r) /\ (k = n => kind = "call" /\ TheStep(r).name = "drc_access")
    BY <1>1, AuthKinds, AuthStep
  <1>6. i = 3 => n >= 20 /\ \A j \in 1 .. 19 : j = k => kind = AuthKind(j)
    BY <1>1, AuthKinds
  <1>7. /\ i = 1 => TheStep(r).make = {}
        /\ i = 2 => auth_mr \notin TheStep(r).make
        /\ i = 3 => /\ auth_mr \in TheStep(r).make => k = 7
                    /\ k = 17 => auth_mr \in ToSet(TheStep(r).drop)
    BY AuthStep
  <1>8. Skips(r) => i = 2
    BY DEF Skips
  <1>9. Passes(r) /\ i = 1 /\ k = n => cred = "held"
    BY <1>5 DEF Passes
  <1>10. /\ i > 1 => cred # "none"
         /\ auth_mr \in open[r] => i = 3 /\ k \in 8 .. 17
    BY DEF CredAt
  <1>11. AuthKind(17) = "step"
    BY DEF AuthKind
  <1>12. /\ Stays(r) \/ Skips(r) => Keeps(r)
         /\ Passes(r) /\ auth_mr \in open'[r] =>
              auth_mr \in TheStep(r).make \/ (auth_mr \in open[r] /\ ~(kind = "step" /\ auth_mr \in ToSet(TheStep(r).drop)))
    BY DEF Stays, Skips, Passes
  <1>13. cred # "none" => cred' # "none"
    BY <1>4
  <1> HIDE DEF i, k, n, i2, k2, kind
  <1>14. i2 > 1 => cred' # "none"
    <2>1. CASE i > 1
      BY <1>10, <1>13, <2>1
    <2>2. CASE i = 1
      <3>1. CASE Passes(r) /\ k = n
        <4>1. cred = "held"
          BY <1>9, <2>2, <3>1
        <4> QED
          BY <1>13, <4>1
      <3>2. CASE Passes(r) /\ k # n
        BY <1>3, <2>2, <3>2
      <3>3. CASE ~Passes(r)
        BY <1>2, <1>3, <1>8, <2>2, <3>3
      <3> QED
        BY <3>1, <3>2, <3>3
    <2> QED
      BY <1>1, <2>1, <2>2
  <1>15. ASSUME auth_mr \in open'[r] PROVE i2 = 3 /\ k2 \in 8 .. 17
    <2>1. CASE Stays(r)
      BY <1>3, <1>10, <1>12, <1>15, <2>1 DEF Keeps
    <2>2. CASE Skips(r)
      <3>1. auth_mr \in open[r] /\ i = 2
        BY <1>8, <1>12, <1>15, <2>2 DEF Keeps
      <3> QED
        BY <1>10, <3>1
    <2>3. CASE Passes(r) /\ auth_mr \in TheStep(r).make
      <3>1. i = 3 /\ k = 7
        BY <1>1, <1>7, <2>3
      <3> QED
        BY <1>3, <1>6, <2>3, <3>1
    <2>4. CASE Passes(r) /\ auth_mr \notin TheStep(r).make
      <3>1. auth_mr \in open[r] /\ ~(kind = "step" /\ auth_mr \in ToSet(TheStep(r).drop))
        BY <1>12, <1>15, <2>4
      <3>2. i = 3 /\ k \in 8 .. 17 /\ n >= 20
        BY <1>6, <1>10, <3>1
      <3>3. k # 17
        <4>1. ASSUME k = 17 PROVE FALSE
          <5>1. kind = AuthKind(17)
            BY <1>6, <3>2, <4>1
          <5> QED
            BY <1>7, <1>11, <3>1, <3>2, <4>1, <5>1
        <4> QED
          BY <4>1
      <3>4. k # n /\ k + 1 \in 8 .. 17
        BY <1>1, <3>2, <3>3
      <3> QED
        BY <1>3, <2>4, <3>2, <3>4
    <2> QED
      BY <1>2, <2>1, <2>2, <2>3, <2>4
  <1>16. CredAt(r)'
    BY <1>14, <1>15 DEF CredAt, i2, k2
  <1>17. ASSUME NEW q \in Ranks \ {r} PROVE CredAt(q)'
    <2>1. at'[q] = at[q] /\ open'[q] = open[q]
      BY DEF Others, Elsewhere
    <2> QED
      BY <1>13, <2>1 DEF CredAt
  <1>18. \A q \in Ranks : CredAt(q)'
    BY <1>16, <1>17
  <1>19. 0 \in Ranks
    BY RankFacts
  <1>20. ASSUME Released PROVE Released'
    <2>1. CASE r # 0
      <3>1. at'[0] = at[0] /\ status'[0] = status[0]
        BY <1>19, <2>1 DEF Others, Elsewhere
      <3> QED
        BY <1>20, <3>1 DEF Released
    <2>2. CASE r = 0
      <3>1. i = 3 /\ k > 20
        BY <1>2, <1>20, <2>2 DEF Released, i, k
      <3>2. i2 = 3 /\ k2 > 20
        BY <1>1, <1>2, <1>3, <1>8, <3>1
      <3> QED
        BY <2>2, <3>2 DEF Released, i2, k2
    <2> QED
      BY <2>1, <2>2
  <1>21. cred' = "released" => Released'
    BY <1>4, <1>20
  <1>22. ASSUME at[0] # <<1, 1>> PROVE at'[0] # <<1, 1>>
    <2>1. CASE r # 0
      BY <1>19, <1>22, <2>1 DEF Others, Elsewhere
    <2>2. CASE r = 0
      <3>1. ~(i = 1 /\ k = 1)
        BY <1>1, <1>22, <2>2
      <3>2. ~(i2 = 1 /\ k2 = 1)
        BY <1>1, <1>2, <1>3, <3>1
      <3> QED
        BY <2>2, <3>2 DEF i2, k2
    <2> QED
      BY <2>1, <2>2
  <1>23. cred' # "none" => at'[0] # <<1, 1>>
    <2>1. CASE at'[0] = <<1, 2>>
      <3>1. <<1, 2>> # <<1, 1>>
        OBVIOUS
      <3> QED
        BY <2>1, <3>1
    <2>2. CASE cred' = cred
      BY <1>22, <2>2
    <2>3. CASE Released'
      <3>1. at'[0] = <<1, 4>> \/ at'[0][1] = 3
        BY <2>3 DEF Released
      <3>2. <<1, 4>>[2] = 4 /\ <<1, 1>>[2] = 1 /\ <<1, 1>>[1] = 1
        OBVIOUS
      <3> QED
        BY <3>1, <3>2
    <2> QED
      BY <1>4, <2>1, <2>2, <2>3
  <1> QED
    BY <1>18, <1>21, <1>23

(* Barriers keep the ranks abreast: one that is not inside has entered no  *)
(* more of them than any other.                                            *)
LEMMA RankStepAbreast ==
  ASSUME Typed, NEW r \in Ranks, Abreast, RankStep(r)
  PROVE  Abreast'
  <1>1. in \in [Ranks -> BOOLEAN] /\ calls \in [Ranks -> Nat]
    BY DEF Typed
  <1>2. \A q, p \in Ranks : calls[q] <= calls[p] + Flag(in[q])
    BY DEF Abreast
  <1>3. CASE Misuse(r) \/ Succeed(r) \/ Fail(r) \/ Go(r)
    <2>1. in' = in /\ calls' = calls
      BY <1>3, Zenon DEF Misuse, Succeed, Fail, Go, meetings
    <2> QED
      BY <1>2, <2>1 DEF Abreast
  <1>4. CASE Enter(r)
    <2>1. /\ in[r] = FALSE /\ in' = [in EXCEPT ![r] = TRUE]
          /\ calls' = [calls EXCEPT ![r] = calls[r] + 1]
      BY <1>1, <1>4 DEF Enter
    <2>2. ASSUME NEW q \in Ranks, NEW p \in Ranks PROVE calls'[q] <= calls'[p] + Flag(in'[q])
      <3>1. calls[q] <= calls[p] + Flag(in[q]) /\ calls[q] \in Nat /\ calls[p] \in Nat
        BY <1>1, <1>2
      <3>2. Flag(TRUE) = 1 /\ Flag(FALSE) = 0 /\ Flag(in[q]) \in {0, 1}
        BY DEF Flag
      <3>3. CASE q = r
        <4>1. calls'[q] = calls[q] + 1 /\ in'[q] = TRUE /\ in[q] = FALSE
          BY <1>1, <2>1, <3>3
        <4>2. Flag(in'[q]) = 1 /\ Flag(in[q]) = 0
          BY <4>1 DEF Flag
        <4>3. calls'[p] \in {calls[p], calls[p] + 1}
          BY <1>1, <2>1
        <4> QED
          BY <3>1, <4>1, <4>2, <4>3
      <3>4. CASE q # r
        <4>1. calls'[q] = calls[q] /\ in'[q] = in[q]
          BY <1>1, <2>1, <3>4
        <4>2. calls'[p] \in {calls[p], calls[p] + 1}
          BY <1>1, <2>1
        <4> QED
          BY <3>1, <3>2, <4>1, <4>2
      <3> QED
        BY <3>3, <3>4
    <2> QED
      BY <2>2 DEF Abreast
  <1>5. CASE LeaveBarrier(r) \/ LeaveGather(r)
    <2>1. /\ \A q \in Ranks : calls[q] >= calls[r]
          /\ in' = [in EXCEPT ![r] = FALSE] /\ calls' = calls
      BY <1>5 DEF LeaveBarrier, LeaveGather, meetings
    <2>2. ASSUME NEW q \in Ranks, NEW p \in Ranks PROVE calls'[q] <= calls'[p] + Flag(in'[q])
      <3>1. CASE q = r
        <4>1. in'[q] = FALSE
          BY <1>1, <2>1, <3>1
        <4>2. Flag(in'[q]) = 0
          BY <4>1 DEF Flag
        <4>3. calls[p] >= calls[q] /\ calls[p] \in Nat /\ calls[q] \in Nat
          BY <1>1, <2>1, <3>1
        <4>4. calls'[q] = calls[q] /\ calls'[p] = calls[p]
          BY <2>1
        <4> QED
          BY <4>2, <4>3, <4>4
      <3>2. CASE q # r
        <4>1. in'[q] = in[q]
          BY <1>1, <2>1, <3>2
        <4> QED
          BY <1>2, <2>1, <4>1, Zenon
      <3> QED
        BY <3>1, <3>2
    <2> QED
      BY <2>2 DEF Abreast
  <1> QED
    BY <1>3, <1>4, <1>5 DEF RankStep

CredInv == CleanInv /\ Abreast /\ CredentialKept

(* Before anything has happened                                            *)
LEMMA InitCred ==
  ASSUME Init
  PROVE  CredInv
  <1>1. CleanInv
    BY InitClean
  <1>2. ASSUME NEW r \in Ranks
        PROVE  /\ at[r][1] = 1 /\ at[r][2] = 1 /\ status[r] = "run" /\ in[r] = FALSE /\ calls[r] = 0
               /\ Len(sent[r]) = 0 /\ open[r] = {}
    BY DEF Init
  <1>3. cred = "none"
    BY DEF Init
  <1>4. Abreast
    <2>1. \A b : Flag(b) \in {0, 1}
      BY DEF Flag
    <2>2. \A q, r \in Ranks : calls[q] = 0 /\ calls[r] = 0 /\ Flag(in[q]) \in {0, 1}
      BY <1>2, <2>1, Zenon
    <2>3. ASSUME NEW q \in Ranks, NEW r \in Ranks PROVE calls[q] <= calls[r] + Flag(in[q])
      <3>1. calls[q] = 0 /\ calls[r] = 0 /\ Flag(in[q]) \in {0, 1}
        BY <2>2
      <3> QED
        BY <3>1
    <2> QED
      BY <2>3 DEF Abreast
  <1>5. ASSUME Auth, NEW r \in Ranks PROVE Counted(r)
    <2>1. at[r][1] = 1 /\ at[r][2] = 1 /\ Len(sent[r]) = 0
      BY <1>2, <1>5, Zenon
    <2>2. AsHead(r) \in {0, 1}
      BY DEF AsHead
    <2>3. ~(1 > 1 + AsHead(r)) /\ ~(1 > 2 + AsHead(r))
      BY <2>2
    <2>4. CountedAt(r, 1, 1, "run", FALSE, 0, 0)
      BY <2>3 DEF CountedAt, Flag
    <2> QED
      BY <1>2, <1>5, <2>1, <2>4, Zenon DEF Counted
  <1>6. ASSUME NEW r \in Ranks PROVE CredAt(r)
    <2>1. at[r][1] = 1 /\ open[r] = {}
      BY <1>2, Zenon
    <2> QED
      BY <2>1 DEF CredAt
  <1>7. CredentialKept
    BY <1>3, <1>5, <1>6 DEF CredentialKept, Auth
  <1> QED
    BY <1>1, <1>4, <1>7 DEF CredInv

(* The invariant is inductive.                                             *)
LEMMA NextCred ==
  ASSUME CredInv, [Next]_vars
  PROVE  CredInv'
  <1>1. ASSUME NEW r \in Ranks, RankStep(r) PROVE CredInv'
    <2>1. CleanInv' /\ Others(r) /\ Typed
      BY <1>1, RankStepClean DEF CredInv, CleanInv
    <2>2. Abreast'
      BY <1>1, <2>1, RankStepAbreast DEF CredInv
    <2>3. prog' = prog
      BY <2>1 DEF Others
    <2>4. ASSUME Auth
          PROVE  /\ \A q \in Ranks : Counted(q)' /\ CredAt(q)'
                 /\ cred' = "released" => Released'
                 /\ cred' # "none" => at'[0] # <<1, 1>>
      <3>1. /\ \A q \in Ranks : Counted(q) /\ CredAt(q)
            /\ cred = "released" => Released
            /\ cred # "none" => at[0] # <<1, 1>>
        BY <2>4 DEF CredInv, CredentialKept, Auth
      <3>2. \A q \in Ranks : Counted(q)'
        BY <1>1, <2>1, <2>4, <3>1, RankStepCounted
      <3>3. /\ \A q \in Ranks : CredAt(q)'
            /\ cred' = "released" => Released'
            /\ cred' # "none" => at'[0] # <<1, 1>>
        BY <1>1, <2>1, <2>4, <3>1, RankStepCred
      <3> QED
        BY <3>2, <3>3
    <2>5. CredentialKept'
      BY <2>3, <2>4 DEF CredentialKept, Auth
    <2> QED
      BY <2>1, <2>2, <2>5 DEF CredInv
  <1>2. ASSUME UNCHANGED vars PROVE CredInv'
    <2>1. /\ prog' = prog /\ at' = at /\ in' = in /\ status' = status /\ open' = open /\ calls' = calls
          /\ sent' = sent /\ mixed' = mixed /\ cred' = cred /\ failed' = failed
      BY <1>2 DEF vars, progress, meetings
    <2>2. CleanInv'
      BY <1>2, StutterClean DEF CredInv
    <2>3. Abreast'
      BY <2>1 DEF CredInv, Abreast
    <2>4. CredentialKept'
      BY <2>1 DEF CredInv, CredentialKept, Counted, CredAt, Released
    <2> QED
      BY <2>2, <2>3, <2>4 DEF CredInv
  <1> QED
    BY <1>1, <1>2 DEF Next

(* Elsewhere nobody registers memory with a credential.                    *)
LEMMA NoAuthElsewhere ==
  ASSUME CleanInv, ~Auth, NEW r \in Ranks
  PROVE  auth_mr \notin open[r]
  <1> DEFINE P == Code[prog][r]
             i == at[r][1]
             k == at[r][2]
  <1>1. Sound(prog, P) /\ i \in 1 .. Len(P) /\ k \in 1 .. Len(P[i].steps) /\ k \in Nat /\ Len(P[i].steps) \in Nat
    BY PlaceFacts DEF CleanInv
  <1>2. CleanAt(prog, P, i, k, status[r], open[r], failed[r])
    BY DEF CleanInv, Clean
  <1> HIDE DEF P, i, k
  <1>3. auth_mr \notin Closes(P[Len(P)].steps)
    BY <1>1 DEF Sound, Auth
  <1>4. auth_mr \notin Kept
    BY DEF auth_mr, Kept, NeverClosed
  <1>5. ~Closing(P, i, k, auth_mr)
    <2>1. CASE i = Len(P)
      <3> SUFFICES ASSUME NEW j \in k .. Len(P[i].steps), P[i].steps[j].kind = "step",
                          auth_mr \in ToSet(P[i].steps[j].drop)
                   PROVE  FALSE
        BY <2>1 DEF Closing
      <3>1. j \in 1 .. Len(P[i].steps)
        BY <1>1
      <3>2. auth_mr \in Closes(P[i].steps)
        BY <3>1 DEF Closes
      <3> QED
        BY <1>3, <2>1, <3>2
    <2>2. CASE i # Len(P)
      BY <1>3, <2>2 DEF Closing
    <2> QED
      BY <2>1, <2>2
  <1>6. status[r] # "done" => HasNoMore(P, i, k, open[r])
    BY <1>2, Zenon DEF CleanAt
  <1>7. status[r] = "done" => open[r] \subseteq Kept
    BY <1>2 DEF CleanAt
  <1> QED
    BY <1>4, <1>5, <1>6, <1>7 DEF HasNoMore

(* While a rank has memory registered with the credential, the others have *)
(* entered barriers that the head enters only before it releases it: after *)
(* it could not access the credential it has not come as far, and when it  *)
(* is done with its test it has come further.                              *)
LEMMA AuthHeld ==
  ASSUME CredInv, Auth, NEW r \in Ranks, auth_mr \in open[r]
  PROVE  cred = "held"
  <1> DEFINE k == at[r][2]
             j == at[0][2]
             c == calls[r]
             d == calls[0]
             l == Len(sent[r])
             m == Len(sent[0])
  <1>1. Typed /\ 0 \in Ranks
    BY RankFacts DEF CredInv, CleanInv
  <1>2. /\ Counted(r) /\ Counted(0) /\ CredAt(r) /\ (cred = "released" => Released)
        /\ calls[0] <= calls[r] + Flag(in[0]) /\ calls[r] <= calls[0] + Flag(in[r])
    BY <1>1 DEF CredInv, CredentialKept, Auth, Abreast
  <1>3. at[r][1] = 3 /\ k \in 8 .. 17 /\ cred # "none"
    BY <1>2 DEF CredAt
  <1>4. /\ c \in Nat /\ d \in Nat /\ l \in Nat /\ m \in Nat /\ in[r] \in BOOLEAN /\ in[0] \in BOOLEAN
        /\ at[0][1] \in {1, 2, 3} /\ j \in 1 .. StepsIn(0, at[0][1]) /\ j \in Nat
    BY <1>1, AuthPlace
  <1>5. cred \in {"none", "held", "released"}
    BY <1>1 DEF Typed
  <1>6. /\ AsHead(0) = 1 /\ StepKind(0, 1, 4) = "call"
        /\ StepsIn(0, 3) \in Nat /\ StepsIn(0, 3) >= 20
        /\ \A n \in 20 .. StepsIn(0, 3) : StepKind(0, 3, n) # "gather"
        /\ StepKind(r, 3, k) = AuthKind(k)
    <2>1. AsHead(0) = 1
      BY DEF AsHead
    <2>2. StepKind(0, 1, 4) = "call"
      BY <1>1, <2>1, AuthKinds
    <2>3. /\ StepsIn(0, 3) \in Nat /\ StepsIn(0, 3) >= 20
          /\ \A n \in 20 .. StepsIn(0, 3) : StepKind(0, 3, n) # "gather"
      BY <1>1, AuthKinds
    <2>4. StepKind(r, 3, k) = AuthKind(k)
      <3>1. k \in 1 .. 19
        BY <1>3
      <3> QED
        BY <3>1, AuthKinds
    <2> QED
      BY <2>1, <2>2, <2>3, <2>4
  <1>7. CountedAt(r, 3, k, status[r], in[r], c, l)
    BY <1>2, <1>3 DEF Counted
  <1>8. CountedAt(0, at[0][1], j, status[0], in[0], d, m)
    BY <1>2 DEF Counted
  <1>9. \A b : Flag(b) \in {0, 1}
    BY DEF Flag
  <1> DEFINE waits == Flag(AuthKind(k) = "barrier" /\ (in[r] \/ status[r] = "done"))
             over == Flag(AuthKind(k) = "gather" /\ (in[r] \/ status[r] # "run"))
  <1>10. /\ c = 2 + Barriers(k) + l + waits
         /\ l <= 2 + Gathers(k) + over
         /\ k > 3 => l >= 1 + Gathers(k) + over
    BY <1>6, <1>7 DEF CountedAt
  <1>11. waits <= Flag(AuthKind(k) = "barrier") /\ over <= Flag(AuthKind(k) = "gather")
    BY DEF Flag
  <1>12. waits \in {0, 1} /\ over \in {0, 1} /\ Flag(AuthKind(k) = "barrier") \in {0, 1}
         /\ Flag(AuthKind(k) = "gather") \in {0, 1}
    BY <1>9
  <1>13. /\ Barriers(k) \in Nat /\ Gathers(k) \in Nat /\ Barriers(k) >= 4
         /\ Barriers(k) + Flag(AuthKind(k) = "barrier") <= 9
         /\ Gathers(k) + Flag(AuthKind(k) = "gather") <= 3
    BY <1>3, AuthTables
  <1> HIDE DEF k, c, l, waits, over
  <1>14. c >= 7 /\ c <= 16
    <2>1. k > 3
      BY <1>3
    <2>2. l >= 1 + Gathers(k) + over
      BY <1>10, <2>1
    <2>3. c >= 7
      <3>1. l \in Nat /\ l >= 1 /\ waits \in {0, 1}
        BY <1>4, <1>12, <1>13, <2>2
      <3>2. Barriers(k) \in Nat /\ Barriers(k) >= 4
        BY <1>13
      <3>3. c = 2 + Barriers(k) + l + waits
        BY <1>10
      <3> QED
        BY <3>1, <3>2, <3>3
    <2>4. c <= 16
      <3>1. Barriers(k) + waits <= 9
        BY <1>11, <1>12, <1>13
      <3>2. l <= 5
        BY <1>4, <1>10, <1>11, <1>12, <1>13
      <3>3. c = 2 + Barriers(k) + l + waits
        BY <1>10
      <3>4. Barriers(k) \in Nat /\ l \in Nat /\ waits \in {0, 1}
        BY <1>4, <1>12, <1>13
      <3> QED
        BY <3>1, <3>2, <3>3, <3>4
    <2> QED
      BY <2>3, <2>4
  <1>15. ~Released
    <2>1. ASSUME status[0] # "run", at[0] = <<1, 4>> PROVE FALSE
      <3>1. at[0][1] = 1 /\ j = 4
        BY <2>1
      <3> DEFINE w == Flag(StepKind(0, 1, 4) = "barrier" /\ (in[0] \/ status[0] = "done"))
      <3>2. d = Flag(4 > 1 + AsHead(0)) + Flag(4 > 2 + AsHead(0)) + w
        BY <1>8, <3>1 DEF CountedAt
      <3>5. Flag(4 > 1 + AsHead(0)) = 1 /\ Flag(4 > 2 + AsHead(0)) = 1 /\ w = 0
        BY <1>6 DEF Flag
      <3> HIDE DEF w, d
      <3>3. d = 2
        BY <3>2, <3>5
      <3>4. c <= d + Flag(in[r]) /\ Flag(in[r]) \in {0, 1}
        BY <1>2, <1>9 DEF c, d
      <3> QED
        BY <1>4, <1>14, <3>3, <3>4
    <2>2. ASSUME at[0][1] = 3, j > 20 PROVE FALSE
      <3>1. j \in 20 .. StepsIn(0, 3)
        BY <1>4, <1>6, <2>2
      <3>2. StepKind(0, 3, j) # "gather"
        BY <1>6, <3>1
      <3>3. Barriers(j) = 11 /\ Gathers(j) = 3
        <4>1. j \in Nat /\ j >= 20
          BY <1>4, <2>2
        <4> HIDE DEF j
        <4> QED
          BY <4>1, AuthTables
      <3> DEFINE w == Flag(StepKind(0, 3, j) = "barrier" /\ (in[0] \/ status[0] = "done"))
      <3>4. d = 2 + Barriers(j) + m + w
        BY <1>8, <2>2, <3>2 DEF CountedAt
      <3>7. j > 3 => m >= 1 + Gathers(j) + 0
        BY <1>8, <2>2, <3>2 DEF CountedAt, Flag
      <3>5. in[0] => StepKind(0, 3, j) = "barrier"
        BY <1>8, <2>2, <3>2 DEF CountedAt
      <3>6. w >= Flag(in[0]) /\ w \in {0, 1} /\ Flag(in[0]) \in {0, 1}
        BY <3>5 DEF Flag
      <3> HIDE DEF w, j
      <3> HIDE DEF m, d
      <3>8. m >= 4
        <4>1. j > 3 /\ m \in Nat
          BY <1>4, <2>2 DEF m, j
        <4> QED
          BY <3>3, <3>7, <4>1
      <3>9. d >= 17 + w
        <4>1. d \in Nat /\ m \in Nat
          BY <1>4 DEF m, d
        <4> QED
          BY <3>3, <3>4, <3>6, <3>8, <4>1
      <3>10. d <= c + Flag(in[0])
        BY <1>2 DEF c, d
      <3>11. d \in Nat
        BY <1>4 DEF d
      <3> QED
        BY <1>14, <3>6, <3>9, <3>10, <3>11, <1>4
    <2> QED
      BY <2>1, <2>2 DEF Released
  <1> QED
    BY <1>2, <1>3, <1>5, <1>15

(* auth_key_test: as long as any rank has memory registered with the       *)
(* credential it is held, although only the head releases it and does not  *)
(* ask the others: the barriers before it are enough, for any number of    *)
(* ranks and any failures (main of auth_key_test, its release after        *)
(* fini_gnix_prov).                                                        *)
THEOREM CredentialIsHeld == Spec => []CredentialOutlivesUse
  <1>1. Init => CredInv
    BY InitCred
  <1>2. CredInv /\ [Next]_vars => CredInv'
    BY NextCred
  <1>3. CredInv => CredentialOutlivesUse
    BY AuthHeld, NoAuthElsewhere DEF CredentialOutlivesUse, CredInv
  <1> QED
    BY <1>1, <1>2, <1>3, PTL DEF Spec
-----------------------------------------------------------------------------
(* Allgathers                                                              *)

(* How many a program has but for the ranks, and what the n-th gathers,    *)
(* the same on all ranks                                                   *)
Total(p) ==
  IF p = "rdm_one_sided" THEN 2 * Threads ELSE IF p = "rdm_pingpong" THEN Threads
  ELSE IF p \in {"rdm_mbw_mr", "rdm_mbw_mr_cntr"} THEN 1 ELSE IF p = "auth_key_test" THEN 4 ELSE 6
Gathered(p, n) ==
  IF p = "rdm_one_sided" THEN IF \E t \in Nat : n = 2 * t - 1 THEN "name" ELSE "desc"
  ELSE IF p \in {"rdm_pingpong", "rdm_mbw_mr", "rdm_mbw_mr_cntr"} THEN "name"
  ELSE IF p = "auth_key_test" THEN << "name", "abort", "table_key", "table_addr" >>[n]
  ELSE << "name", "abort", "table_key", "lock_key", "table_addr", "lock_addr" >>[n]

(* G[k] counts the allgathers of p before step k of s.  A call whose       *)
(* failure the others notice comes before the c-th of them.  The test      *)
(* begins after all.                                                       *)
Counts(p, s, c, G) ==
  /\ G \in [1 .. Len(s) + 1 -> Nat]
  /\ \A k \in 1 .. Len(s) :
       /\ s[k].kind = "gather" => G[k + 1] = G[k] + 1 /\ s[k].name = Gathered(p, G[k] + 1)
       /\ s[k].kind # "gather" => G[k + 1] = G[k]
       /\ s[k].kind = "call" /\ s[k].name \notin Unnoticed => G[k] < c
       /\ s[k].name = "test" => s[k].kind = "step" /\ G[k] = Total(p)
CountsTo(p, s, b, e, c, G) ==
  /\ Counts(p, s, c, G) /\ G[1] = b /\ G[Len(s) + 1] = e
  /\ \A k \in 1 .. Len(s) + 1 : G[k] <= e
Numbered(p, s, b, e, c) == \E G : CountsTo(p, s, b, e, c, G)

(* One sequence after another: the counts go on.                           *)
LEMMA NumberedConcat ==
  ASSUME NEW p, NEW s \in Seq(Steps), NEW t \in Seq(Steps), NEW b \in Nat, NEW m \in Nat, NEW e \in Nat, NEW c \in Nat,
         Numbered(p, s, b, m, c), Numbered(p, t, m, e, c)
  PROVE  s \o t \in Seq(Steps) /\ Numbered(p, s \o t, b, e, c)
  <1>1. PICK F : CountsTo(p, s, b, m, c, F)
    BY DEF Numbered
  <1>2. PICK H : CountsTo(p, t, m, e, c, H)
    BY DEF Numbered
  <1> DEFINE u == s \o t
             x == Len(s)
             y == Len(t)
             G == [k \in 1 .. Len(u) + 1 |-> IF k <= x THEN F[k] ELSE H[k - x]]
  <1>3. /\ u \in Seq(Steps) /\ Len(u) = x + y /\ x \in Nat /\ y \in Nat
        /\ \A k \in 1 .. x : u[k] = s[k]
        /\ \A k \in 1 .. y : u[x + k] = t[k]
        /\ \A k \in 1 .. x + y : k \in 1 .. x \/ \E j \in 1 .. y : k = x + j
    BY ConcatStep
  <1>4. /\ F \in [1 .. x + 1 -> Nat] /\ H \in [1 .. y + 1 -> Nat]
        /\ F[1] = b /\ F[x + 1] = m /\ H[1] = m /\ H[y + 1] = e
        /\ \A k \in 1 .. x + 1 : F[k] <= m
        /\ \A k \in 1 .. y + 1 : H[k] <= e
    BY <1>1, <1>2 DEF CountsTo, Counts
  <1>5. G = [k \in 1 .. x + y + 1 |-> IF k <= x THEN F[k] ELSE H[k - x]]
    BY <1>3
  <1> HIDE DEF u, x, y, G
  <1>6. /\ \A k \in 1 .. x + 1 : G[k] = F[k]
        /\ \A k \in 1 .. y + 1 : G[x + k] = H[k]
    <2>1. ASSUME NEW k \in 1 .. x + 1 PROVE G[k] = F[k]
      <3>1. k \in 1 .. x + y + 1 /\ (k <= x \/ (k = x + 1 /\ k - x = 1))
        BY <1>3
      <3> QED
        BY <1>3, <1>4, <1>5, <3>1, Zenon
    <2>2. ASSUME NEW k \in 1 .. y + 1 PROVE G[x + k] = H[k]
      <3>1. x + k \in 1 .. x + y + 1 /\ ~(x + k <= x) /\ (x + k) - x = k
        BY <1>3
      <3> QED
        BY <1>5, <3>1
    <2> QED
      BY <2>1, <2>2
  <1>7. m <= e
    BY <1>3, <1>4
  <1>8. \A k \in 1 .. x + y + 1 : k \in 1 .. x + 1 \/ \E j \in 1 .. y + 1 : k = x + j
    <2>1. ASSUME NEW k \in 1 .. x + y + 1, ~(k \in 1 .. x + 1) PROVE k - x \in 1 .. y + 1 /\ k = x + (k - x)
      BY <1>3, <2>1
    <2> QED
      BY <2>1
  <1>9. \A k \in 1 .. x + y + 1 : G[k] \in Nat /\ G[k] <= e
    <2>1. ASSUME NEW k \in 1 .. x + 1 PROVE G[k] \in Nat /\ G[k] <= e
      BY <1>4, <1>6, <1>7
    <2>2. ASSUME NEW j \in 1 .. y + 1 PROVE G[x + j] \in Nat /\ G[x + j] <= e
      BY <1>4, <1>6
    <2> QED
      BY <1>8, <2>1, <2>2
  <1>10. G \in [1 .. Len(u) + 1 -> Nat]
    BY <1>3, <1>5, <1>9, Zenon
  <1> DEFINE Good(z, k) ==
               /\ z.kind = "gather" => G[k + 1] = G[k] + 1 /\ z.name = Gathered(p, G[k] + 1)
               /\ z.kind # "gather" => G[k + 1] = G[k]
               /\ z.kind = "call" /\ z.name \notin Unnoticed => G[k] < c
               /\ z.name = "test" => z.kind = "step" /\ G[k] = Total(p)
  <1>11. ASSUME NEW k \in 1 .. x PROVE Good(u[k], k)
    <2>1. u[k] = s[k] /\ k \in 1 .. x + 1 /\ k + 1 \in 1 .. x + 1
      BY <1>3
    <2>2. G[k] = F[k] /\ G[k + 1] = F[k + 1]
      BY <1>6, <2>1
    <2> QED
      BY <1>1, <2>1, <2>2 DEF CountsTo, Counts, x
  <1>12. ASSUME NEW k \in 1 .. y PROVE Good(u[x + k], x + k)
    <2>1. u[x + k] = t[k]
      BY <1>3
    <2>3. k \in 1 .. y + 1 /\ k + 1 \in 1 .. y + 1 /\ (x + k) + 1 = x + (k + 1)
      BY <1>3
    <2>2. G[x + k] = H[k] /\ G[(x + k) + 1] = H[k + 1]
      BY <1>6, <2>3
    <2> QED
      BY <1>2, <2>1, <2>2 DEF CountsTo, Counts, y
  <1>13. \A k \in 1 .. Len(u) : Good(u[k], k)
    <2> HIDE DEF Good
    <2> QED
      BY <1>3, <1>11, <1>12, Zenon
  <1>14. G[1] = b /\ G[Len(u) + 1] = e
    <2>1. 1 \in 1 .. x + 1 /\ y + 1 \in 1 .. y + 1 /\ Len(u) + 1 = x + (y + 1)
      BY <1>3
    <2> QED
      BY <1>4, <1>6, <2>1
  <1>15. Counts(p, u, c, G)
    BY <1>10, <1>13, Zenon DEF Counts
  <1>16. CountsTo(p, u, b, e, c, G)
    BY <1>3, <1>9, <1>14, <1>15, Zenon DEF CountsTo
  <1> QED
    BY <1>3, <1>16 DEF Numbered, u

(* Steps that are no allgather, nor the test                               *)
Quiet(s) == \A k \in 1 .. Len(s) : s[k].kind # "gather" /\ s[k].name # "test"

(* Where nothing is gathered, the count stays.                             *)
LEMMA NumberedQuiet ==
  ASSUME NEW p, NEW s \in Seq(Steps), NEW b \in Nat, NEW c \in Nat, Quiet(s), b < c \/ NoCalls(s)
  PROVE  Numbered(p, s, b, b, c)
  <1> DEFINE n == Len(s)
             G == [k \in 1 .. n + 1 |-> b]
  <1>1. n \in Nat
    OBVIOUS
  <1>2. G \in [1 .. n + 1 -> Nat] /\ \A k \in 1 .. n + 1 : G[k] = b
    OBVIOUS
  <1> HIDE DEF n, G
  <1>3. \A k \in 1 .. n : k \in 1 .. n + 1 /\ k + 1 \in 1 .. n + 1
    BY <1>1
  <1>4. \A k \in 1 .. n : G[k] = b /\ G[k + 1] = b
    BY <1>2, <1>3
  <1>5. Counts(p, s, c, G)
    BY <1>2, <1>4, Zenon DEF Counts, Quiet, NoCalls, n
  <1>6. 1 \in 1 .. n + 1 /\ n + 1 \in 1 .. n + 1
    BY <1>1
  <1> QED
    BY <1>2, <1>5, <1>6 DEF CountsTo, Numbered, n

(* Two sequences that gather nothing, or many,                             *)
LEMMA QuietConcat ==
  ASSUME NEW s \in Seq(Steps), NEW t \in Seq(Steps), Quiet(s), Quiet(t)
  PROVE  Quiet(s \o t)
  BY ConcatStep DEF Quiet

(* one after the other.                                                    *)
LEMMA QuietFlatten ==
  ASSUME NEW n \in Nat \ {0}, NEW ss \in [1 .. n -> Seq(Steps)], \A m \in 1 .. n : Quiet(ss[m])
  PROVE  FlattenSeq(ss) \in Seq(Steps) /\ Quiet(FlattenSeq(ss))
  <1> DEFINE Good == {x \in (1 .. n) \X Seq(Steps) : Quiet(x[2])}
  <1>1. 1 \in 1 .. n
    OBVIOUS
  <1>2. <<1, ss[1]>> \in Good
    BY <1>1
  <1>3. ASSUME NEW m \in 1 .. n - 1, NEW s \in Seq(Steps), <<m, s>> \in Good
        PROVE  <<m + 1, s \o ss[m + 1]>> \in Good
    <2>1. m + 1 \in 1 .. n
      OBVIOUS
    <2>2. Quiet(s) /\ ss[m + 1] \in Seq(Steps) /\ Quiet(ss[m + 1])
      BY <1>3, <2>1
    <2>3. Quiet(s \o ss[m + 1]) /\ s \o ss[m + 1] \in Seq(Steps)
      BY <2>2, QuietConcat, ConcatStep
    <2> QED
      BY <2>1, <2>3, Zenon
  <1>4. <<n, FlattenSeq(ss)>> \in Good /\ FlattenSeq(ss) \in Seq(Steps)
    <2> HIDE DEF Good
    <2> QED
      BY <1>2, <1>3, FlattenInduction, Zenon
  <1> QED
    BY <1>4

(* One step that is an allgather                                           *)
LEMMA NumberedGather ==
  ASSUME NEW p, NEW x \in Steps, NEW b \in Nat, NEW c \in Nat, x.kind = "gather", x.name # "test",
         x.name = Gathered(p, b + 1)
  PROVE  <<x>> \in Seq(Steps) /\ Numbered(p, <<x>>, b, b + 1, c)
  <1> DEFINE s == <<x>>
             G == [k \in 1 .. 2 |-> IF k = 1 THEN b ELSE b + 1]
  <1>1. s \in Seq(Steps) /\ Len(s) = 1 /\ s[1] = x
    OBVIOUS
  <1>2. G \in [1 .. 2 -> Nat] /\ G[1] = b /\ G[2] = b + 1
    OBVIOUS
  <1> HIDE DEF s, G
  <1>3. Len(s) + 1 = 2 /\ \A k \in 1 .. Len(s) : k = 1 /\ k + 1 = 2
    BY <1>1
  <1>4. Counts(p, s, c, G)
    <2>1. \A k \in 1 .. Len(s) : s[k] = x /\ G[k] = b /\ G[k + 1] = b + 1
      BY <1>1, <1>2, <1>3
    <2> QED
      BY <1>2, <1>3, <2>1 DEF Counts
  <1>5. \A k \in 1 .. 2 : G[k] <= b + 1
    BY <1>2
  <1>6. CountsTo(p, s, b, b + 1, c, G)
    BY <1>2, <1>3, <1>4, <1>5 DEF CountsTo
  <1> QED
    BY <1>1, <1>6 DEF Numbered, s

-----------------------------------------------------------------------------
(* The allgathers of the parts                                             *)

(* init_av                                                                 *)
LEMMA NumberedInitAv ==
  ASSUME NEW p, NEW endp \in Handles, NEW vector \in Handles, NEW dest \in Handles, NEW b \in Nat, NEW c \in Nat,
         b < c, "name" = Gathered(p, b + 1)
  PROVE  /\ InitAv("name", endp, vector, dest) \in Seq(Steps)
         /\ Numbered(p, InitAv("name", endp, vector, dest), b, b + 1, c)
  <1> DEFINE s == InitAv("name", endp, vector, dest)
             G == [k \in 1 .. 4 |-> IF k <= 2 THEN b ELSE b + 1]
  <1>1. s \in Seq(Steps)
    BY InitAvFacts, Zenon DEF Names
  <1>2. /\ Len(s) = 3 /\ s[1].kind = "call" /\ s[2].kind = "gather" /\ s[3].kind = "call"
        /\ s[1].name = "fi_getname" /\ s[2].name = "name" /\ s[3].name = "fi_av_insert"
    BY DEF InitAv, Call, Gather
  <1>3. G \in [1 .. 4 -> Nat] /\ G[1] = b /\ G[2] = b /\ G[3] = b + 1 /\ G[4] = b + 1
    OBVIOUS
  <1> HIDE DEF s, G
  <1>4. Len(s) + 1 = 4 /\ \A k \in 1 .. Len(s) : k = 1 \/ k = 2 \/ k = 3
    BY <1>2
  <1>5. "fi_av_insert" \in Unnoticed
    BY DEF Unnoticed
  <1> DEFINE Good(k) ==
               /\ s[k].kind = "gather" => G[k + 1] = G[k] + 1 /\ s[k].name = Gathered(p, G[k] + 1)
               /\ s[k].kind # "gather" => G[k + 1] = G[k]
               /\ s[k].kind = "call" /\ s[k].name \notin Unnoticed => G[k] < c
               /\ s[k].name = "test" => s[k].kind = "step" /\ G[k] = Total(p)
  <1>6. Good(1) /\ Good(2) /\ Good(3)
    BY <1>2, <1>3, <1>5
  <1>7. \A k \in 1 .. Len(s) : Good(k)
    <2> HIDE DEF Good
    <2> QED
      BY <1>4, <1>6
  <1>8. Counts(p, s, c, G)
    BY <1>3, <1>4, <1>7, Zenon DEF Counts
  <1>9. \A k \in 1 .. 4 : G[k] <= b + 1
    <2>1. \A k \in 1 .. 4 : k = 1 \/ k = 2 \/ k = 3 \/ k = 4
      OBVIOUS
    <2> QED
      BY <1>3, <2>1
  <1>10. CountsTo(p, s, b, b + 1, c, G)
    BY <1>3, <1>4, <1>8, <1>9 DEF CountsTo
  <1> QED
    BY <1>1, <1>10 DEF Numbered, s

(* the registrations of a thread of rdm_one_sided                          *)
LEMMA NumberedBuffers ==
  ASSUME NEW p, NEW t \in Nat, NEW b \in Nat, "desc" = Gathered(p, b + 1)
  PROVE  Numbered(p, OneSidedBuffers(t), b, b + 1, b + 1)
  <1> DEFINE s == OneSidedBuffers(t)
             G == [k \in 1 .. 5 |-> IF k <= 3 THEN b ELSE b + 1]
  <1>2. /\ Len(s) = 4 /\ s[1].kind = "step" /\ s[2].kind = "call" /\ s[3].kind = "gather" /\ s[4].kind = "call"
        /\ s[1].name # "test" /\ s[2].name # "test" /\ s[3].name = "desc" /\ s[4].name # "test"
        /\ s[4].name \in Unnoticed
    BY Zenon DEF OneSidedBuffers, Buffers, Do, Call, Gather, Unnoticed
  <1>3. G \in [1 .. 5 -> Nat] /\ G[1] = b /\ G[2] = b /\ G[3] = b /\ G[4] = b + 1 /\ G[5] = b + 1
    OBVIOUS
  <1> HIDE DEF s, G
  <1>4. Len(s) + 1 = 5 /\ \A k \in 1 .. Len(s) : k = 1 \/ k = 2 \/ k = 3 \/ k = 4
    BY <1>2
  <1> DEFINE Good(k) ==
               /\ s[k].kind = "gather" => G[k + 1] = G[k] + 1 /\ s[k].name = Gathered(p, G[k] + 1)
               /\ s[k].kind # "gather" => G[k + 1] = G[k]
               /\ s[k].kind = "call" /\ s[k].name \notin Unnoticed => G[k] < b + 1
               /\ s[k].name = "test" => s[k].kind = "step" /\ G[k] = Total(p)
  <1>6. Good(1) /\ Good(2)
    BY <1>2, <1>3
  <1>7. Good(3) /\ Good(4)
    BY <1>2, <1>3
  <1>8. \A k \in 1 .. Len(s) : Good(k)
    <2> HIDE DEF Good
    <2> QED
      BY <1>4, <1>6, <1>7
  <1>9. Counts(p, s, b + 1, G)
    BY <1>3, <1>4, <1>8, Zenon DEF Counts
  <1>10. \A k \in 1 .. 5 : G[k] <= b + 1
    <2>1. \A k \in 1 .. 5 : k = 1 \/ k = 2 \/ k = 3 \/ k = 4 \/ k = 5
      OBVIOUS
    <2> QED
      BY <1>3, <2>1
  <1>11. CountsTo(p, s, b, b + 1, b + 1, G)
    BY <1>3, <1>4, <1>9, <1>10 DEF CountsTo
  <1> QED
    BY <1>11 DEF Numbered, s

(* the set-up of a thread: of its endpoint, which gathers nothing,         *)
LEMMA QuietThreadEndpoint ==
  ASSUME NEW t \in Nat
  PROVE  Quiet(ThreadEndpoint(t))
  <1> DEFINE s == ThreadEndpoint(t)
  <1>1. /\ Len(s) = 5 /\ s[1].kind = "call" /\ s[2].kind = "call" /\ s[3].kind = "call"
        /\ s[4].kind = "call" /\ s[5].kind = "call"
    BY DEF ThreadEndpoint, Unwinding, Call
  <1>2. /\ s[1].name = "fi_endpoint" /\ s[2].name = "fi_cq_open" /\ s[3].name = "fi_cq_open"
        /\ s[4].name = "fi_av_open" /\ s[5].name = "fi_ep_bind"
    BY DEF ThreadEndpoint, Unwinding, Call
  <1>3. \A k \in 1 .. 5 : k = 1 \/ k = 2 \/ k = 3 \/ k = 4 \/ k = 5
    OBVIOUS
  <1> HIDE DEF s
  <1>4. Quiet(s)
    BY <1>1, <1>2, <1>3 DEF Quiet
  <1> QED
    BY <1>4 DEF s

(* and of all of it                                                        *)
PerThread(p, n) == IF p = "rdm_one_sided" THEN 2 * n ELSE n

(* init_per_thread_data of one thread                                      *)
LEMMA NumberedInitThread ==
  ASSUME NEW p \in {"rdm_one_sided", "rdm_pingpong"}, NEW t \in Nat \ {0}
  PROVE  Numbered(p, InitThread(p, t).steps, PerThread(p, t - 1), PerThread(p, t), PerThread(p, t))
  <1> DEFINE x == ThreadEndpoint(t)
             y == InitAv("name", ep(t), tav(t), taddrs(t))
             z == IF p = "rdm_one_sided" THEN OneSidedBuffers(t) ELSE << Buffers(t) >>
             s == InitThread(p, t).steps
             b == PerThread(p, t - 1)
             e == PerThread(p, t)
  <1>1. s = (x \o y) \o z
    BY Zenon DEF InitThread, Part
  <1>2. /\ b \in Nat /\ e \in Nat
        /\ p = "rdm_one_sided" => b = 2 * t - 2 /\ e = b + 2
        /\ p = "rdm_pingpong" => e = b + 1
    BY DEF PerThread
  <1>3. /\ x \in Seq(Steps) /\ y \in Seq(Steps) /\ z \in Seq(Steps)
        /\ ep(t) \in Handles /\ tav(t) \in Handles /\ taddrs(t) \in Handles
    <2>1. ep(t) \in Handles /\ tav(t) \in Handles /\ taddrs(t) \in Handles
      BY HandleTypes
    <2>2. y \in Seq(Steps)
      BY <2>1, InitAvFacts, Zenon DEF Names
    <2>3. x \in Seq(Steps) /\ z \in Seq(Steps)
      BY ThreadEndpointFacts, BufferFacts, OneSidedBufferFacts, Zenon
    <2> QED
      BY <2>1, <2>2, <2>3
  <1>4. Quiet(x)
    BY QuietThreadEndpoint
  <1> HIDE DEF b, e, x
  <1>5. Numbered(p, x, b, b, e)
    <2>1. b < e
      BY <1>2
    <2> QED
      BY <1>2, <1>3, <1>4, <2>1, NumberedQuiet
  <1>6. Numbered(p, y, b, b + 1, e)
    <2>1. b < e /\ e \in Nat
      BY <1>2
    <2>2. "name" = Gathered(p, b + 1)
      <3>1. p = "rdm_one_sided" => b + 1 = 2 * t - 1
        BY <1>2
      <3> QED
        BY <3>1 DEF Gathered
    <2> QED
      BY <1>2, <1>3, <2>1, <2>2, NumberedInitAv
  <1> HIDE DEF y
  <1>7. x \o y \in Seq(Steps) /\ Numbered(p, x \o y, b, b + 1, e)
    <2>1. b + 1 \in Nat
      BY <1>2
    <2> QED
      BY <1>2, <1>3, <1>5, <1>6, <2>1, NumberedConcat
  <1>8. Numbered(p, z, b + 1, e, e)
    <2>1. CASE p = "rdm_one_sided"
      <3>1. e = (b + 1) + 1 /\ b + 1 \in Nat
        BY <1>2, <2>1
      <3>2. "desc" = Gathered(p, (b + 1) + 1)
        <4>1. (b + 1) + 1 = 2 * t
          BY <1>2, <2>1
        <4>2. \A j \in Nat : 2 * t # 2 * j - 1
          OBVIOUS
        <4> QED
          BY <2>1, <4>1, <4>2 DEF Gathered
      <3>3. z = OneSidedBuffers(t)
        BY <2>1
      <3> QED
        BY <3>1, <3>2, <3>3, NumberedBuffers
    <2>2. CASE p = "rdm_pingpong"
      <3>1. z = <<Buffers(t)>> /\ e = b + 1
        BY <1>2, <2>2
      <3>2. Quiet(z) /\ NoCalls(z)
        <4>1. /\ Len(z) = 1 /\ z[1].kind = "step" /\ z[1].name # "test"
              /\ \A k \in 1 .. Len(z) : k = 1
          <5> HIDE DEF z
          <5>1. z = <<Buffers(t)>>
            BY <3>1
          <5>2. Buffers(t).name = "align buffers" /\ "align buffers" # "test"
            BY Zenon DEF Buffers, Do
          <5>3. Buffers(t).name # "test"
            BY Zenon, <5>2
          <5>4. Buffers(t).kind = "step"
            BY DEF Buffers, Do
          <5> QED
            BY <5>1, <5>3, <5>4
        <4> HIDE DEF z
        <4> QED
          BY <4>1 DEF Quiet, NoCalls
      <3> QED
        BY <1>2, <1>3, <3>1, <3>2, NumberedQuiet, Zenon
    <2> QED
      BY <2>1, <2>2
  <1> HIDE DEF z
  <1>9. Numbered(p, (x \o y) \o z, b, e, e)
    <2>1. b + 1 \in Nat
      BY <1>2
    <2> QED
      BY <1>2, <1>3, <1>7, <1>8, <2>1, NumberedConcat, Zenon
  <1> QED
    BY <1>1, <1>9 DEF b, e

(* closing                                                                 *)
LEMMA QuietClose ==
  ASSUME NEW h
  PROVE  /\ Close(h).kind = "step" /\ Close(h).name # "test"
         /\ CloseIfSet(h).kind = "step" /\ CloseIfSet(h).name # "test"
  BY Zenon DEF Close, CloseIfSet, Do

(* fini_per_thread_data gathers nothing,                                   *)
LEMMA QuietFiniThread ==
  ASSUME NEW t \in Nat
  PROVE  FiniThread(t) \in Seq(Steps) /\ Quiet(FiniThread(t))
  <1> DEFINE s == FiniThread(t)
  <1>1. /\ Len(s) = 6 /\ s[1] = CloseIfSet(l_mr(t)) /\ s[2] = CloseIfSet(r_mr(t)) /\ s[3] = Close(tav(t))
        /\ s[4] = Close(rcq(t)) /\ s[5] = Close(scq(t)) /\ s[6] = Close(ep(t))
    BY DEF FiniThread
  <1>2. \A k \in 1 .. 6 : k = 1 \/ k = 2 \/ k = 3 \/ k = 4 \/ k = 5 \/ k = 6
    OBVIOUS
  <1> HIDE DEF s
  <1>3. \A k \in 1 .. Len(s) : \E h : s[k] = Close(h) \/ s[k] = CloseIfSet(h)
    BY <1>1, <1>2
  <1>4. Quiet(s)
    BY <1>3, QuietClose DEF Quiet
  <1> QED
    BY <1>4, FiniThreadFacts, Zenon DEF s

(* nor does a barrier.                                                     *)
LEMMA QuietBarrier ==
  /\ <<Barrier>> \in Seq(Steps) /\ Quiet(<<Barrier>>) /\ NoCalls(<<Barrier>>)
  /\ Barrier.kind = "barrier" /\ Barrier.name # "test"
  <1>1. Barrier.kind = "barrier" /\ Barrier.name # "test"
    BY DEF Barrier
  <1>2. Len(<<Barrier>>) = 1 /\ <<Barrier>>[1] = Barrier
    OBVIOUS
  <1>3. \A k \in 1 .. 1 : k = 1
    OBVIOUS
  <1> QED
    BY <1>1, <1>2, <1>3, BarrierFacts DEF Quiet

(* The test begins once everything is gathered.                            *)
LEMMA NumberedTest ==
  ASSUME NEW p, NEW needs \in SUBSET Handles, NEW c \in Nat, Total(p) \in Nat
  PROVE  LET s == << Do("test", needs, {}, <<>>) >>
         IN  s \in Seq(Steps) /\ Numbered(p, s, Total(p), Total(p), c)
  <1> DEFINE x == Do("test", needs, {}, <<>>)
             s == << x >>
             n == Total(p)
             G == [k \in 1 .. 2 |-> n]
  <1>1. x \in Steps
    <2>1. <<>> \in Seq(Handles)
      OBVIOUS
    <2> QED
      BY <2>1 DEF Do, Steps, Kinds, Names
  <1>2. x.kind = "step" /\ x.name = "test"
    BY DEF Do
  <1> HIDE DEF x
  <1>3. s \in Seq(Steps) /\ Len(s) = 1 /\ s[1] = x
    BY <1>1
  <1>4. G \in [1 .. 2 -> Nat] /\ G[1] = n /\ G[2] = n
    OBVIOUS
  <1> HIDE DEF s, G, n
  <1>5. Len(s) + 1 = 2 /\ \A k \in 1 .. Len(s) : k = 1 /\ k + 1 = 2
    BY <1>3
  <1>6. Counts(p, s, c, G)
    <2>1. \A k \in 1 .. Len(s) : s[k] = x /\ G[k] = n /\ G[k + 1] = n
      BY <1>3, <1>4, <1>5
    <2> QED
      BY <1>2, <1>4, <1>5, <2>1 DEF Counts, n
  <1>7. \A k \in 1 .. 2 : G[k] <= n
    BY <1>4 DEF n
  <1>8. CountsTo(p, s, n, n, c, G)
    BY <1>4, <1>5, <1>6, <1>7 DEF CountsTo
  <1> QED
    BY <1>3, <1>8 DEF Numbered, s, x, n

(* Every program gathers something but the ranks.                          *)
LEMMA TotalFacts ==
  ASSUME NEW p
  PROVE  Total(p) \in Nat /\ Total(p) > 0
  BY SizesAssumption DEF Total

(* the last part of rdm_one_sided and rdm_pingpong                         *)
LEMMA NumberedThreadTest ==
  ASSUME NEW p \in {"rdm_one_sided", "rdm_pingpong"}, NEW r
  PROVE  Numbered(p, ThreadTest(p, r).steps, Total(p), Total(p), Total(p))
  <1> DEFINE touch(t) == << Do("touch", {s_buf(t)}, {}, <<>>) >>
             test == Do("test", ThreadNeedsAll(p, r), {}, <<>>)
             touches == [t \in 1 .. Threads |-> touch(t)]
             finis == [t \in 1 .. Threads |-> FiniThread(t)]
             a == FlattenSeq(touches)
             b == << Barrier, test, Barrier >>
             c == IF p = "rdm_pingpong" THEN << Barrier >> ELSE <<>>
             d == FlattenSeq(finis)
             e == << Close(dom), Close(fab), Barrier >>
             s == ThreadTest(p, r).steps
             n == Total(p)
  <1>0. s = (((a \o b) \o c) \o d) \o e
    BY Zenon DEF ThreadTest, Part, ThreadNeedsAll
  <1>1. Threads \in Nat \ {0} /\ \A t \in 1 .. Threads : t \in Nat
    BY SizesAssumption
  <1>2. n \in Nat
    BY TotalFacts
  <1> HIDE DEF n
  <1>3. a \in Seq(Steps) /\ Quiet(a) /\ NoCalls(a)
    <2>1. ASSUME NEW t \in 1 .. Threads
          PROVE  touch(t) \in Seq(Steps) /\ Quiet(touch(t)) /\ NoCalls(touch(t))
      <3> DEFINE x == Do("touch", {s_buf(t)}, {}, <<>>)
      <3>1. s_buf(t) \in Handles /\ <<>> \in Seq(Handles)
        BY <1>1, HandleTypes
      <3>2. x \in Steps
        BY <3>1 DEF Do, Steps, Kinds, Names
      <3>3. x.kind = "step" /\ x.name = "touch"
        BY DEF Do
      <3>4. touch(t) = <<x>>
        OBVIOUS
      <3> HIDE DEF x, touch
      <3>5. touch(t) \in Seq(Steps) /\ Len(touch(t)) = 1 /\ touch(t)[1] = x
        BY <3>2, <3>4
      <3>6. \A k \in 1 .. Len(touch(t)) : touch(t)[k] = x
        BY <3>5
      <3> QED
        BY <3>3, <3>5, <3>6 DEF Quiet, NoCalls
    <2> HIDE DEF touch
    <2>2. touches \in [1 .. Threads -> Seq(Steps)]
      BY <2>1
    <2>3. \A t \in 1 .. Threads : touches[t] = touch(t)
      OBVIOUS
    <2> HIDE DEF touches
    <2>4. NoCalls(a)
      BY <1>1, <2>1, <2>2, <2>3, FlattenPlain, Zenon
    <2>5. a \in Seq(Steps) /\ Quiet(a)
      BY <1>1, <2>1, <2>2, <2>3, QuietFlatten, Zenon
    <2> QED
      BY <2>4, <2>5
  <1>4. b \in Seq(Steps) /\ Numbered(p, b, n, n, n)
    <2> DEFINE y == << Barrier >>
               z == << test >>
    <2>1. y \in Seq(Steps) /\ Numbered(p, y, n, n, n)
      BY <1>2, QuietBarrier, NumberedQuiet
    <2>2. z \in Seq(Steps) /\ Numbered(p, z, n, n, n)
      <3>1. ThreadNeedsAll(p, r) \subseteq Handles
        <4>1. ASSUME NEW t \in 1 .. Threads PROVE ThreadNeeds(p, r, t) \subseteq Handles
          BY <1>1, HandleTypes DEF ThreadNeeds
        <4> QED
          BY <4>1 DEF ThreadNeedsAll
      <3> QED
        BY <1>2, <3>1, NumberedTest DEF n
    <2>3. b = (y \o z) \o y
      OBVIOUS
    <2> HIDE DEF b, y, z
    <2>4. y \o z \in Seq(Steps) /\ Numbered(p, y \o z, n, n, n)
      BY <1>2, <2>1, <2>2, NumberedConcat
    <2>5. (y \o z) \o y \in Seq(Steps) /\ Numbered(p, (y \o z) \o y, n, n, n)
      BY <1>2, <2>1, <2>4, NumberedConcat, Zenon
    <2> QED
      BY <2>3, <2>5
  <1>5. c \in Seq(Steps) /\ Quiet(c) /\ NoCalls(c)
    <2>1. <<>> \in Seq(Steps) /\ Quiet(<<>>) /\ NoCalls(<<>>)
      BY DEF Quiet, NoCalls
    <2> QED
      BY <2>1, QuietBarrier
  <1>6. d \in Seq(Steps) /\ Quiet(d) /\ NoCalls(d)
    <2>1. /\ finis \in [1 .. Threads -> Seq(Steps)]
          /\ \A t \in 1 .. Threads : finis[t] = FiniThread(t)
      BY <1>1, FiniThreadFacts, Zenon
    <2> HIDE DEF finis
    <2>2. \A t \in 1 .. Threads : Quiet(finis[t]) /\ NoCalls(finis[t])
      BY <1>1, <2>1, QuietFiniThread, FiniThreadFacts, Zenon
    <2>3. NoCalls(d)
      BY <1>1, <2>1, <2>2, FlattenPlain, Zenon
    <2> QED
      BY <1>1, <2>1, <2>2, <2>3, QuietFlatten, Zenon
  <1>7. e \in Seq(Steps) /\ Quiet(e) /\ NoCalls(e)
    <2>1. Close(dom) \in Steps /\ Close(fab) \in Steps /\ Barrier \in Steps
      BY CommonHandles, CloseFacts, BarrierFacts
    <2>2. e \in Seq(Steps) /\ Len(e) = 3 /\ e[1] = Close(dom) /\ e[2] = Close(fab) /\ e[3] = Barrier
      BY <2>1
    <2> HIDE DEF e
    <2>3. \A k \in 1 .. Len(e) : e[k] = Barrier \/ \E h : e[k] = Close(h)
      <3>1. \A k \in 1 .. 3 : k = 1 \/ k = 2 \/ k = 3
        OBVIOUS
      <3> QED
        BY <2>2, <3>1
    <2> QED
      BY <2>2, <2>3, QuietClose, QuietBarrier DEF Quiet, NoCalls
  <1> HIDE DEF a, b, c, d, e
  <1>8. a \o b \in Seq(Steps) /\ Numbered(p, a \o b, n, n, n)
    BY <1>2, <1>3, <1>4, NumberedQuiet, NumberedConcat
  <1>9. (a \o b) \o c \in Seq(Steps) /\ Numbered(p, (a \o b) \o c, n, n, n)
    BY <1>2, <1>5, <1>8, NumberedQuiet, NumberedConcat, Zenon
  <1>10. ((a \o b) \o c) \o d \in Seq(Steps) /\ Numbered(p, ((a \o b) \o c) \o d, n, n, n)
    BY <1>2, <1>6, <1>9, NumberedQuiet, NumberedConcat, Zenon
  <1>11. Numbered(p, (((a \o b) \o c) \o d) \o e, n, n, n)
    BY <1>2, <1>7, <1>10, NumberedQuiet, NumberedConcat, Zenon
  <1> QED
    BY <1>0, <1>11 DEF n

(* init_fabric                                                             *)
LEMMA NumberedFabric ==
  ASSUME NEW p
  PROVE  Quiet(Fabric) /\ Numbered(p, Fabric, 0, 0, Total(p))
  <1>1. Quiet(Fabric)
    BY DEF Quiet, Fabric, Call
  <1>2. Total(p) \in Nat /\ 0 < Total(p)
    BY TotalFacts
  <1> QED
    BY <1>1, <1>2, FabricFacts, NumberedQuiet

-----------------------------------------------------------------------------
(* The allgathers of the programs                                          *)

(* Every part goes on from where the one before it ends.  Where main goes  *)
(* on after an error, a call whose failure is noticed comes before some    *)
(* allgather of its own part.                                              *)
Limit(p, P, i, e) == IF P[i].on_error = "next" THEN e ELSE Total(p)
Numbering(p, P, B) ==
  /\ B \in [1 .. Len(P) + 1 -> Nat] /\ B[1] = 0
  /\ \A i \in 1 .. Len(P) :
       Numbered(p, P[i].steps, B[i], B[i + 1], Limit(p, P, i, B[i + 1])) /\ B[i + 1] <= Total(p)
LastOf(P, C, i) == C[i][Len(P[i].steps) + 1]
IsCount(p, P, C) ==
  /\ C[1][1] = 0
  /\ \A i \in 1 .. Len(P) :
       /\ CountsTo(p, P[i].steps, C[i][1], LastOf(P, C, i), Limit(p, P, i, LastOf(P, C, i)), C[i])
       /\ LastOf(P, C, i) <= Total(p)
       /\ i # Len(P) => C[i + 1][1] = LastOf(P, C, i)

(* Counts of the parts make a count of the program.                        *)
LEMMA CountExists ==
  ASSUME NEW p, NEW P \in Seq(Parts), Len(P) > 0, NEW B, Numbering(p, P, B)
  PROVE  \E C : IsCount(p, P, C)
  <1> DEFINE n == Len(P)
             Fits(i, G) == CountsTo(p, P[i].steps, B[i], B[i + 1], Limit(p, P, i, B[i + 1]), G)
             C == [i \in 1 .. n |-> CHOOSE G : Fits(i, G)]
  <1>1. n \in Nat /\ n > 0
    OBVIOUS
  <1>2. ASSUME NEW i \in 1 .. n PROVE Fits(i, C[i])
    <2>1. \E G : Fits(i, G)
      BY DEF Numbering, Numbered
    <2> HIDE DEF Fits
    <2> QED
      BY <2>1
  <1> HIDE DEF C
  <1>3. ASSUME NEW i \in 1 .. n PROVE C[i][1] = B[i] /\ LastOf(P, C, i) = B[i + 1]
    BY <1>2 DEF CountsTo, LastOf
  <1>4. ASSUME NEW i \in 1 .. n, i # n PROVE C[i + 1][1] = LastOf(P, C, i)
    <2>1. i + 1 \in 1 .. n
      BY <1>1, <1>4
    <2> QED
      BY <1>3, <2>1
  <1>5. C[1][1] = 0
    <2>1. 1 \in 1 .. n
      BY <1>1
    <2> QED
      BY <1>3, <2>1 DEF Numbering
  <1>6. ASSUME NEW i \in 1 .. n
        PROVE  /\ CountsTo(p, P[i].steps, C[i][1], LastOf(P, C, i), Limit(p, P, i, LastOf(P, C, i)), C[i])
               /\ LastOf(P, C, i) <= Total(p)
    <2>1. B[i + 1] <= Total(p)
      BY DEF Numbering
    <2>2. Fits(i, C[i])
      BY <1>2
    <2> QED
      BY <1>3, <2>1, <2>2
  <1> HIDE DEF n
  <1>7. IsCount(p, P, C)
    <2>1. \A i \in 1 .. Len(P) :
            /\ CountsTo(p, P[i].steps, C[i][1], LastOf(P, C, i), Limit(p, P, i, LastOf(P, C, i)), C[i])
            /\ LastOf(P, C, i) <= Total(p)
            /\ i # Len(P) => C[i + 1][1] = LastOf(P, C, i)
      BY <1>4, <1>6 DEF n
    <2> QED
      BY <1>5, <2>1 DEF IsCount
  <1> QED
    BY <1>7

(* rdm_one_sided and rdm_pingpong: thread after thread                     *)
LEMMA NumberedThreadProgram ==
  ASSUME NEW p \in {"rdm_one_sided", "rdm_pingpong"}, NEW r
  PROVE  \E B : Numbering(p, ThreadProgram(p, r), B)
  <1> DEFINE P == ThreadProgram(p, r)
             F == Part("leave", Fabric)
             inits == [t \in 1 .. Threads |-> InitThread(p, t)]
             T == ThreadTest(p, r)
             n == Threads
             B == [i \in 1 .. n + 3 |-> IF i = 1 THEN 0 ELSE IF i = n + 3 THEN PerThread(p, n) ELSE PerThread(p, i - 2)]
  <1>1. n \in Nat \ {0} /\ \A t \in 1 .. n : t \in Nat \ {0}
    BY SizesAssumption
  <1>2. P = (<<F>> \o inits) \o <<T>>
    BY DEF ThreadProgram
  <1>3. F \in Parts /\ F.steps = Fabric /\ F.on_error = "leave" /\ T.on_error = "abort"
    BY FabricFacts DEF Parts, Part, ThreadTest
  <1>4. ASSUME NEW t \in 1 .. n
        PROVE  inits[t] = InitThread(p, t) /\ inits[t] \in Parts /\ inits[t].on_error = "next"
    <2>1. InitThread(p, t).steps \in Seq(Steps)
      BY <1>1, InitThreadFacts
    <2> QED
      BY <2>1 DEF InitThread, Part, Parts
  <1>5. T \in Parts
    <2> DEFINE A == {fab, dom} \cup UNION {ThreadMakes(p, t) : t \in 1 .. n}
    <2>2. fab \in A /\ dom \in A /\ \A t \in 1 .. n : ThreadMakes(p, t) \subseteq A
      OBVIOUS
    <2> HIDE DEF A
    <2>1. T.steps \in Seq(Steps)
      BY <2>2, ThreadTestFacts
    <2> QED
      BY <2>1 DEF ThreadTest, Part, Parts
  <1> HIDE DEF F, T, P
  <1>6. inits \in Seq(Parts) /\ Len(inits) = n
    <2>1. inits \in [1 .. n -> Parts]
      BY <1>4
    <2>2. Len(inits) = n
      BY <1>1
    <2> QED
      BY <1>1, <2>1, <2>2
  <1>7. Len(P) = n + 2 /\ P[1] = F /\ P[n + 2] = T /\ \A t \in 1 .. n : P[t + 1] = inits[t]
    <2> HIDE DEF inits
    <2>1. <<F>> \in Seq(Parts) /\ Len(<<F>>) = 1 /\ <<T>> \in Seq(Parts) /\ Len(<<T>>) = 1
          /\ <<F>>[1] = F /\ <<T>>[1] = T
      BY <1>3, <1>5
    <2> DEFINE Q == <<F>> \o inits
    <2>2. /\ Q \in Seq(Parts) /\ Len(Q) = n + 1
          /\ \A i \in 1 .. 1 + n : Q[i] = IF i <= 1 THEN <<F>>[i] ELSE inits[i - 1]
      BY <1>1, <1>6, <2>1, ConcatProperties
    <2> HIDE DEF Q
    <2>3. /\ P \in Seq(Parts) /\ Len(P) = n + 2
          /\ \A i \in 1 .. n + 1 + 1 : P[i] = IF i <= n + 1 THEN Q[i] ELSE <<T>>[i - (n + 1)]
      <3>1. P = Q \o <<T>>
        BY <1>2 DEF Q
      <3> QED
        BY <1>1, <2>1, <2>2, <3>1, ConcatProperties
    <2>4. P[1] = F
      BY <1>1, <2>1, <2>2, <2>3
    <2>5. P[n + 2] = T
      <3>1. n + 2 \in 1 .. n + 1 + 1 /\ ~(n + 2 <= n + 1) /\ (n + 2) - (n + 1) = 1
        BY <1>1
      <3> QED
        BY <2>1, <2>3, <3>1
    <2>6. ASSUME NEW t \in 1 .. n PROVE P[t + 1] = inits[t]
      <3>1. t + 1 \in 1 .. n + 1 + 1 /\ t + 1 <= n + 1 /\ t + 1 \in 1 .. 1 + n /\ ~(t + 1 <= 1)
            /\ (t + 1) - 1 = t
        BY <1>1
      <3> QED
        BY <2>2, <2>3, <3>1
    <2> QED
      BY <2>3, <2>4, <2>5, <2>6
  <1>8. /\ \A m \in Nat : PerThread(p, m) \in Nat
        /\ \A m \in 0 .. n : PerThread(p, m) <= Total(p)
        /\ PerThread(p, n) = Total(p) /\ PerThread(p, 0) = 0
    BY <1>1 DEF PerThread, Total
  <1>9. B \in [1 .. n + 3 -> Nat]
    <2>1. ASSUME NEW i \in 1 .. n + 3, i # 1 PROVE i - 2 \in Nat
      BY <2>1
    <2> HIDE DEF n
    <2>2. \A i \in 1 .. n + 3 :
            (IF i = 1 THEN 0 ELSE IF i = n + 3 THEN PerThread(p, n) ELSE PerThread(p, i - 2)) \in Nat
      BY <1>1, <1>8, <2>1
    <2> QED
      BY <2>2
  <1>10. /\ B[1] = 0 /\ B[2] = 0 /\ B[n + 2] = Total(p) /\ B[n + 3] = Total(p)
         /\ \A t \in 1 .. n : B[t + 1] = PerThread(p, t - 1) /\ B[t + 2] = PerThread(p, t)
    <2>1. B[1] = 0
      BY <1>1
    <2>2. B[n + 3] = Total(p)
      BY <1>1, <1>8
    <2>3. ASSUME NEW i \in 2 .. n + 2 PROVE B[i] = PerThread(p, i - 2)
      BY <1>1
    <2>4. 2 \in 2 .. n + 2 /\ n + 2 \in 2 .. n + 2 /\ 2 - 2 = 0 /\ (n + 2) - 2 = n
      BY <1>1
    <2>5. B[2] = 0 /\ B[n + 2] = Total(p)
      BY <1>8, <2>3, <2>4, Zenon
    <2>6. ASSUME NEW t \in 1 .. n PROVE B[t + 1] = PerThread(p, t - 1) /\ B[t + 2] = PerThread(p, t)
      <3>1. t + 1 \in 2 .. n + 2 /\ t + 2 \in 2 .. n + 2 /\ (t + 1) - 2 = t - 1 /\ (t + 2) - 2 = t
        BY <1>1
      <3> QED
        BY <2>3, <3>1, Zenon
    <2> QED
      BY <2>1, <2>2, <2>5, <2>6
  <1> HIDE DEF B, inits
  <1> DEFINE Good(i) == Numbered(p, P[i].steps, B[i], B[i + 1], Limit(p, P, i, B[i + 1])) /\ B[i + 1] <= Total(p)
  <1>11. Good(1)
    <2>1. B[1 + 1] = 0 /\ P[1].steps = Fabric /\ Limit(p, P, 1, B[1 + 1]) = Total(p)
      BY <1>3, <1>7, <1>10 DEF Limit
    <2> QED
      BY <1>10, <2>1, NumberedFabric, TotalFacts
  <1>12. ASSUME NEW t \in 1 .. n PROVE Good(t + 1)
    <2>1. /\ P[t + 1].steps = InitThread(p, t).steps /\ P[t + 1].on_error = "next"
          /\ (t + 1) + 1 = t + 2
      BY <1>1, <1>4, <1>7
    <2>2. B[t + 1] = PerThread(p, t - 1) /\ B[(t + 1) + 1] = PerThread(p, t)
      BY <1>10, <2>1
    <2>3. Limit(p, P, t + 1, B[(t + 1) + 1]) = PerThread(p, t)
      BY <2>1, <2>2 DEF Limit
    <2>4. Numbered(p, InitThread(p, t).steps, PerThread(p, t - 1), PerThread(p, t), PerThread(p, t))
      BY <1>1, NumberedInitThread
    <2>5. t \in 0 .. n
      BY <1>1
    <2> QED
      BY <1>8, <2>1, <2>2, <2>3, <2>4, <2>5
  <1>13. Good(n + 2)
    <2>1. /\ P[n + 2].steps = T.steps /\ P[n + 2].on_error = "abort" /\ (n + 2) + 1 = n + 3
      BY <1>1, <1>3, <1>7
    <2>2. Limit(p, P, n + 2, B[(n + 2) + 1]) = Total(p)
      BY <2>1 DEF Limit
    <2>3. Numbered(p, T.steps, Total(p), Total(p), Total(p))
      BY NumberedThreadTest DEF T
    <2>4. Total(p) <= Total(p)
      BY TotalFacts
    <2> QED
      BY <1>10, <2>1, <2>2, <2>3, <2>4
  <1>14. ASSUME NEW i \in 1 .. Len(P) PROVE Good(i)
    <2>1. i = 1 \/ i = n + 2 \/ \E t \in 1 .. n : i = t + 1
      <3>1. ASSUME i # 1, i # n + 2 PROVE i - 1 \in 1 .. n /\ i = (i - 1) + 1
        BY <1>1, <1>7, <3>1
      <3> QED
        BY <3>1
    <2> HIDE DEF Good
    <2> QED
      BY <1>11, <1>12, <1>13, <2>1
  <1>15. Len(P) + 1 = n + 3
    BY <1>1, <1>7
  <1>16. Numbering(p, P, B)
    BY <1>9, <1>10, <1>14, <1>15 DEF Numbering
  <1> QED
    BY <1>16 DEF P

(* rdm_mbw_mr: one allgather, between the set-up and the test              *)
LEMMA NumberedMbwTest ==
  ASSUME NEW p \in {"rdm_mbw_mr", "rdm_mbw_mr_cntr"}
  PROVE  Numbered(p, MbwProgram(p)[3].steps, 1, 1, 1)
  <1> DEFINE x1 == << Barrier >>
             x2 == << Do("test", {ep(0), addrs} \cup ToSet(MbwComps(p)), {}, <<>>) >>
             x3 == << Barrier, Close(av) >>
             y == [k \in 1 .. 2 |-> Close(MbwComps(p)[k])]
             z == << Close(ep(0)), Close(dom), Close(fab), Barrier >>
             s == MbwProgram(p)[3].steps
  <1>1. s = (((x1 \o x2) \o x3) \o y) \o z
    <2>1. s = (<< Barrier, Do("test", {ep(0), addrs} \cup ToSet(MbwComps(p)), {}, <<>>), Barrier, Close(av) >> \o y) \o z
      BY Zenon DEF MbwProgram, Part
    <2>2. << Barrier, Do("test", {ep(0), addrs} \cup ToSet(MbwComps(p)), {}, <<>>), Barrier, Close(av) >>
            = (x1 \o x2) \o x3
      OBVIOUS
    <2> HIDE DEF x1, x2, x3, y, z, s
    <2> QED
      BY <2>1, <2>2, Zenon
  <1>2. /\ fab \in Handles /\ dom \in Handles /\ ep(0) \in Handles /\ Sending(p) \in Handles
        /\ Receiving(p) \in Handles /\ av \in Handles /\ addrs \in Handles
        /\ MbwComps(p) = <<Receiving(p), Sending(p)>>
    BY MbwHandles
  <1>3. Total(p) = 1
    BY DEF Total
  <1>4. x1 \in Seq(Steps) /\ Numbered(p, x1, 1, 1, 1)
    BY QuietBarrier, NumberedQuiet, Zenon
  <1>5. x2 \in Seq(Steps) /\ Numbered(p, x2, 1, 1, 1)
    <2>1. {ep(0), addrs} \cup ToSet(MbwComps(p)) \subseteq Handles
      BY <1>2, Tuple2, MbwDistinct
    <2> DEFINE needs == {ep(0), addrs} \cup ToSet(MbwComps(p))
    <2>2. needs \in SUBSET Handles /\ x2 = << Do("test", needs, {}, <<>>) >>
      BY <2>1
    <2> HIDE DEF needs, x2
    <2>3. Total(p) \in Nat /\ 1 \in Nat
      BY TotalFacts
    <2>4. x2 \in Seq(Steps) /\ Numbered(p, x2, Total(p), Total(p), 1)
      BY <2>2, <2>3, NumberedTest, Zenon
    <2> QED
      BY <1>3, <2>4
  <1>6. x3 \in Seq(Steps) /\ Numbered(p, x3, 1, 1, 1)
    <2>1. Close(av) \in Steps /\ Barrier \in Steps
      BY <1>2, CloseFacts, BarrierFacts
    <2>2. x3 \in Seq(Steps) /\ Len(x3) = 2 /\ x3[1] = Barrier /\ x3[2] = Close(av)
      BY <2>1
    <2>3. \A k \in 1 .. 2 : k = 1 \/ k = 2
      OBVIOUS
    <2> HIDE DEF x3
    <2>4. Quiet(x3) /\ NoCalls(x3)
      BY <2>2, <2>3, QuietClose, QuietBarrier DEF Quiet, NoCalls
    <2> QED
      BY <2>2, <2>4, NumberedQuiet
  <1>7. y \in Seq(Steps) /\ Numbered(p, y, 1, 1, 1)
    <2>1. \A k \in 1 .. 2 : MbwComps(p)[k] \in Handles
      BY <1>2
    <2>2. \A k \in 1 .. 2 : Close(MbwComps(p)[k]) \in Steps
      BY <2>1, CloseFacts
    <2>3. Len(y) = 2 /\ \A k \in 1 .. Len(y) : y[k] = Close(MbwComps(p)[k])
      OBVIOUS
    <2>4. y \in Seq(Steps)
      <3>1. y \in [1 .. 2 -> Steps] /\ 2 \in Nat
        BY <2>2
      <3> QED
        BY <3>1
    <2> HIDE DEF y
    <2>5. Quiet(y) /\ NoCalls(y)
      BY <2>3, QuietClose DEF Quiet, NoCalls
    <2> QED
      BY <2>4, <2>5, NumberedQuiet
  <1>8. z \in Seq(Steps) /\ Numbered(p, z, 1, 1, 1)
    <2>1. Close(ep(0)) \in Steps /\ Close(dom) \in Steps /\ Close(fab) \in Steps /\ Barrier \in Steps
      BY <1>2, CloseFacts, BarrierFacts
    <2>2. z \in Seq(Steps) /\ Len(z) = 4 /\ z[1] = Close(ep(0)) /\ z[2] = Close(dom) /\ z[3] = Close(fab) /\ z[4] = Barrier
      BY <2>1
    <2>3. \A k \in 1 .. 4 : k = 1 \/ k = 2 \/ k = 3 \/ k = 4
      OBVIOUS
    <2> HIDE DEF z
    <2>4. \A k \in 1 .. Len(z) : z[k] = Barrier \/ \E h : z[k] = Close(h)
      BY <2>2, <2>3
    <2>5. Quiet(z) /\ NoCalls(z)
      BY <2>4, QuietClose, QuietBarrier DEF Quiet, NoCalls
    <2> QED
      BY <2>2, <2>5, NumberedQuiet
  <1> HIDE DEF x1, x2, x3, y, z
  <1>9. x1 \o x2 \in Seq(Steps) /\ Numbered(p, x1 \o x2, 1, 1, 1)
    BY <1>4, <1>5, NumberedConcat
  <1>10. (x1 \o x2) \o x3 \in Seq(Steps) /\ Numbered(p, (x1 \o x2) \o x3, 1, 1, 1)
    BY <1>6, <1>9, NumberedConcat, Zenon
  <1>11. ((x1 \o x2) \o x3) \o y \in Seq(Steps) /\ Numbered(p, ((x1 \o x2) \o x3) \o y, 1, 1, 1)
    BY <1>7, <1>10, NumberedConcat, Zenon
  <1>12. Numbered(p, (((x1 \o x2) \o x3) \o y) \o z, 1, 1, 1)
    BY <1>8, <1>11, NumberedConcat, Zenon
  <1> QED
    BY <1>1, <1>12

(* rdm_mbw_mr, with queues or with counters                                *)
LEMMA NumberedMbwProgram ==
  ASSUME NEW p \in {"rdm_mbw_mr", "rdm_mbw_mr_cntr"}
  PROVE  \E B : Numbering(p, MbwProgram(p), B)
  <1> DEFINE P == MbwProgram(p)
             a == MbwFabric(p)
             b == InitAv("name", ep(0), av, addrs)
             z == P[3].steps
             B == [i \in 1 .. 4 |-> IF i <= 2 THEN 0 ELSE 1]
  <1>1. /\ Len(P) = 3 /\ P[1].steps = a /\ P[2].steps = b
        /\ P[1].on_error = "leave" /\ P[2].on_error = "leave" /\ P[3].on_error = "abort"
    BY DEF MbwProgram, Part
  <1>2. Total(p) = 1 /\ "name" = Gathered(p, 0 + 1)
    BY DEF Total, Gathered
  <1>3. B \in [1 .. 4 -> Nat] /\ B[1] = 0 /\ B[2] = 0 /\ B[3] = 1 /\ B[4] = 1
    OBVIOUS
  <1>4. Numbered(p, a, 0, 0, 1)
    <2> HIDE DEF a
    <2>1. a \in Seq(Steps) /\ Len(a) = 9
      BY MbwFabricSteps DEF a
    <2>2. \A k \in 1 .. 9 : a[k].kind = "call" /\ a[k].name # "test"
      BY MbwFabricSteps DEF a
    <2>3. Quiet(a)
      BY <2>1, <2>2, Zenon DEF Quiet
    <2> QED
      BY <2>1, <2>3, NumberedQuiet
  <1>5. Numbered(p, b, 0, 1, 1)
    <2>1. ep(0) \in Handles /\ av \in Handles /\ addrs \in Handles
      BY MbwHandles
    <2>2. 0 \in Nat /\ 1 \in Nat /\ 0 < 1 /\ 0 + 1 = 1
      OBVIOUS
    <2>3. Numbered(p, b, 0, 0 + 1, 1)
      BY <1>2, <2>1, <2>2, NumberedInitAv, Zenon
    <2> QED
      BY <2>2, <2>3
  <1>6. Numbered(p, z, 1, 1, 1)
    BY NumberedMbwTest
  <1>7. Len(P) + 1 = 4 /\ \A i \in 1 .. Len(P) : (i = 1 \/ i = 2 \/ i = 3) /\ Limit(p, P, i, B[i + 1]) = 1
    <2> HIDE DEF P, B
    <2>1. Len(P) + 1 = 4 /\ \A i \in 1 .. Len(P) : i = 1 \/ i = 2 \/ i = 3
      BY <1>1
    <2> QED
      BY <1>1, <1>2, <2>1 DEF Limit
  <1> HIDE DEF P, B, a, b
  <1> DEFINE Good(i) == Numbered(p, P[i].steps, B[i], B[i + 1], 1) /\ B[i + 1] <= 1
  <1>8. Good(1) /\ Good(2) /\ Good(3)
    <2>1. 1 + 1 = 2 /\ 2 + 1 = 3 /\ 3 + 1 = 4
      OBVIOUS
    <2> QED
      BY <1>1, <1>3, <1>4, <1>5, <1>6, <2>1
  <1>9. \A i \in 1 .. Len(P) : Good(i)
    <2> HIDE DEF Good
    <2> QED
      BY <1>7, <1>8
  <1>10. Numbering(p, P, B)
    BY <1>2, <1>3, <1>7, <1>9 DEF Numbering
  <1> QED
    BY <1>10 DEF P

-----------------------------------------------------------------------------
(* random_access and auth_key_test                                         *)
LEMMA QuietPeerEndpoints == Quiet(PeerEndpoints)
  <1> DEFINE n == num_ranks
             ss == [q \in 1 .. n |-> PeerEndpoint(q - 1)]
  <1>1. n \in Nat \ {0} /\ \A m \in 1 .. n : m - 1 \in Nat
    BY RankFacts
  <1>2. PeerEndpoints = FlattenSeq(ss)
    BY DEF PeerEndpoints
  <1>3. \A m \in 1 .. n : ss[m] = PeerEndpoint(m - 1)
    OBVIOUS
  <1>4. ss \in [1 .. n -> Seq(Steps)]
    BY <1>1, PeerEndpointFacts
  <1> HIDE DEF ss, n
  <1>5. ASSUME NEW t \in Nat PROVE Quiet(PeerEndpoint(t))
    BY DEF Quiet, PeerEndpoint, Call
  <1>6. \A m \in 1 .. n : Quiet(ss[m])
    BY <1>1, <1>3, <1>5
  <1> QED
    BY <1>1, <1>2, <1>4, <1>6, QuietFlatten, Zenon

(* init_gnix_prov gathers the names last.                                  *)
LEMMA NumberedInitProv ==
  ASSUME NEW p \in {"random_access", "random_access_drc", "auth_key_test"}
  PROVE  Numbered(p, InitProv.steps, 0, 1, 1)
  <1> DEFINE a == Fabric
             b == << Call("fi_av_open", {dom}, {av}, <<>>) >>
             c == PeerEndpoints
             d == InitAv("name", ep(0), av, addrs)
             s == InitProv.steps
  <1>1. s = ((a \o b) \o c) \o d
    BY DEF InitProv, Part
  <1>2. a \in Seq(Steps) /\ Numbered(p, a, 0, 0, 1)
    <2>1. 0 \in Nat /\ 1 \in Nat /\ 0 < 1
      OBVIOUS
    <2> QED
      BY <2>1, FabricFacts, NumberedFabric, NumberedQuiet
  <1>3. b \in Seq(Steps) /\ Numbered(p, b, 0, 0, 1)
    <2> DEFINE x == Call("fi_av_open", {dom}, {av}, <<>>)
    <2>1. <<>> \in Seq(Handles) /\ dom \in Handles /\ av \in Handles
      BY CommonHandles
    <2>2. x \in Steps
      BY <2>1 DEF Call, Steps, Kinds, Names
    <2>3. x.kind = "call" /\ x.name = "fi_av_open"
      BY DEF Call
    <2>4. b = <<x>>
      OBVIOUS
    <2> HIDE DEF x, b
    <2>5. b \in Seq(Steps) /\ Len(b) = 1 /\ b[1] = x
      BY <2>2, <2>4
    <2>6. \A k \in 1 .. Len(b) : b[k] = x
      BY <2>5
    <2>7. Quiet(b)
      BY <2>3, <2>6 DEF Quiet
    <2>8. 0 \in Nat /\ 1 \in Nat /\ 0 < 1
      OBVIOUS
    <2> QED
      BY <2>5, <2>7, <2>8, NumberedQuiet
  <1>4. c \in Seq(Steps) /\ Numbered(p, c, 0, 0, 1)
    <2>1. 0 \in Nat /\ 1 \in Nat /\ 0 < 1
      OBVIOUS
    <2> QED
      BY <2>1, PeerEndpointsFacts, QuietPeerEndpoints, NumberedQuiet
  <1>5. d \in Seq(Steps) /\ Numbered(p, d, 0, 1, 1)
    <2>1. ep(0) \in Handles /\ av \in Handles /\ addrs \in Handles
      BY MbwHandles
    <2>2. 0 \in Nat /\ 1 \in Nat /\ 0 < 1 /\ 0 + 1 = 1
      OBVIOUS
    <2>3. "name" = Gathered(p, 0 + 1)
      BY DEF Gathered
    <2>4. d \in Seq(Steps) /\ Numbered(p, d, 0, 0 + 1, 1)
      BY <2>1, <2>2, <2>3, NumberedInitAv, Zenon
    <2> QED
      BY <2>2, <2>4
  <1> HIDE DEF a, b, c, d
  <1>6. a \o b \in Seq(Steps) /\ Numbered(p, a \o b, 0, 0, 1)
    BY <1>2, <1>3, NumberedConcat
  <1>7. (a \o b) \o c \in Seq(Steps) /\ Numbered(p, (a \o b) \o c, 0, 0, 1)
    BY <1>4, <1>6, NumberedConcat, Zenon
  <1>8. Numbered(p, ((a \o b) \o c) \o d, 0, 1, 1)
    BY <1>5, <1>7, NumberedConcat, Zenon
  <1> QED
    BY <1>1, <1>8

(* Barriers one after the other, and closing                               *)
LEMMA NumberedSilent ==
  ASSUME NEW p, NEW s \in Seq(Steps), NEW b \in Nat, NEW c \in Nat,
         \A k \in 1 .. Len(s) : s[k] = Barrier \/ \E h : s[k] = Close(h) \/ s[k] = CloseIfSet(h)
  PROVE  Numbered(p, s, b, b, c)
  <1>1. Quiet(s) /\ NoCalls(s)
    BY QuietClose, QuietBarrier, Zenon DEF Quiet, NoCalls
  <1> QED
    BY <1>1, NumberedQuiet

(* A barrier before other steps,                                           *)
LEMMA NumberedBarriers ==
  ASSUME NEW p, NEW b \in Nat, NEW c \in Nat
  PROVE  /\ <<Barrier>> \in Seq(Steps) /\ Numbered(p, <<Barrier>>, b, b, c)
         /\ <<Barrier, Barrier>> \in Seq(Steps) /\ Numbered(p, <<Barrier, Barrier>>, b, b, c)
         /\ <<Barrier, Barrier, Barrier>> \in Seq(Steps) /\ Numbered(p, <<Barrier, Barrier, Barrier>>, b, b, c)
  <1>1. Barrier \in Steps
    BY BarrierFacts
  <1> DEFINE x == <<Barrier>>
             y == <<Barrier, Barrier>>
             z == <<Barrier, Barrier, Barrier>>
  <1>2. x \in Seq(Steps) /\ \A k \in 1 .. Len(x) : x[k] = Barrier
    BY <1>1
  <1>3. y \in Seq(Steps) /\ \A k \in 1 .. Len(y) : y[k] = Barrier
    BY <1>1
  <1>4. z \in Seq(Steps) /\ \A k \in 1 .. Len(z) : z[k] = Barrier
    BY <1>1
  <1> HIDE DEF x, y, z
  <1>5. Numbered(p, x, b, b, c) /\ Numbered(p, y, b, b, c) /\ Numbered(p, z, b, b, c)
    BY <1>2, <1>3, <1>4, NumberedSilent, Zenon
  <1> QED
    BY <1>2, <1>3, <1>4, <1>5 DEF x, y, z

(* and one step that is no allgather                                       *)
LEMMA NumberedOne ==
  ASSUME NEW p, NEW name \in Names, name # "test", NEW b \in Nat, NEW c \in Nat, name = Gathered(p, b + 1)
  PROVE  LET s == << Gather(name, {}, {}) >>
         IN  s \in Seq(Steps) /\ Numbered(p, s, b, b + 1, c)
  <1> DEFINE x == Gather(name, {}, {})
  <1>1. x \in Steps
    <2>1. <<>> \in Seq(Handles)
      OBVIOUS
    <2> QED
      BY <2>1 DEF Gather, Steps, Kinds, Meeting
  <1>2. x.kind = "gather" /\ x.name = name
    BY DEF Gather
  <1> HIDE DEF x
  <1>3. <<x>> \in Seq(Steps) /\ Numbered(p, <<x>>, b, b + 1, c)
    BY <1>1, <1>2, NumberedGather
  <1> QED
    BY <1>3 DEF x

(* ct_allreduce_int_sum, the second allgather                              *)
LEMMA NumberedStart ==
  ASSUME NEW p \in {"random_access", "random_access_drc", "auth_key_test"}, NEW c \in Nat
  PROVE  LET s == <<Barrier>> \o Allocated
         IN  s \in Seq(Steps) /\ Numbered(p, s, 1, 2, c)
  <1> DEFINE x == <<Barrier>>
             g == << Gather("abort", {}, {}) >>
             y == <<Barrier, Barrier>>
             s == x \o Allocated
  <1>1. Allocated = (x \o g) \o y
    BY DEF Allocated
  <1>2. /\ x \in Seq(Steps) /\ Numbered(p, x, 1, 1, c)
        /\ y \in Seq(Steps) /\ Numbered(p, y, 2, 2, c)
    BY NumberedBarriers
  <1>3. g \in Seq(Steps) /\ Numbered(p, g, 1, 2, c)
    <2>1. "abort" = Gathered(p, 1 + 1) /\ "abort" \in Names /\ "abort" # "test"
      BY DEF Gathered, Names
    <2>2. 1 \in Nat /\ 1 + 1 = 2
      OBVIOUS
    <2>3. g \in Seq(Steps) /\ Numbered(p, g, 1, 1 + 1, c)
      BY <2>1, <2>2, NumberedOne, Zenon
    <2> QED
      BY <2>2, <2>3
  <1> HIDE DEF x, y, g
  <1>4. x \o g \in Seq(Steps) /\ Numbered(p, x \o g, 1, 2, c)
    BY <1>2, <1>3, NumberedConcat
  <1>5. (x \o g) \o y \in Seq(Steps) /\ Numbered(p, (x \o g) \o y, 1, 2, c)
    BY <1>2, <1>4, NumberedConcat, Zenon
  <1>6. s \in Seq(Steps) /\ Numbered(p, s, 1, 2, c)
    BY <1>1, <1>2, <1>5, NumberedConcat, Zenon
  <1> QED
    BY <1>6 DEF s, x

(* auth_key_test: the exchange of the table's keys and addresses           *)
LEMMA NumberedAuthExchange ==
  Numbered("auth_key_test", AuthExchange, 2, 4, 4)
  <1> DEFINE c1 == Call("fi_mr_regattr table", {dom}, {table_mr}, <<>>)
             c2 == Call("fi_mr_regattr auth", {dom}, {auth_mr}, <<>>)
             g1 == Gather("table_key", {}, {})
             g2 == Gather("table_addr", {}, {})
             test == Do("test", {table_mr, auth_mr}, {}, <<>>)
             s == AuthExchange
             p == "auth_key_test"
             G == [k \in 1 .. 15 |-> IF k <= 4 THEN 2 ELSE IF k <= 6 THEN 3 ELSE 4]
  <1>1. s = <<c1, c2, Barrier, g1, Barrier, g2, Barrier, Barrier, Barrier, test,
              Close(table_mr), Close(auth_mr), Barrier, Barrier>>
    BY DEF AuthExchange
  <1>2. c1.name # "test" /\ c2.name # "test" /\ c1.kind = "call" /\ c2.kind = "call"
    BY Zenon DEF Call
  <1>3. /\ g1.kind = "gather" /\ g1.name = "table_key" /\ g2.kind = "gather" /\ g2.name = "table_addr"
        /\ test.kind = "step" /\ test.name = "test"
    BY DEF Gather, Do
  <1>4. /\ Total(p) = 4 /\ Gathered(p, 3) = "table_key" /\ Gathered(p, 4) = "table_addr"
    BY DEF Total, Gathered
  <1>5. s \in Seq(Steps) /\ Len(s) = 14
    BY AuthExchangeFacts
  <1>6. /\ G \in [1 .. 15 -> Nat] /\ G[1] = 2 /\ G[15] = 4
        /\ \A k \in 1 .. 15 : G[k] <= 4
    OBVIOUS
  <1>7. /\ \A k \in 1 .. 4 : G[k] = 2
        /\ \A k \in 5 .. 6 : G[k] = 3
        /\ \A k \in 7 .. 15 : G[k] = 4
    OBVIOUS
  <1>8. \A k \in 1 .. 14 : k \in {1, 2} \/ k = 4 \/ k = 6 \/ k = 10 \/ k \in {11, 12} \/ k \in {3, 5, 7, 8, 9, 13, 14}
    OBVIOUS
  <1> HIDE DEF c1, c2, g1, g2, test, s, G, p
  <1>9. /\ s[1] = c1 /\ s[2] = c2 /\ s[3] = Barrier /\ s[4] = g1 /\ s[5] = Barrier /\ s[6] = g2 /\ s[7] = Barrier
        /\ s[8] = Barrier /\ s[9] = Barrier /\ s[10] = test /\ s[11] = Close(table_mr) /\ s[12] = Close(auth_mr)
        /\ s[13] = Barrier /\ s[14] = Barrier
    BY <1>1
  <1>10. ASSUME NEW k \in 1 .. 14
         PROVE  /\ s[k].kind = "gather" => G[k + 1] = G[k] + 1 /\ s[k].name = Gathered(p, G[k] + 1)
                /\ s[k].kind # "gather" => G[k + 1] = G[k]
                /\ s[k].kind = "call" => G[k] < 4
                /\ s[k].name = "test" => s[k].kind = "step" /\ G[k] = Total(p)
    <2>1. ASSUME k \in {1, 2}
          PROVE  s[k].kind = "call" /\ s[k].name # "test" /\ G[k] = 2 /\ G[k + 1] = 2
      <3>1. G[1] = 2 /\ G[1 + 1] = 2 /\ G[2] = 2 /\ G[2 + 1] = 2
        BY <1>7
      <3>2. k = 1 \/ k = 2
        BY <2>1
      <3> QED
        BY <1>2, <1>9, <3>1, <3>2
    <2>2. ASSUME k = 4
          PROVE  s[k] = g1 /\ G[k] = 2 /\ G[k + 1] = 3 /\ G[k] + 1 = 3
      <3>1. G[4] = 2 /\ G[4 + 1] = 3 /\ 2 + 1 = 3
        BY <1>7
      <3> QED
        BY <1>9, <2>2, <3>1
    <2>3. ASSUME k = 6
          PROVE  s[k] = g2 /\ G[k] = 3 /\ G[k + 1] = 4 /\ G[k] + 1 = 4
      <3>1. G[6] = 3 /\ G[6 + 1] = 4 /\ 3 + 1 = 4
        BY <1>7
      <3> QED
        BY <1>9, <2>3, <3>1
    <2>4. ASSUME k = 10
          PROVE  s[k] = test /\ G[k] = 4 /\ G[k + 1] = 4
      <3>1. G[10] = 4 /\ G[10 + 1] = 4
        BY <1>7
      <3> QED
        BY <1>9, <2>4, <3>1
    <2>5. ASSUME k \in {11, 12}
          PROVE  s[k].kind = "step" /\ s[k].name # "test" /\ G[k + 1] = G[k]
      <3>1. G[k] = 4 /\ G[k + 1] = 4
        BY <1>7, <2>5
      <3>2. \E h : s[k] = Close(h)
        BY <1>9, <2>5
      <3> QED
        BY <3>1, <3>2, QuietClose
    <2>6. ASSUME k \in {3, 5, 7, 8, 9, 13, 14}
          PROVE  s[k].kind = "barrier" /\ s[k].name # "test" /\ G[k + 1] = G[k]
      <3>1. s[k] = Barrier
        BY <1>9, <2>6
      <3>2. G[k + 1] = G[k]
        <4>1. k = 3 \/ k = 5 \/ (k \in 7 .. 15 /\ k + 1 \in 7 .. 15)
          BY <2>6
        <4>2. G[3] = 2 /\ G[3 + 1] = 2 /\ G[5] = 3 /\ G[5 + 1] = 3
          BY <1>7
        <4> QED
          BY <1>7, <4>1, <4>2
      <3> QED
        BY <3>1, <3>2, QuietBarrier
    <2>7. CASE k \in {1, 2}
      BY <2>1, <2>7
    <2>8. CASE k = 4 \/ k = 6
      BY <1>3, <1>4, <2>2, <2>3, <2>8
    <2>9. CASE k = 10
      BY <1>3, <1>4, <2>4, <2>9
    <2>10. CASE k \in {11, 12} \/ k \in {3, 5, 7, 8, 9, 13, 14}
      BY <2>5, <2>6, <2>10
    <2> QED
      BY <1>8, <2>7, <2>8, <2>9, <2>10
  <1>11. Len(s) + 1 = 15
    BY <1>5
  <1>12. Counts(p, s, 4, G)
    BY <1>5, <1>6, <1>10, <1>11, Zenon DEF Counts
  <1>13. CountsTo(p, s, 2, 4, 4, G)
    BY <1>6, <1>11, <1>12, Zenon DEF CountsTo
  <1> QED
    BY <1>13 DEF Numbered, s, p

(* random_access: keys and addresses of the table and the locks            *)
LEMMA NumberedAccessExchange ==
  ASSUME NEW p \in {"random_access", "random_access_drc"}
  PROVE  AccessExchange \in Seq(Steps) /\ Numbered(p, AccessExchange, 2, 6, 6)
  <1> DEFINE c1 == Call("fi_mr_reg table", {dom}, {table_mr}, <<>>)
             c2 == Call("fi_mr_reg lock", {dom}, {lock_mr}, <<>>)
             c3 == Call("fi_mr_reg scratch", {dom}, {scratch_mr}, <<>>)
             g1 == Gather("table_key", {}, {})
             g2 == Gather("lock_key", {}, {})
             g3 == Gather("table_addr", {}, {})
             g4 == Gather("lock_addr", {}, {})
             test == Do("test", AccessNeeds, {}, <<>>)
             s == AccessExchange
             G == [k \in 1 .. 20 |-> IF k <= 5 THEN 2 ELSE IF k <= 7 THEN 3 ELSE IF k <= 9 THEN 4
                                     ELSE IF k <= 12 THEN 5 ELSE 6]
  <1>1. s = <<c1, c2, c3, Barrier, g1, Barrier, g2, Barrier, g3, Barrier, Barrier, g4, Barrier, test,
              Close(lock_mr), Close(table_mr), Close(scratch_mr), Barrier, Barrier>>
    BY DEF AccessExchange
  <1>2. /\ c1.name # "test" /\ c2.name # "test" /\ c3.name # "test"
        /\ c1.kind = "call" /\ c2.kind = "call" /\ c3.kind = "call"
    BY Zenon DEF Call
  <1>3. /\ g1.kind = "gather" /\ g1.name = "table_key" /\ g2.kind = "gather" /\ g2.name = "lock_key"
        /\ g3.kind = "gather" /\ g3.name = "table_addr" /\ g4.kind = "gather" /\ g4.name = "lock_addr"
        /\ test.kind = "step" /\ test.name = "test"
    BY DEF Gather, Do
  <1>4. /\ Total(p) = 6 /\ Gathered(p, 3) = "table_key" /\ Gathered(p, 4) = "lock_key"
        /\ Gathered(p, 5) = "table_addr" /\ Gathered(p, 6) = "lock_addr"
    BY DEF Total, Gathered
  <1>5. s \in Seq(Steps) /\ Len(s) = 19
    BY AccessExchangeFacts
  <1>6. /\ G \in [1 .. 20 -> Nat] /\ G[1] = 2 /\ G[20] = 6
        /\ \A k \in 1 .. 20 : G[k] <= 6
    OBVIOUS
  <1>7. /\ \A k \in 1 .. 5 : G[k] = 2
        /\ \A k \in 6 .. 7 : G[k] = 3
        /\ \A k \in 8 .. 9 : G[k] = 4
        /\ \A k \in 10 .. 12 : G[k] = 5
        /\ \A k \in 13 .. 20 : G[k] = 6
    OBVIOUS
  <1>8. \A k \in 1 .. 19 : k \in {1, 2, 3} \/ k = 5 \/ k = 7 \/ k = 9 \/ k = 12 \/ k = 14 \/ k \in {15, 16, 17}
                           \/ k \in {4, 6, 8, 10, 11, 13, 18, 19}
    OBVIOUS
  <1> HIDE DEF c1, c2, c3, g1, g2, g3, g4, test, s, G
  <1>9. /\ s[1] = c1 /\ s[2] = c2 /\ s[3] = c3 /\ s[4] = Barrier /\ s[5] = g1 /\ s[6] = Barrier
        /\ s[7] = g2 /\ s[8] = Barrier /\ s[9] = g3 /\ s[10] = Barrier
    BY <1>1
  <1>10. /\ s[11] = Barrier /\ s[12] = g4 /\ s[13] = Barrier /\ s[14] = test /\ s[15] = Close(lock_mr)
         /\ s[16] = Close(table_mr) /\ s[17] = Close(scratch_mr) /\ s[18] = Barrier /\ s[19] = Barrier
    BY <1>1
  <1>11. ASSUME NEW k \in 1 .. 19
         PROVE  /\ s[k].kind = "gather" => G[k + 1] = G[k] + 1 /\ s[k].name = Gathered(p, G[k] + 1)
                /\ s[k].kind # "gather" => G[k + 1] = G[k]
                /\ s[k].kind = "call" => G[k] < 6
                /\ s[k].name = "test" => s[k].kind = "step" /\ G[k] = Total(p)
    <2>1. ASSUME k \in {1, 2, 3}
          PROVE  s[k].kind = "call" /\ s[k].name # "test" /\ G[k] = 2 /\ G[k + 1] = 2
      <3>1. k \in 1 .. 5 /\ k + 1 \in 1 .. 5
        BY <2>1
      <3>2. k = 1 \/ k = 2 \/ k = 3
        BY <2>1
      <3> QED
        BY <1>2, <1>7, <1>9, <3>1, <3>2
    <2>2. /\ G[5] = 2 /\ G[5 + 1] = 3 /\ G[7] = 3 /\ G[7 + 1] = 4 /\ G[9] = 4 /\ G[9 + 1] = 5
          /\ G[12] = 5 /\ G[12 + 1] = 6 /\ G[14] = 6 /\ G[14 + 1] = 6
      BY <1>7
    <2>3. 2 + 1 = 3 /\ 3 + 1 = 4 /\ 4 + 1 = 5 /\ 5 + 1 = 6
      OBVIOUS
    <2>5. ASSUME k \in {15, 16, 17}
          PROVE  s[k].kind = "step" /\ s[k].name # "test" /\ G[k + 1] = G[k]
      <3>1. G[k] = 6 /\ G[k + 1] = 6
        BY <1>7, <2>5
      <3>2. \E h : s[k] = Close(h)
        BY <1>10, <2>5
      <3> QED
        BY <3>1, <3>2, QuietClose
    <2>6. ASSUME k \in {4, 6, 8, 10, 11, 13, 18, 19}
          PROVE  s[k].kind = "barrier" /\ s[k].name # "test" /\ G[k + 1] = G[k]
      <3>1. s[k] = Barrier
        BY <1>9, <1>10, <2>6
      <3>2. G[k + 1] = G[k]
        <4>1. \/ k \in 1 .. 5 /\ k + 1 \in 1 .. 5
              \/ k \in 6 .. 7 /\ k + 1 \in 6 .. 7
              \/ k \in 8 .. 9 /\ k + 1 \in 8 .. 9
              \/ k \in 10 .. 12 /\ k + 1 \in 10 .. 12
              \/ k \in 13 .. 20 /\ k + 1 \in 13 .. 20
          BY <2>6
        <4> QED
          BY <1>7, <4>1
      <3> QED
        BY <3>1, <3>2, QuietBarrier
    <2>7. CASE k \in {1, 2, 3}
      BY <2>1, <2>7
    <2>8. CASE k = 5
      BY <1>3, <1>4, <1>9, <2>2, <2>3, <2>8
    <2>9. CASE k = 7
      BY <1>3, <1>4, <1>9, <2>2, <2>3, <2>9
    <2>10. CASE k = 9
      BY <1>3, <1>4, <1>9, <2>2, <2>3, <2>10
    <2>11. CASE k = 12
      BY <1>3, <1>4, <1>10, <2>2, <2>3, <2>11
    <2>12. CASE k = 14
      BY <1>3, <1>4, <1>10, <2>2, <2>12
    <2>13. CASE k \in {15, 16, 17} \/ k \in {4, 6, 8, 10, 11, 13, 18, 19}
      BY <2>5, <2>6, <2>13
    <2> QED
      BY <1>8, <2>7, <2>8, <2>9, <2>10, <2>11, <2>12, <2>13
  <1>12. Len(s) + 1 = 20
    BY <1>5
  <1>13. Counts(p, s, 6, G)
    BY <1>5, <1>6, <1>11, <1>12, Zenon DEF Counts
  <1>14. CountsTo(p, s, 2, 6, 6, G)
    BY <1>6, <1>12, <1>13, Zenon DEF CountsTo
  <1> QED
    BY <1>5, <1>14 DEF Numbered, s

(* fini_gnix_prov, and the first part with its credential                  *)
LEMMA QuietFiniProv == FiniProv \in Seq(Steps) /\ Quiet(FiniProv) /\ NoCalls(FiniProv)
  <1> DEFINE n == num_ranks
             ss == [q \in 1 .. n |-> FiniPeer(q - 1)]
             y == << CloseIfSet(av), CloseIfSet(dom), CloseIfSet(fab) >>
  <1>1. n \in Nat \ {0} /\ \A m \in 1 .. n : m - 1 \in Nat
    BY RankFacts
  <1>2. FiniProv = FlattenSeq(ss) \o y
    BY DEF FiniProv
  <1>3. \A m \in 1 .. n : ss[m] = FiniPeer(m - 1)
    OBVIOUS
  <1>4. ss \in [1 .. n -> Seq(Steps)]
    BY <1>1, FiniPeerFacts, Zenon
  <1>5. ASSUME NEW t \in Nat PROVE Quiet(FiniPeer(t))
    <2> DEFINE s == FiniPeer(t)
    <2>1. Len(s) = 3 /\ s[1] = Close(rcq(t)) /\ s[2] = Close(scq(t)) /\ s[3] = Close(ep(t))
      BY DEF FiniPeer
    <2>2. \A k \in 1 .. 3 : k = 1 \/ k = 2 \/ k = 3
      OBVIOUS
    <2> HIDE DEF s
    <2>3. \A k \in 1 .. Len(s) : \E h : s[k] = Close(h)
      BY <2>1, <2>2
    <2>4. Quiet(s)
      BY <2>3, QuietClose DEF Quiet
    <2> QED
      BY <2>4 DEF s
  <1>6. y \in Seq(Steps) /\ Quiet(y)
    <2>1. CloseIfSet(av) \in Steps /\ CloseIfSet(dom) \in Steps /\ CloseIfSet(fab) \in Steps
      BY CommonHandles, CloseFacts
    <2>2. y \in Seq(Steps) /\ Len(y) = 3 /\ y[1] = CloseIfSet(av) /\ y[2] = CloseIfSet(dom) /\ y[3] = CloseIfSet(fab)
      BY <2>1
    <2>3. \A k \in 1 .. 3 : k = 1 \/ k = 2 \/ k = 3
      OBVIOUS
    <2> HIDE DEF y
    <2>4. \A k \in 1 .. Len(y) : \E h : y[k] = CloseIfSet(h)
      BY <2>2, <2>3
    <2> QED
      BY <2>2, <2>4, QuietClose DEF Quiet
  <1> HIDE DEF ss, n, y
  <1>7. \A m \in 1 .. n : Quiet(ss[m])
    BY <1>1, <1>3, <1>5
  <1>8. FlattenSeq(ss) \in Seq(Steps) /\ Quiet(FlattenSeq(ss))
    BY <1>1, <1>4, <1>7, QuietFlatten, Zenon
  <1>9. Quiet(FlattenSeq(ss) \o y)
    BY <1>6, <1>8, QuietConcat
  <1>10. PeerHandles \subseteq PeerHandles
    OBVIOUS
  <1>11. FiniProv \in Seq(Steps) /\ NoCalls(FiniProv)
    BY <1>10, FiniProvFacts
  <1> QED
    BY <1>2, <1>9, <1>11

(* The credential is not gathered.                                         *)
LEMMA QuietCredential ==
  ASSUME NEW r
  PROVE  Quiet(CredentialSteps(r))
  <1> DEFINE s == CredentialSteps(r)
             b == AsHead(r)
  <1>1. /\ \A k \in 1 .. Len(s) : s[k].name =
             IF k = 3 + b THEN "drc_access" ELSE IF k = b THEN "drc_acquire" ELSE "ctpm_Barrier"
        /\ \A k \in 1 .. Len(s) : s[k].kind = IF k \in {b, 3 + b} THEN "call" ELSE "barrier"
    BY CredentialFacts
  <1> HIDE DEF s, b
  <1>2. \A k \in 1 .. Len(s) : s[k].name # "test" /\ s[k].kind # "gather"
    BY <1>1
  <1>3. Quiet(s)
    BY <1>2 DEF Quiet
  <1> QED
    BY <1>3 DEF s

(* the last part of random_access and auth_key_test                        *)
LEMMA NumberedLastSteps ==
  ASSUME NEW p \in {"random_access", "random_access_drc", "auth_key_test"}, NEW e \in Seq(Steps),
         Numbered(p, e, 2, Total(p), Total(p)), NEW more \in {<<>>, Release}
  PROVE  Numbered(p, LastSteps(e, more), 1, Total(p), Total(p))
  <1> DEFINE n == Total(p)
             a == <<Barrier>> \o Allocated
             f == FiniProv
             z == <<Barrier>>
  <1>1. n \in Nat /\ 1 \in Nat /\ 2 \in Nat
    BY TotalFacts
  <1>2. a \in Seq(Steps) /\ Numbered(p, a, 1, 2, n)
    BY <1>1, NumberedStart
  <1>3. f \in Seq(Steps) /\ Numbered(p, f, n, n, n)
    BY <1>1, QuietFiniProv, NumberedQuiet
  <1>4. z \in Seq(Steps) /\ Numbered(p, z, n, n, n)
    BY <1>1, NumberedBarriers
  <1>5. more \in Seq(Steps) /\ Numbered(p, more, n, n, n)
    <2>1. more \in Seq(Steps) /\ NoCalls(more)
      BY ReleaseFacts, Zenon
    <2>2. Quiet(more)
      <3>1. CASE more = <<>>
        BY <3>1 DEF Quiet
      <3>2. CASE more = Release
        <4>1. Len(Release) = 1 /\ Release[1].name = "drc_release" /\ Release[1].kind = "step"
          BY DEF Release, Do
        <4>2. \A k \in 1 .. 1 : k = 1
          OBVIOUS
        <4> QED
          BY <3>2, <4>1, <4>2 DEF Quiet
      <3> QED
        BY <3>1, <3>2
    <2> QED
      BY <1>1, <2>1, <2>2, NumberedQuiet
  <1>6. Numbered(p, e, 2, n, n)
    OBVIOUS
  <1>7. LastSteps(e, more) = (((a \o e) \o f) \o more) \o z \/ LastSteps(e, more) = ((a \o e) \o (f \o more)) \o z
    BY DEF LastSteps
  <1> HIDE DEF a, f, z, n
  <1>8. a \o e \in Seq(Steps) /\ Numbered(p, a \o e, 1, n, n)
    BY <1>1, <1>2, <1>6, NumberedConcat
  <1>9. (a \o e) \o f \in Seq(Steps) /\ Numbered(p, (a \o e) \o f, 1, n, n)
    BY <1>1, <1>3, <1>8, NumberedConcat, Zenon
  <1>10. ((a \o e) \o f) \o more \in Seq(Steps) /\ Numbered(p, ((a \o e) \o f) \o more, 1, n, n)
    BY <1>1, <1>5, <1>9, NumberedConcat, Zenon
  <1>11. Numbered(p, (((a \o e) \o f) \o more) \o z, 1, n, n)
    BY <1>1, <1>4, <1>10, NumberedConcat, Zenon
  <1>12. f \o more \in Seq(Steps) /\ Numbered(p, f \o more, n, n, n)
    BY <1>1, <1>3, <1>5, NumberedConcat
  <1>13. (a \o e) \o (f \o more) \in Seq(Steps) /\ Numbered(p, (a \o e) \o (f \o more), 1, n, n)
    BY <1>1, <1>8, <1>12, NumberedConcat, Zenon
  <1>14. Numbered(p, ((a \o e) \o (f \o more)) \o z, 1, n, n)
    BY <1>1, <1>4, <1>13, NumberedConcat, Zenon
  <1>15. Numbered(p, LastSteps(e, more), 1, n, n)
    BY <1>7, <1>11, <1>14, Zenon
  <1> QED
    BY <1>15 DEF n

(* random_access and auth_key_test                                         *)
LEMMA NumberedProviderProgram ==
  ASSUME NEW p \in {"random_access", "random_access_drc", "auth_key_test"}, NEW e \in Seq(Steps),
         Numbered(p, e, 2, Total(p), Total(p)),
         NEW more \in {<<>>, Release}, NEW how \in {"abort", "leave"}, NEW r, NEW drc \in BOOLEAN, NEW P,
         P = IF drc THEN <<Part(how, CredentialSteps(r)), InitProv, Part("abort", LastSteps(e, more))>>
             ELSE <<InitProv, Part("abort", LastSteps(e, more))>>
  PROVE  \E B : Numbering(p, P, B)
  <1> DEFINE n == Total(p)
             s == CredentialSteps(r)
             u == InitProv.steps
             z == LastSteps(e, more)
             X == Part(how, s)
             Y == InitProv
             Z == Part("abort", z)
  <1>1. n \in Nat /\ n > 0 /\ 0 \in Nat /\ 1 \in Nat /\ 1 <= n /\ n <= n /\ 0 <= n
    BY TotalFacts
  <1>2. Numbered(p, s, 0, 0, n)
    <2>1. s \in Seq(Steps)
      BY CredentialFacts
    <2>2. 0 < n
      BY <1>1
    <2> QED
      BY <1>1, <2>1, <2>2, QuietCredential, NumberedQuiet
  <1>3. Numbered(p, u, 0, 1, 1)
    BY NumberedInitProv
  <1>4. Numbered(p, z, 1, n, n)
    BY NumberedLastSteps
  <1>5. X.steps = s /\ X.on_error # "next" /\ Z.steps = z /\ Z.on_error # "next"
    BY DEF Part
  <1>6. Y.steps = u /\ Y.on_error = "next"
    BY DEF InitProv, Part
  <1>7. P = IF drc THEN <<X, Y, Z>> ELSE <<Y, Z>>
    OBVIOUS
  <1> HIDE DEF X, Y, Z, s, u, z, n
  <1>8. CASE drc
    <2> DEFINE B == <<0, 0, 1, n>>
    <2>1. Len(P) = 3 /\ P[1] = X /\ P[2] = Y /\ P[3] = Z
      BY <1>7, <1>8
    <2>2. B \in [1 .. 4 -> Nat] /\ B[1] = 0 /\ B[2] = 0 /\ B[3] = 1 /\ B[4] = n
      BY <1>1
    <2> HIDE DEF B
    <2>3. Len(P) + 1 = 4 /\ \A i \in 1 .. Len(P) : i = 1 \/ i = 2 \/ i = 3
      BY <2>1
    <2>4. Limit(p, P, 1, 0) = n /\ Limit(p, P, 2, 1) = 1 /\ Limit(p, P, 3, n) = n
      BY <1>5, <1>6, <2>1 DEF Limit, n
    <2>5. 1 + 1 = 2 /\ 2 + 1 = 3 /\ 3 + 1 = 4
      OBVIOUS
    <2> DEFINE Good(i) == Numbered(p, P[i].steps, B[i], B[i + 1], Limit(p, P, i, B[i + 1])) /\ B[i + 1] <= n
    <2>6. Good(1) /\ Good(2) /\ Good(3)
      BY <1>1, <1>2, <1>3, <1>4, <1>5, <1>6, <2>1, <2>2, <2>4, <2>5
    <2>7. \A i \in 1 .. Len(P) : Good(i)
      <3> HIDE DEF Good
      <3> QED
        BY <2>3, <2>6
    <2>8. Numbering(p, P, B)
      BY <2>2, <2>3, <2>7, Zenon DEF Numbering, n
    <2> QED
      BY <2>8
  <1>9. CASE ~drc
    <2> DEFINE B == <<0, 1, n>>
    <2>1. Len(P) = 2 /\ P[1] = Y /\ P[2] = Z
      BY <1>7, <1>9
    <2>2. B \in [1 .. 3 -> Nat] /\ B[1] = 0 /\ B[2] = 1 /\ B[3] = n
      BY <1>1
    <2> HIDE DEF B
    <2>3. Len(P) + 1 = 3 /\ \A i \in 1 .. Len(P) : i = 1 \/ i = 2
      BY <2>1
    <2>4. Limit(p, P, 1, 1) = 1 /\ Limit(p, P, 2, n) = n
      BY <1>5, <1>6, <2>1 DEF Limit, n
    <2>5. 1 + 1 = 2 /\ 2 + 1 = 3
      OBVIOUS
    <2> DEFINE Good(i) == Numbered(p, P[i].steps, B[i], B[i + 1], Limit(p, P, i, B[i + 1])) /\ B[i + 1] <= n
    <2>6. Good(1) /\ Good(2)
      BY <1>1, <1>3, <1>4, <1>5, <1>6, <2>1, <2>2, <2>4, <2>5
    <2>7. \A i \in 1 .. Len(P) : Good(i)
      <3> HIDE DEF Good
      <3> QED
        BY <2>3, <2>6
    <2>8. Numbering(p, P, B)
      BY <2>2, <2>3, <2>7, Zenon DEF Numbering, n
    <2> QED
      BY <2>8
  <1> QED
    BY <1>8, <1>9, Zenon

(* Three sequences, one after another                                      *)
LEMMA TripleConcat ==
  ASSUME NEW a, NEW b, NEW c
  PROVE  <<a>> \o <<b, c>> = <<a, b, c>> /\ <<>> \o <<b, c>> = <<b, c>>
  <1> DEFINE Q == {a, b, c}
             s == <<a>>
             t == <<b, c>>
             u == <<a, b, c>>
  <1>1. s \in Seq(Q) /\ t \in Seq(Q) /\ u \in Seq(Q) /\ Len(s) = 1 /\ Len(t) = 2 /\ Len(u) = 3
    OBVIOUS
  <1>2. /\ s[1] = a /\ t[1] = b /\ t[2] = c /\ u[1] = a /\ u[2] = b /\ u[3] = c
    OBVIOUS
  <1> HIDE DEF Q, s, t, u
  <1>3. /\ s \o t \in Seq(Q) /\ Len(s \o t) = Len(s) + Len(t)
        /\ \A i \in 1 .. Len(s) + Len(t) : (s \o t)[i] = IF i <= Len(s) THEN s[i] ELSE t[i - Len(s)]
    BY <1>1, ConcatProperties, ZenonT(60)
  <1>4. /\ Len(s \o t) = 3
        /\ \A i \in 1 .. 3 : (s \o t)[i] = IF i <= 1 THEN s[i] ELSE t[i - 1]
    BY <1>1, <1>3
  <1>5. \A k \in 1 .. 3 : (s \o t)[k] = u[k]
    <2>1. (s \o t)[1] = s[1] /\ (s \o t)[2] = t[2 - 1] /\ (s \o t)[3] = t[3 - 1]
      BY <1>4
    <2>2. 2 - 1 = 1 /\ 3 - 1 = 2 /\ \A k \in 1 .. 3 : k = 1 \/ k = 2 \/ k = 3
      OBVIOUS
    <2> QED
      BY <1>2, <2>1, <2>2, Zenon
  <1>6. s \o t = u
    BY <1>1, <1>3, <1>4, <1>5, SeqEqual
  <1>7. <<>> \o t = t
    BY <1>1, ConcatEmptySeq
  <1> QED
    BY <1>6, <1>7 DEF s, t, u

(* random_access, with or without a credential                             *)
LEMMA NumberedAccessProgram ==
  ASSUME NEW p \in {"random_access", "random_access_drc"}, NEW r
  PROVE  \E B : Numbering(p, AccessProgram(p, r), B)
  <1> DEFINE e == AccessExchange
             drc == p = "random_access_drc"
             more == IF drc THEN Release ELSE <<>>
             z == LastSteps(e, more)
             P == AccessProgram(p, r)
             X == Part("abort", CredentialSteps(r))
             Z == Part("abort", z)
  <1>1. AccessTest = (<<Barrier>> \o Allocated) \o e
    BY Zenon DEF AccessTest, AccessExchange, AccessNeeds
  <1>2. P = (IF drc THEN <<X>> ELSE <<>>)
              \o <<InitProv, Part("abort", AccessTest \o FiniProv \o more \o <<Barrier>>)>>
    BY Zenon DEF AccessProgram, CredentialSteps
  <1>3. e \in Seq(Steps) /\ Numbered(p, e, 2, Total(p), Total(p))
    <2>1. Total(p) = 6
      BY DEF Total
    <2> QED
      BY <2>1, NumberedAccessExchange
  <1>4. more \in {<<>>, Release} /\ drc \in BOOLEAN
    OBVIOUS
  <1> HIDE DEF e
  <1>5. AccessTest \o FiniProv \o more \o <<Barrier>> = z
    BY <1>1 DEF LastSteps
  <1>6. P = (IF drc THEN <<X>> ELSE <<>>) \o <<InitProv, Z>>
    BY <1>2, <1>5, Zenon
  <1> HIDE DEF drc, more, X, Z, P
  <1>7. P = IF drc THEN <<X, InitProv, Z>> ELSE <<InitProv, Z>>
    <2>1. CASE drc
      BY <1>6, <2>1, TripleConcat, Zenon
    <2>2. CASE ~drc
      BY <1>6, <2>2, TripleConcat, Zenon
    <2> QED
      BY <2>1, <2>2
  <1>8. P = IF drc THEN <<Part("abort", CredentialSteps(r)), InitProv, Part("abort", LastSteps(e, more))>>
            ELSE <<InitProv, Part("abort", LastSteps(e, more))>>
    BY <1>7 DEF X, Z
  <1>9. p \in {"random_access", "random_access_drc", "auth_key_test"} /\ "abort" \in {"abort", "leave"}
    OBVIOUS
  <1>10. \E B : Numbering(p, P, B)
    BY <1>3, <1>4, <1>8, <1>9, NumberedProviderProgram
  <1> QED
    BY <1>10 DEF P

(* auth_key_test                                                           *)
LEMMA NumberedAuthProgram ==
  ASSUME NEW r
  PROVE  \E B : Numbering("auth_key_test", AuthProgram(r), B)
  <1> DEFINE e == AuthExchange
             more == IF r = 0 THEN Release ELSE <<>>
             P == AuthProgram(r)
  <1>1. P = << Part("leave", CredentialSteps(r)), InitProv, Part("abort", LastSteps(e, more)) >>
    BY AuthProgramIs DEF AuthSteps
  <1>2. e \in Seq(Steps) /\ Numbered("auth_key_test", e, 2, Total("auth_key_test"), Total("auth_key_test"))
    <2>1. Total("auth_key_test") = 4
      BY DEF Total
    <2> QED
      BY <2>1, NumberedAuthExchange, AuthExchangeFacts
  <1>3. more \in {<<>>, Release}
    OBVIOUS
  <1> HIDE DEF e, more, P
  <1>4. "auth_key_test" \in {"random_access", "random_access_drc", "auth_key_test"} /\ "leave" \in {"abort", "leave"}
        /\ TRUE \in BOOLEAN
    OBVIOUS
  <1>5. P = IF TRUE THEN << Part("leave", CredentialSteps(r)), InitProv, Part("abort", LastSteps(e, more)) >>
            ELSE << InitProv, Part("abort", LastSteps(e, more)) >>
    BY <1>1
  <1>6. \E B : Numbering("auth_key_test", P, B)
    BY <1>2, <1>3, <1>4, <1>5, NumberedProviderProgram, Zenon
  <1> QED
    BY <1>6 DEF P

-----------------------------------------------------------------------------
(* The allgathers of a program before each of its steps, on a rank         *)
CountOf(p, r) == CHOOSE C : IsCount(p, Code[p][r], C)

(* Each program has its count, on every rank.                              *)
LEMMA CountOfCode ==
  ASSUME NEW p \in AllPrograms, NEW r \in Ranks
  PROVE  IsCount(p, Code[p][r], CountOf(p, r))
  <1> DEFINE P == Code[p][r]
  <1>1. P \in Seq(Parts) /\ Len(P) > 0
    BY EveryProgramSound DEF Sound, WellMade
  <1>2. \E B : Numbering(p, P, B)
    <2>1. CASE p \in {"rdm_one_sided", "rdm_pingpong"}
      <3>1. P = ThreadProgram(p, r)
        BY <2>1 DEF Code
      <3> QED
        BY <2>1, <3>1, NumberedThreadProgram
    <2>2. CASE p \in {"rdm_mbw_mr", "rdm_mbw_mr_cntr"}
      <3>1. P = MbwProgram(p)
        BY <2>2 DEF Code
      <3> QED
        BY <2>2, <3>1, NumberedMbwProgram
    <2>3. CASE p \in {"random_access", "random_access_drc"}
      <3>1. P = AccessProgram(p, r)
        BY <2>3 DEF Code
      <3> QED
        BY <2>3, <3>1, NumberedAccessProgram
    <2>4. CASE p = "auth_key_test"
      <3>1. P = AuthProgram(r)
        BY <2>4 DEF Code
      <3> QED
        BY <2>4, <3>1, NumberedAuthProgram
    <2> QED
      BY <2>1, <2>2, <2>3, <2>4 DEF AllPrograms
  <1> HIDE DEF P
  <1>3. \E C : IsCount(p, P, C)
    BY <1>1, <1>2, CountExists
  <1> QED
    BY <1>3 DEF CountOf, P

-----------------------------------------------------------------------------
(* What a rank has put                                                     *)

(* A failure that the others notice: one that keeps a rank from a gather   *)
Noticed(f) == ~(ToSet(f) \subseteq Unnoticed)

(* A rank with g allgathers behind it, and over more if it is inside one   *)
(* or has stopped there, has put l, the ranks first.  With a failure that  *)
(* is noticed it stays behind by one at least; without any it does not.    *)
(* If it is not behind, it has put all in their places.                    *)
SentN(p, g, over, running, l, f) ==
  LET m == Len(l)
  IN  /\ m <= 1 + g + over
      /\ over = 1 /\ running => m >= 1
      /\ Noticed(f) => IF running THEN g >= 1 /\ m <= g + over ELSE m <= Total(p)
      /\ f = <<>> /\ running /\ g > 0 => m >= 1 + g + over
      /\ m >= 1 => l[1] = "ranks"
      /\ m >= 1 + g + over => \A j \in 2 .. m : l[j] = Gathered(p, j - 1)

(* A failure more is noticed if it is, or if an earlier one was.           *)
LEMMA NoticedAppend ==
  ASSUME NEW f \in Seq(Names), NEW x \in Names
  PROVE  Noticed(Append(f, x)) => Noticed(f) \/ x \notin Unnoticed
  <1>1. ASSUME NEW y \in ToSet(Append(f, x)) PROVE y = x \/ y \in ToSet(f)
    <2>1. PICK k \in 1 .. Len(Append(f, x)) : y = Append(f, x)[k]
      BY DEF ToSet
    <2>2. Len(Append(f, x)) = Len(f) + 1 /\ Append(f, x)[Len(f) + 1] = x
          /\ \A j \in 1 .. Len(f) : Append(f, x)[j] = f[j]
      OBVIOUS
    <2>3. k \in 1 .. Len(f) \/ k = Len(f) + 1
      BY <2>2
    <2> QED
      BY <2>1, <2>2, <2>3 DEF ToSet
  <1> QED
    BY <1>1 DEF Noticed

(* Entering an allgather,                                                  *)
LEMMA EnterSent ==
  ASSUME NEW p, NEW g \in Nat, NEW l \in Seq(Labels), NEW f, SentN(p, g, 0, TRUE, l, f), NEW label \in Labels,
         label = IF l = <<>> THEN "ranks" ELSE Gathered(p, g + 1)
  PROVE  SentN(p, g, 1, TRUE, Append(l, label), f)
  <1> DEFINE m == Len(l)
             l2 == Append(l, label)
  <1>1. /\ m \in Nat /\ Len(l2) = m + 1 /\ l2[m + 1] = label
        /\ \A j \in 1 .. m : l2[j] = l[j]
    OBVIOUS
  <1>2. /\ m <= 1 + g + 0
        /\ Noticed(f) => g >= 1 /\ m <= g + 0
        /\ f = <<>> /\ g > 0 => m >= 1 + g + 0
        /\ m >= 1 => l[1] = "ranks"
        /\ m >= 1 + g + 0 => \A j \in 2 .. m : l[j] = Gathered(p, j - 1)
    BY DEF SentN
  <1>3. l = <<>> <=> m = 0
    OBVIOUS
  <1> HIDE DEF m, l2
  <1>4. m + 1 >= 1 => l2[1] = "ranks"
    <2>1. CASE m = 0
      BY <1>1, <1>3, <2>1
    <2>2. CASE m # 0
      <3>1. 1 \in 1 .. m /\ m >= 1
        BY <1>1, <2>2
      <3> QED
        BY <1>1, <1>2, <3>1
    <2> QED
      BY <2>1, <2>2
  <1>5. ASSUME m + 1 >= 1 + g + 1, NEW j \in 2 .. m + 1 PROVE l2[j] = Gathered(p, j - 1)
    <2>1. m = 1 + g
      BY <1>1, <1>2, <1>5
    <2>2. CASE j = m + 1
      <3>1. l # <<>> /\ j - 1 = g + 1
        BY <1>1, <1>3, <2>1, <2>2
      <3> QED
        BY <1>1, <2>2, <3>1
    <2>3. CASE j # m + 1
      <3>1. j \in 2 .. m /\ j \in 1 .. m /\ m >= 1 + g + 0
        BY <1>1, <2>1, <2>3
      <3> QED
        BY <1>1, <1>2, <3>1
    <2> QED
      BY <2>2, <2>3
  <1>6. /\ m + 1 <= 1 + g + 1
        /\ m + 1 >= 1
        /\ Noticed(f) => g >= 1 /\ m + 1 <= g + 1
        /\ f = <<>> /\ g > 0 => m + 1 >= 1 + g + 1
    BY <1>1, <1>2
  <1>7. SentN(p, g, 1, TRUE, l2, f)
    BY <1>1, <1>4, <1>5, <1>6 DEF SentN
  <1> QED
    BY <1>7, Zenon DEF l2

(* leaving it: the first is followed by a second, for the data,            *)
LEMMA LeaveSent ==
  ASSUME NEW p, NEW g \in Nat, NEW l \in Seq(Labels), NEW f, SentN(p, g, 1, TRUE, l, f)
  PROVE  /\ Len(l) >= 1
         /\ Len(l) = 1 => SentN(p, g, 0, TRUE, l, f)
         /\ Len(l) # 1 => SentN(p, g + 1, 0, TRUE, l, f)
  <1> DEFINE m == Len(l)
  <1>1. m \in Nat
    OBVIOUS
  <1>2. /\ m <= 1 + g + 1 /\ m >= 1
        /\ Noticed(f) => g >= 1 /\ m <= g + 1
        /\ f = <<>> /\ g > 0 => m >= 1 + g + 1
        /\ l[1] = "ranks"
        /\ m >= 1 + g + 1 => \A j \in 2 .. m : l[j] = Gathered(p, j - 1)
    BY <1>1 DEF SentN
  <1> HIDE DEF m
  <1>3. ASSUME m = 1 PROVE SentN(p, g, 0, TRUE, l, f)
    <2>1. /\ m <= 1 + g + 0
          /\ Noticed(f) => g >= 1 /\ m <= g + 0
          /\ f = <<>> /\ g > 0 => m >= 1 + g + 0
      BY <1>1, <1>2, <1>3
    <2>2. \A j \in 2 .. m : FALSE
      BY <1>3
    <2> QED
      BY <1>2, <2>1, <2>2 DEF SentN, m
  <1>4. ASSUME m # 1 PROVE SentN(p, g + 1, 0, TRUE, l, f)
    <2>1. /\ m <= 1 + (g + 1) + 0
          /\ Noticed(f) => g + 1 >= 1 /\ m <= (g + 1) + 0
          /\ f = <<>> /\ g + 1 > 0 => m >= 1 + (g + 1) + 0
          /\ m >= 1 + (g + 1) + 0 => m >= 1 + g + 1
      BY <1>1, <1>2, <1>4
    <2> QED
      BY <1>2, <2>1 DEF SentN, m
  <1> QED
    BY <1>1, <1>2, <1>3, <1>4, Zenon DEF m

(* stopping,                                                               *)
LEMMA StopSent ==
  ASSUME NEW p, NEW g \in Nat, NEW over \in {0, 1}, NEW over2 \in {0, 1}, over <= over2, g + over <= Total(p),
         NEW l \in Seq(Labels), NEW f, SentN(p, g, over, TRUE, l, f)
  PROVE  SentN(p, g, over2, FALSE, l, f)
  <1> DEFINE m == Len(l)
  <1>1. m \in Nat /\ Total(p) \in Nat
    BY TotalFacts
  <1>2. /\ m <= 1 + g + over
        /\ Noticed(f) => m <= g + over
        /\ m >= 1 => l[1] = "ranks"
        /\ m >= 1 + g + over => \A j \in 2 .. m : l[j] = Gathered(p, j - 1)
    BY DEF SentN
  <1> HIDE DEF m
  <1>3. /\ m <= 1 + g + over2
        /\ Noticed(f) => m <= Total(p)
        /\ m >= 1 + g + over2 => m >= 1 + g + over
    BY <1>1, <1>2
  <1> QED
    BY <1>2, <1>3 DEF SentN, m

(* and failing: what holds of what has been put                            *)
LEMMA FailSent ==
  ASSUME NEW p, NEW g \in Nat, NEW l \in Seq(Labels), NEW f \in Seq(Names), NEW x \in Names,
         SentN(p, g, 0, TRUE, l, f), g <= Total(p)
  PROVE  /\ (x \notin Unnoticed => g < Total(p)) => SentN(p, g, 0, FALSE, l, Append(f, x))
         /\ \A g2 \in Nat : g <= g2 /\ (x \notin Unnoticed => g < g2) => SentN(p, g2, 0, TRUE, l, Append(f, x))
  <1> DEFINE m == Len(l)
             f2 == Append(f, x)
  <1>1. m \in Nat /\ Total(p) \in Nat
    BY TotalFacts
  <1>2. /\ m <= 1 + g + 0
        /\ Noticed(f) => g >= 1 /\ m <= g + 0
        /\ m >= 1 => l[1] = "ranks"
        /\ m >= 1 + g + 0 => \A j \in 2 .. m : l[j] = Gathered(p, j - 1)
    BY DEF SentN
  <1>3. f2 # <<>> /\ (Noticed(f2) => Noticed(f) \/ x \notin Unnoticed)
    BY NoticedAppend
  <1> HIDE DEF m, f2
  <1>4. ASSUME x \notin Unnoticed => g < Total(p) PROVE SentN(p, g, 0, FALSE, l, f2)
    <2>1. Noticed(f2) => m <= Total(p)
      BY <1>1, <1>2, <1>3, <1>4
    <2> QED
      BY <1>2, <2>1 DEF SentN, m
  <1>5. ASSUME NEW g2 \in Nat, g <= g2, x \notin Unnoticed => g < g2 PROVE SentN(p, g2, 0, TRUE, l, f2)
    <2>1. /\ m <= 1 + g2 + 0
          /\ Noticed(f2) => g2 >= 1 /\ m <= g2 + 0
          /\ m >= 1 + g2 + 0 => m >= 1 + g + 0
      BY <1>1, <1>2, <1>3, <1>5
    <2> QED
      BY <1>2, <1>3, <2>1 DEF SentN, m
  <1> QED
    BY <1>4, <1>5, Zenon DEF f2

(* Where a rank is among the allgathers                                    *)
LEMMA CountPlace ==
  ASSUME NEW p \in AllPrograms, NEW r \in Ranks, NEW i \in 1 .. Len(Code[p][r]),
         NEW k \in 1 .. Len(Code[p][r][i].steps)
  PROVE  LET P == Code[p][r]
             n == Len(P[i].steps)
             x == P[i].steps[k]
             C == CountOf(p, r)
             g == C[i][k]
             g2 == g + Flag(x.kind = "gather")
         IN  /\ g \in Nat /\ g2 \in Nat /\ g2 <= Total(p) /\ g <= g2
             /\ x.kind = "gather" => x.name = Gathered(p, g + 1)
             /\ x.kind = "call" /\ x.name \notin Unnoticed => g < Total(p)
             /\ x.name = "test" => x.kind = "step" /\ g = Total(p)
             /\ k # n => C[i][k + 1] = g2
             /\ k = n /\ i # Len(P) => C[i + 1][1] = g2
             /\ i # Len(P) => C[i + 1][1] \in Nat /\ g <= C[i + 1][1]
             /\ i # Len(P) /\ P[i].on_error = "next" /\ x.kind = "call" /\ x.name \notin Unnoticed =>
                  g < C[i + 1][1]
  <1> DEFINE P == Code[p][r]
             s == P[i].steps
             n == Len(s)
             x == s[k]
             C == CountOf(p, r)
             F == C[i]
             g == F[k]
             b == Flag(x.kind = "gather")
             e == LastOf(P, C, i)
             c == Limit(p, P, i, e)
             T == Total(p)
  <1>1. IsCount(p, P, C)
    BY CountOfCode
  <1>2. /\ CountsTo(p, s, F[1], e, c, F) /\ e <= T
        /\ i # Len(P) => C[i + 1][1] = e
    BY <1>1 DEF IsCount
  <1>3. n \in Nat /\ T \in Nat /\ k \in 1 .. n + 1 /\ k + 1 \in 1 .. n + 1 /\ n + 1 \in 1 .. n + 1 /\ k \in 1 .. n
    <2>1. Sound(p, P)
      BY EveryProgramSound
    <2>2. n \in Nat
      BY <2>1, SoundFacts
    <2> HIDE DEF n
    <2>3. k \in 1 .. n
      BY DEF n
    <2> QED
      BY <2>2, <2>3, TotalFacts
  <1>4. e = F[n + 1]
    BY DEF LastOf
  <1> HIDE DEF P, C, F, s, x, e, n, b
  <1>5. /\ F \in [1 .. n + 1 -> Nat] /\ \A j \in 1 .. n + 1 : F[j] <= e
        /\ x.kind = "gather" => F[k + 1] = F[k] + 1 /\ x.name = Gathered(p, F[k] + 1)
        /\ x.kind # "gather" => F[k + 1] = F[k]
        /\ x.kind = "call" /\ x.name \notin Unnoticed => F[k] < c
        /\ x.name = "test" => x.kind = "step" /\ F[k] = T
    BY <1>2, <1>3, Zenon DEF CountsTo, Counts, n, x
  <1>6. c = IF P[i].on_error = "next" THEN e ELSE T
    BY DEF Limit
  <1>7. b \in {0, 1} /\ F[k + 1] = F[k] + b
    <2>1. F[k] \in Nat
      BY <1>3, <1>5
    <2>2. CASE x.kind = "gather"
      BY <1>5, <2>2 DEF b, Flag
    <2>3. CASE x.kind # "gather"
      BY <1>5, <2>1, <2>3 DEF b, Flag
    <2> QED
      BY <2>2, <2>3
  <1>8. g \in Nat /\ F[k + 1] \in Nat /\ F[k + 1] <= e /\ e \in Nat /\ g <= e
    BY <1>3, <1>4, <1>5
  <1>9. /\ g + b \in Nat /\ g + b <= T /\ g <= g + b
        /\ x.kind = "call" /\ x.name \notin Unnoticed => g < T
        /\ P[i].on_error = "next" /\ x.kind = "call" /\ x.name \notin Unnoticed => g < e
    BY <1>2, <1>3, <1>5, <1>6, <1>7, <1>8
  <1>10. k # n => F[k + 1] = g + b
    BY <1>7
  <1>11. k = n /\ i # Len(P) => C[i + 1][1] = g + b
    BY <1>2, <1>4, <1>7
  <1>12. i # Len(P) => C[i + 1][1] \in Nat /\ g <= C[i + 1][1]
    BY <1>2, <1>8, Zenon
  <1>13. i # Len(P) /\ P[i].on_error = "next" /\ x.kind = "call" /\ x.name \notin Unnoticed => g < C[i + 1][1]
    BY <1>2, <1>9
  <1> QED
    BY <1>5, <1>8, <1>9, <1>10, <1>11, <1>12, <1>13, Zenon DEF P, C, F, s, x, n, b, T

(* A rank of p at step k of part i, with its status and whether it is      *)
(* inside a collective, has put l; the calls f have failed.                *)
SentIn(p, r, i, k, st, within, l, f) ==
  SentN(p, CountOf(p, r)[i][k], Flag(Code[p][r][i].steps[k].kind = "gather" /\ (within \/ st # "run")),
        st = "run", l, f)
SentHere(r) == SentIn(prog, r, at[r][1], at[r][2], status[r], in[r], sent[r], failed[r])
Inside(r) == in[r] => status[r] = "run" /\ TheStep(r).kind \in {"barrier", "gather"}

(* What this says inside a collective, outside, and after the end          *)
LEMMA SentInIs ==
  ASSUME NEW p, NEW r, NEW i, NEW k, NEW l, NEW f
  PROVE  LET g == CountOf(p, r)[i][k]
             b == Flag(Code[p][r][i].steps[k].kind = "gather")
         IN  /\ SentIn(p, r, i, k, "run", FALSE, l, f) <=> SentN(p, g, 0, TRUE, l, f)
             /\ SentIn(p, r, i, k, "run", TRUE, l, f) <=> SentN(p, g, b, TRUE, l, f)
             /\ \A st, within : st # "run" => (SentIn(p, r, i, k, st, within, l, f) <=> SentN(p, g, b, FALSE, l, f))
  <1> DEFINE g == CountOf(p, r)[i][k]
             kind == Code[p][r][i].steps[k].kind
             b == Flag(kind = "gather")
  <1>1. ASSUME NEW st, NEW within
        PROVE  SentIn(p, r, i, k, st, within, l, f)
                 <=> SentN(p, g, Flag(kind = "gather" /\ (within \/ st # "run")), st = "run", l, f)
    BY DEF SentIn
  <1> HIDE DEF g, kind
  <1>2. /\ Flag(kind = "gather" /\ (FALSE \/ "run" # "run")) = 0
        /\ Flag(kind = "gather" /\ (TRUE \/ "run" # "run")) = b
        /\ \A st, within : st # "run" => Flag(kind = "gather" /\ (within \/ st # "run")) = b
    BY DEF Flag
  <1>3. /\ SentIn(p, r, i, k, "run", FALSE, l, f) <=> SentN(p, g, 0, TRUE, l, f)
        /\ SentIn(p, r, i, k, "run", TRUE, l, f) <=> SentN(p, g, b, TRUE, l, f)
    BY <1>1, <1>2, Zenon DEF SentN
  <1>4. ASSUME NEW st, NEW within, st # "run"
        PROVE  SentIn(p, r, i, k, st, within, l, f) <=> SentN(p, g, b, FALSE, l, f)
    <2>1. SentIn(p, r, i, k, st, within, l, f) <=> SentN(p, g, b, st = "run", l, f)
      BY <1>1, <1>2, <1>4, Zenon
    <2>2. SentN(p, g, b, st = "run", l, f) <=> SentN(p, g, b, FALSE, l, f)
      BY <1>4 DEF SentN
    <2> QED
      BY <2>1, <2>2, Zenon
  <1> QED
    BY <1>3, <1>4, Zenon DEF g, kind

(* The count at the place of a rank                                        *)
LEMMA PlaceCount ==
  ASSUME Typed, NEW r \in Ranks
  PROVE  LET P == Code[prog][r]
             i == at[r][1]
             k == at[r][2]
             x == TheStep(r)
             n == Len(P[i].steps)
             C == CountOf(prog, r)
             g == C[i][k]
             b == Flag(x.kind = "gather")
         IN  /\ g \in Nat /\ b \in {0, 1} /\ g + b \in Nat /\ g + b <= Total(prog) /\ g <= g + b
             /\ Total(prog) \in Nat /\ Total(prog) > 0
             /\ x.kind = "gather" => x.name = Gathered(prog, g + 1)
             /\ x.kind = "call" /\ x.name \notin Unnoticed => g < Total(prog)
             /\ x.name = "test" => x.kind = "step" /\ g = Total(prog)
             /\ k # n => C[i][k + 1] = g + b
             /\ k = n /\ i # Len(P) => C[i + 1][1] = g + b
             /\ i # Len(P) => C[i + 1][1] \in Nat /\ g <= C[i + 1][1]
             /\ i # Len(P) /\ P[i].on_error = "next" /\ x.kind = "call" /\ x.name \notin Unnoticed =>
                  g < C[i + 1][1]
             /\ sent[r] \in Seq(Labels) /\ failed[r] \in Seq(Names) /\ in[r] \in BOOLEAN
             /\ x \in Steps /\ x.name \in Names /\ x.kind \in Kinds /\ x = P[i].steps[k]
             /\ ThePart(r) = P[i]
  <1> DEFINE P == Code[prog][r]
             i == at[r][1]
             k == at[r][2]
             x == P[i].steps[k]
  <1>1. /\ prog \in AllPrograms /\ sent[r] \in Seq(Labels) /\ failed[r] \in Seq(Names) /\ in[r] \in BOOLEAN
    BY DEF Typed
  <1>2. i \in 1 .. Len(P) /\ k \in 1 .. Len(P[i].steps) /\ TheStep(r) = x /\ ThePart(r) = P[i] /\ x \in Steps
    BY PlaceFacts
  <1>3. x.name \in Names /\ x.kind \in Kinds
    BY <1>2, StepsItself, Zenon
  <1>4. Flag(x.kind = "gather") \in {0, 1}
    BY DEF Flag
  <1>5. Total(prog) \in Nat /\ Total(prog) > 0
    BY TotalFacts
  <1> HIDE DEF P, i, k, x
  <1> DEFINE y == TheStep(r)
  <1>6. y = x
    BY <1>2
  <1> HIDE DEF y
  <1>7. LET n == Len(P[i].steps)
            C == CountOf(prog, r)
            g == C[i][k]
            b == Flag(y.kind = "gather")
        IN  /\ g \in Nat /\ g + b \in Nat /\ g + b <= Total(prog) /\ g <= g + b
            /\ y.kind = "gather" => y.name = Gathered(prog, g + 1)
            /\ y.kind = "call" /\ y.name \notin Unnoticed => g < Total(prog)
            /\ y.name = "test" => y.kind = "step" /\ g = Total(prog)
            /\ k # n => C[i][k + 1] = g + b
            /\ k = n /\ i # Len(P) => C[i + 1][1] = g + b
            /\ i # Len(P) => C[i + 1][1] \in Nat /\ g <= C[i + 1][1]
            /\ i # Len(P) /\ P[i].on_error = "next" /\ y.kind = "call" /\ y.name \notin Unnoticed =>
                 g < C[i + 1][1]
    BY <1>1, <1>2, <1>6, CountPlace, Zenon DEF P, x
  <1>8. Flag(y.kind = "gather") \in {0, 1} /\ y \in Steps /\ y.name \in Names /\ y.kind \in Kinds
        /\ y = P[i].steps[k] /\ ThePart(r) = P[i]
    BY <1>2, <1>3, <1>4, <1>6 DEF x
  <1> QED
    BY <1>1, <1>5, <1>7, <1>8, Zenon DEF P, i, k, y

(* The next step, the next part, or the end of main                        *)
LEMMA GoesOnSent ==
  ASSUME Typed, NEW r \in Ranks, status[r] = "run", NextStep(r), prog' = prog, NEW l, NEW f,
         LET g == CountOf(prog, r)[at[r][1]][at[r][2]]
             b == Flag(TheStep(r).kind = "gather")
         IN  SentN(prog, g + b, 0, TRUE, l, f) /\ SentN(prog, g, b, FALSE, l, f)
  PROVE  SentIn(prog, r, at'[r][1], at'[r][2], status'[r], FALSE, l, f)
  <1> DEFINE P == Code[prog][r]
             i == at[r][1]
             k == at[r][2]
             n == Len(P[i].steps)
             C == CountOf(prog, r)
             g == C[i][k]
             b == Flag(TheStep(r).kind = "gather")
             S(i2, k2, st2) == SentIn(prog, r, i2, k2, st2, FALSE, l, f)
  <1>1. /\ k # n => at'[r] = <<i, k + 1>> /\ status'[r] = "run"
        /\ k = n /\ i # Len(P) => at'[r] = <<i + 1, 1>> /\ status'[r] = "run"
        /\ k = n /\ i = Len(P) => at'[r] = at[r] /\ status'[r] = "done"
    BY NextStepFacts
  <1>2. /\ k # n => C[i][k + 1] = g + b
        /\ k = n /\ i # Len(P) => C[i + 1][1] = g + b
        /\ TheStep(r) = P[i].steps[k]
    BY PlaceCount, Zenon
  <1>3. \A i2, k2 : S(i2, k2, "run") <=> SentN(prog, C[i2][k2], 0, TRUE, l, f)
    BY SentInIs, Zenon
  <1>4. S(i, k, "done") <=> SentN(prog, g, b, FALSE, l, f)
    <2>1. "done" # "run"
      OBVIOUS
    <2> QED
      BY <1>2, <2>1, SentInIs, Zenon
  <1>5. SentN(prog, g + b, 0, TRUE, l, f) /\ SentN(prog, g, b, FALSE, l, f)
    BY Zenon
  <1> HIDE DEF S, C, g, b, n, P
  <1>6. CASE k # n
    <2>1. at'[r][1] = i /\ at'[r][2] = k + 1 /\ status'[r] = "run"
      BY <1>1, <1>6
    <2>2. S(i, k + 1, "run")
      BY <1>2, <1>3, <1>5, <1>6, Zenon
    <2> QED
      BY <2>1, <2>2, Zenon DEF S
  <1>7. CASE k = n /\ i # Len(P)
    <2>1. at'[r][1] = i + 1 /\ at'[r][2] = 1 /\ status'[r] = "run"
      BY <1>1, <1>7
    <2>2. S(i + 1, 1, "run")
      BY <1>2, <1>3, <1>5, <1>7, Zenon
    <2> QED
      BY <2>1, <2>2, Zenon DEF S
  <1>8. CASE k = n /\ i = Len(P)
    <2>1. at'[r][1] = i /\ at'[r][2] = k /\ status'[r] = "done"
      BY <1>1, <1>8
    <2>2. S(i, k, "done")
      BY <1>4, <1>5, Zenon
    <2> QED
      BY <2>1, <2>2, Zenon DEF S
  <1> QED
    BY <1>6, <1>7, <1>8, Zenon

(* A rank whose last label may not be there on others yet                  *)
Ahead(r) == Flag(in[r] /\ TheStep(r).kind = "gather")

(* What the others notice of a step of r: nothing,                         *)
Hushed(r) == sent' = sent /\ mixed' = mixed /\ (status'[r] = "run" => Ahead(r) = 0 /\ Ahead(r)' = 0)
(* a label that it puts, or nothing while it reads theirs.                 *)
Puts(r) ==
  /\ mixed' = mixed /\ Ahead(r) = 0 /\ Ahead(r)' = 1
  /\ \E label \in Labels : sent' = [sent EXCEPT ![r] = Append(sent[r], label)]
Reads(r) ==
  LET n == Len(sent[r])
  IN  /\ sent' = sent /\ Ahead(r)' = 0 /\ n >= 1
      /\ \A q \in Ranks : Len(sent[q]) >= n
      /\ \A q \in Ranks \ {r} : mixed'[q] = mixed[q]
      /\ mixed'[r] => mixed[r] \/ \E q \in Ranks : sent[q][n] # sent[r][n]
Apart(r) ==
  /\ prog' = prog /\ Elsewhere(r)
  /\ \A q \in Ranks \ {r} : in'[q] = in[q] /\ sent'[q] = sent[q] /\ failed'[q] = failed[q]
SentMove(r) == Apart(r) /\ SentHere(r)' /\ Inside(r)' /\ (Hushed(r) \/ Puts(r) \/ Reads(r))

(* What a running rank has put, before its step and inside it              *)
LEMMA SentNow ==
  ASSUME Typed, NEW r \in Ranks, SentHere(r), status[r] = "run"
  PROVE  LET g == CountOf(prog, r)[at[r][1]][at[r][2]]
             b == Flag(TheStep(r).kind = "gather")
         IN  /\ TheStep(r).kind # "gather" => b = 0 /\ SentN(prog, g, 0, TRUE, sent[r], failed[r])
             /\ in[r] = FALSE => SentN(prog, g, 0, TRUE, sent[r], failed[r])
             /\ in[r] = TRUE => SentN(prog, g, b, TRUE, sent[r], failed[r])
             /\ TheStep(r).kind = "gather" => b = 1
  <1> DEFINE i == at[r][1]
             k == at[r][2]
             g == CountOf(prog, r)[i][k]
             b == Flag(TheStep(r).kind = "gather")
  <1>1. SentIn(prog, r, i, k, "run", in[r], sent[r], failed[r])
    BY DEF SentHere
  <1>2. in[r] \in BOOLEAN /\ TheStep(r) = Code[prog][r][i].steps[k]
    BY PlaceCount, Zenon
  <1>3. /\ SentIn(prog, r, i, k, "run", FALSE, sent[r], failed[r]) <=> SentN(prog, g, 0, TRUE, sent[r], failed[r])
        /\ SentIn(prog, r, i, k, "run", TRUE, sent[r], failed[r]) <=> SentN(prog, g, b, TRUE, sent[r], failed[r])
    BY <1>2, SentInIs, Zenon
  <1>4. /\ TheStep(r).kind # "gather" => b = 0
        /\ TheStep(r).kind = "gather" => b = 1
    BY DEF Flag
  <1> HIDE DEF g, b
  <1>5. /\ in[r] = FALSE => SentN(prog, g, 0, TRUE, sent[r], failed[r])
        /\ in[r] = TRUE => SentN(prog, g, b, TRUE, sent[r], failed[r])
    BY <1>1, <1>3, Zenon
  <1>6. in[r] = TRUE \/ in[r] = FALSE
    BY <1>2
  <1>7. TheStep(r).kind # "gather" => b = 0 /\ SentN(prog, g, 0, TRUE, sent[r], failed[r])
    BY <1>4, <1>5, <1>6, Zenon
  <1> QED
    BY <1>4, <1>5, <1>7, Zenon DEF g, b

(* Steps that are no allgather                                             *)
LEMMA HushedMove ==
  ASSUME NEW r \in Ranks, TheStep(r).kind # "gather", in'[r] = FALSE, sent' = sent, mixed' = mixed
  PROVE  Hushed(r) /\ Inside(r)'
  BY DEF Hushed, Ahead, Inside, Flag

(* A step that is no allgather and goes well,                              *)
LEMMA PassedSent ==
  ASSUME Typed, NEW r \in Ranks, SentHere(r), status[r] = "run", TheStep(r).kind # "gather", NextStep(r),
         prog' = prog, in'[r] = FALSE, \A q \in Ranks \ {r} : in'[q] = in[q],
         sent' = sent, failed' = failed, mixed' = mixed
  PROVE  SentMove(r)
  <1> DEFINE g == CountOf(prog, r)[at[r][1]][at[r][2]]
             b == Flag(TheStep(r).kind = "gather")
             l == sent[r]
             f == failed[r]
  <1>1. /\ g \in Nat /\ g + b <= Total(prog) /\ l \in Seq(Labels)
    BY PlaceCount, Zenon
  <1>2. b = 0 /\ SentN(prog, g, 0, TRUE, l, f)
    BY SentNow, Zenon
  <1> HIDE DEF g, b, l, f
  <1>3. SentN(prog, g, 0, FALSE, l, f)
    <2>1. g + 0 <= Total(prog) /\ 0 \in {0, 1} /\ 0 <= 0
      BY <1>1, <1>2
    <2> QED
      BY <1>1, <1>2, <2>1, StopSent, Zenon
  <1>4. g + b = g
    BY <1>1, <1>2
  <1>5. SentN(prog, g + b, 0, TRUE, l, f) /\ SentN(prog, g, b, FALSE, l, f)
    BY <1>2, <1>3, <1>4, Zenon
  <1>6. SentIn(prog, r, at'[r][1], at'[r][2], status'[r], FALSE, l, f)
    BY <1>5, GoesOnSent, Zenon DEF g, b
  <1>7. SentHere(r)'
    BY <1>6, Zenon DEF SentHere, l, f
  <1>8. Elsewhere(r)
    BY NextStepFacts
  <1>9. Hushed(r) /\ Inside(r)'
    BY HushedMove, Zenon
  <1> QED
    BY <1>7, <1>8, <1>9 DEF SentMove, Apart

(* and one that ends the process                                           *)
LEMMA StoppedSent ==
  ASSUME Typed, NEW r \in Ranks, SentHere(r), Inside(r), status[r] = "run", TheStep(r).kind \notin {"barrier", "gather"},
         NEW how \in Statuses, how # "run", Ends(r, how), prog' = prog, in' = in,
         sent' = sent, failed' = failed, mixed' = mixed
  PROVE  SentMove(r)
  <1> DEFINE i == at[r][1]
             k == at[r][2]
             g == CountOf(prog, r)[i][k]
             b == Flag(TheStep(r).kind = "gather")
             l == sent[r]
             f == failed[r]
  <1>1. /\ g \in Nat /\ g + b <= Total(prog) /\ l \in Seq(Labels) /\ in[r] \in BOOLEAN
        /\ TheStep(r) = Code[prog][r][i].steps[k]
    BY PlaceCount, Zenon
  <1>2. b = 0 /\ SentN(prog, g, 0, TRUE, l, f)
    BY SentNow, Zenon
  <1>3. at'[r] = at[r] /\ status'[r] = how /\ Elsewhere(r)
    BY EndsFacts
  <1>4. in[r] = FALSE
    BY <1>1, Zenon DEF Inside
  <1> HIDE DEF g, b, l, f
  <1>5. SentN(prog, g, b, FALSE, l, f)
    <2>1. g + 0 <= Total(prog) /\ 0 \in {0, 1} /\ 0 <= 0
      BY <1>1, <1>2
    <2> QED
      BY <1>1, <1>2, <2>1, StopSent, Zenon
  <1>6. SentIn(prog, r, i, k, how, FALSE, l, f)
    BY <1>1, <1>5, SentInIs, Zenon DEF g, b
  <1>7. SentHere(r)'
    BY <1>3, <1>4, <1>6, Zenon DEF SentHere, l, f
  <1>8. Hushed(r) /\ Inside(r)'
    BY <1>4, HushedMove, Zenon
  <1> QED
    BY <1>3, <1>7, <1>8 DEF SentMove, Apart

(* A handle that is not open                                               *)
LEMMA MisuseSent ==
  ASSUME Typed, NEW r \in Ranks, SentHere(r), Inside(r), Misuse(r)
  PROVE  SentMove(r)
  <1>1. /\ status[r] = "run" /\ TheStep(r).kind \in {"call", "step"} /\ Ends(r, "misuse")
        /\ prog' = prog /\ in' = in /\ sent' = sent /\ failed' = failed /\ mixed' = mixed
    BY DEF Misuse, Kind, meetings
  <1>2. "misuse" \in Statuses /\ "misuse" # "run" /\ TheStep(r).kind \notin {"barrier", "gather"}
    BY <1>1, Zenon DEF Statuses
  <1> QED
    BY <1>1, <1>2, StoppedSent, Zenon

(* A call or step that goes well                                           *)
LEMMA SucceedSent ==
  ASSUME Typed, NEW r \in Ranks, SentHere(r), Inside(r), Succeed(r) \/ Go(r)
  PROVE  SentMove(r)
  <1>1. /\ status[r] = "run" /\ TheStep(r).kind \in {"call", "step"} /\ NextStep(r)
        /\ prog' = prog /\ in' = in /\ sent' = sent /\ failed' = failed /\ mixed' = mixed
    BY DEF Succeed, Go, Kind, meetings
  <1>2. TheStep(r).kind # "gather" /\ in[r] = FALSE
    BY <1>1 DEF Inside, Typed
  <1>3. in'[r] = FALSE /\ \A q \in Ranks \ {r} : in'[q] = in[q]
    BY <1>1, <1>2
  <1> QED
    BY <1>1, <1>2, <1>3, PassedSent, Zenon

(* A barrier that is left                                                  *)
LEMMA LeaveBarrierSent ==
  ASSUME Typed, NEW r \in Ranks, SentHere(r), Inside(r), LeaveBarrier(r)
  PROVE  SentMove(r)
  <1>1. /\ status[r] = "run" /\ TheStep(r).kind = "barrier" /\ NextStep(r) /\ in' = [in EXCEPT ![r] = FALSE]
        /\ prog' = prog /\ sent' = sent /\ failed' = failed /\ mixed' = mixed
    BY DEF LeaveBarrier, Kind, meetings
  <1>2. in'[r] = FALSE /\ \A q \in Ranks \ {r} : in'[q] = in[q]
    BY <1>1 DEF Typed
  <1>3. TheStep(r).kind # "gather"
    BY <1>1
  <1> QED
    BY <1>1, <1>2, <1>3, PassedSent, Zenon

(* A collective that is entered: an allgather puts a label.                *)
LEMMA EnterSentStep ==
  ASSUME Typed, NEW r \in Ranks, SentHere(r), Enter(r)
  PROVE  SentMove(r)
  <1> DEFINE i == at[r][1]
             k == at[r][2]
             g == CountOf(prog, r)[i][k]
             b == Flag(TheStep(r).kind = "gather")
             l == sent[r]
             f == failed[r]
             label == Label(r)
  <1>1. /\ status[r] = "run" /\ TheStep(r).kind \in {"barrier", "gather"} /\ in[r] = FALSE
        /\ in' = [in EXCEPT ![r] = TRUE] /\ prog' = prog /\ at' = at /\ status' = status
        /\ failed' = failed /\ mixed' = mixed
    BY DEF Enter, Kind, Typed
  <1>2. sent' = IF TheStep(r).kind = "gather" THEN [sent EXCEPT ![r] = Append(l, label)] ELSE sent
    BY <1>1 DEF Enter, Kind
  <1>3. /\ g \in Nat /\ l \in Seq(Labels) /\ TheStep(r).name \in Names
        /\ TheStep(r).kind = "gather" => TheStep(r).name = Gathered(prog, g + 1)
        /\ TheStep(r) = Code[prog][r][i].steps[k]
    BY PlaceCount, Zenon
  <1>4. /\ SentN(prog, g, 0, TRUE, l, f) /\ (TheStep(r).kind # "gather" => b = 0)
        /\ (TheStep(r).kind = "gather" => b = 1)
    BY <1>1, SentNow, Zenon
  <1>5. label \in Labels /\ label = IF l = <<>> THEN "ranks" ELSE TheStep(r).name
    BY <1>3, Zenon DEF Label, Labels
  <1>6. in'[r] = TRUE /\ TheStep(r)' = TheStep(r) /\ Elsewhere(r) /\ \A q \in Ranks \ {r} : in'[q] = in[q]
    BY <1>1 DEF Typed, TheStep, ThePart, Elsewhere
  <1>7. Inside(r)' /\ Ahead(r) = 0 /\ Ahead(r)' = b
    BY <1>1, <1>6 DEF Inside, Ahead, Flag
  <1>8. SentHere(r)' <=> SentIn(prog, r, i, k, "run", TRUE, sent'[r], f)
    BY <1>1, <1>6, Zenon DEF SentHere
  <1>9. SentIn(prog, r, i, k, "run", TRUE, sent'[r], f) <=> SentN(prog, g, b, TRUE, sent'[r], f)
    BY <1>3, SentInIs, Zenon
  <1> HIDE DEF g, b, l, f, label
  <1>10. CASE TheStep(r).kind = "gather"
    <2>1. SentN(prog, g, 1, TRUE, Append(l, label), f)
      BY <1>3, <1>4, <1>5, <1>10, EnterSent, Zenon
    <2>2. sent' = [sent EXCEPT ![r] = Append(sent[r], label)] /\ sent'[r] = Append(l, label)
          /\ \A q \in Ranks \ {r} : sent'[q] = sent[q]
      BY <1>2, <1>10 DEF Typed, l
    <2>3. SentHere(r)'
      BY <1>4, <1>8, <1>9, <1>10, <2>1, <2>2, Zenon
    <2>4. Puts(r)
      BY <1>1, <1>4, <1>5, <1>7, <1>10, <2>2, Zenon DEF Puts
    <2> QED
      BY <1>1, <1>6, <1>7, <2>2, <2>3, <2>4 DEF SentMove, Apart
  <1>11. CASE TheStep(r).kind # "gather"
    <2>1. sent' = sent /\ sent'[r] = l
      BY <1>2, <1>11 DEF l
    <2>2. SentHere(r)'
      BY <1>4, <1>8, <1>9, <1>11, <2>1, Zenon
    <2>3. Hushed(r)
      BY <1>1, <1>4, <1>7, <1>11, <2>1 DEF Hushed
    <2> QED
      BY <1>1, <1>6, <1>7, <2>1, <2>2, <2>3 DEF SentMove, Apart
  <1> QED
    BY <1>10, <1>11

(* A gather that is left: it stays for the data, goes on, or an assertion  *)
(* fails.                                                                  *)
LEMMA LeaveGatherSent ==
  ASSUME Typed, NEW r \in Ranks, SentHere(r), LeaveGather(r)
  PROVE  SentMove(r)
  <1> DEFINE i == at[r][1]
             k == at[r][2]
             g == CountOf(prog, r)[i][k]
             b == Flag(TheStep(r).kind = "gather")
             l == sent[r]
             f == failed[r]
             n == Len(sent[r])
  <1>1. /\ status[r] = "run" /\ TheStep(r).kind = "gather" /\ in[r] = TRUE
        /\ in' = [in EXCEPT ![r] = FALSE] /\ prog' = prog /\ sent' = sent /\ failed' = failed
    BY DEF LeaveGather, Kind, Typed
  <1>2. /\ (\E q \in Ranks : Len(sent[q]) < n) => Ends(r, "aborted") /\ mixed' = mixed
        /\ ~(\E q \in Ranks : Len(sent[q]) < n) =>
             /\ mixed' = [mixed EXCEPT ![r] = @ \/ \E q \in Ranks : sent[q][n] # sent[r][n]]
             /\ IF n = 1 THEN at' = at /\ status' = status ELSE NextStep(r)
    BY DEF LeaveGather
  <1>3. /\ g \in Nat /\ l \in Seq(Labels) /\ g + b <= Total(prog)
        /\ TheStep(r) = Code[prog][r][i].steps[k]
    BY PlaceCount, Zenon
  <1>4. /\ SentN(prog, g, b, TRUE, l, f) /\ b = 1
    BY <1>1, SentNow, Zenon
  <1>5. in'[r] = FALSE /\ \A q \in Ranks \ {r} : in'[q] = in[q]
    BY <1>1 DEF Typed
  <1>6. Inside(r)' /\ Ahead(r)' = 0
    BY <1>5 DEF Inside, Ahead, Flag
  <1>7. \A q \in Ranks : Len(sent[q]) \in Nat
    BY DEF Typed
  <1>8. /\ Len(l) >= 1
        /\ Len(l) = 1 => SentN(prog, g, 0, TRUE, l, f)
        /\ Len(l) # 1 => SentN(prog, g + 1, 0, TRUE, l, f)
    <2> HIDE DEF g, b, l, f
    <2> QED
      BY <1>3, <1>4, LeaveSent, Zenon
  <1>9. SentN(prog, g, b, FALSE, l, f)
    <2> HIDE DEF g, b, l, f
    <2>1. b \in {0, 1} /\ b <= b
      BY <1>4
    <2> QED
      BY <1>3, <1>4, <2>1, StopSent, Zenon
  <1>10. CASE \E q \in Ranks : Len(sent[q]) < n
    <2>1. Ends(r, "aborted") /\ mixed' = mixed /\ "aborted" \in Statuses /\ "aborted" # "run"
      BY <1>2, <1>10, Zenon DEF Statuses
    <2>2. at'[r] = at[r] /\ status'[r] = "aborted" /\ Elsewhere(r)
      BY <1>1, <2>1, EndsFacts, Zenon
    <2>3. SentIn(prog, r, i, k, "aborted", FALSE, l, f)
      BY <1>3, <1>9, <2>1, SentInIs, Zenon
    <2>4. SentHere(r)'
      BY <1>1, <1>5, <2>2, <2>3, Zenon DEF SentHere
    <2>5. Hushed(r)
      BY <1>1, <2>1, <2>2 DEF Hushed
    <2> QED
      BY <1>1, <1>5, <1>6, <2>2, <2>4, <2>5 DEF SentMove, Apart
  <1>11. CASE ~(\E q \in Ranks : Len(sent[q]) < n)
    <2>1. \A q \in Ranks : Len(sent[q]) >= n
      BY <1>7, <1>11
    <2>2. /\ \A q \in Ranks \ {r} : mixed'[q] = mixed[q]
          /\ mixed'[r] => mixed[r] \/ \E q \in Ranks : sent[q][n] # sent[r][n]
      <3>1. mixed' = [mixed EXCEPT ![r] = @ \/ \E q \in Ranks : sent[q][n] # sent[r][n]]
        BY <1>2, <1>11
      <3>2. mixed \in [Ranks -> BOOLEAN]
        BY DEF Typed
      <3> QED
        BY <3>1, <3>2
    <2>3. Reads(r)
      BY <1>1, <1>6, <1>8, <2>1, <2>2 DEF Reads
    <2>4. CASE n = 1
      <3>1. at' = at /\ status' = status
        BY <1>2, <1>11, <2>4
      <3>2. SentIn(prog, r, i, k, "run", FALSE, l, f)
        BY <1>8, <2>4, SentInIs, Zenon
      <3>3. SentHere(r)'
        BY <1>1, <1>5, <3>1, <3>2, Zenon DEF SentHere
      <3>4. Elsewhere(r)
        BY <3>1 DEF Elsewhere
      <3> QED
        BY <1>1, <1>5, <1>6, <2>3, <3>3, <3>4 DEF SentMove, Apart
    <2>5. CASE n # 1
      <3>1. NextStep(r)
        BY <1>2, <1>11, <2>5
      <3>2. SentN(prog, g + b, 0, TRUE, l, f)
        BY <1>4, <1>8, <2>5, Zenon
      <3>3. SentIn(prog, r, at'[r][1], at'[r][2], status'[r], FALSE, l, f)
        BY <1>1, <1>9, <3>1, <3>2, GoesOnSent, Zenon
      <3>4. SentHere(r)'
        BY <1>1, <1>5, <3>3, Zenon DEF SentHere
      <3>5. Elsewhere(r)
        BY <1>1, <3>1, NextStepFacts
      <3> QED
        BY <1>1, <1>5, <1>6, <2>3, <3>4, <3>5 DEF SentMove, Apart
    <2> QED
      BY <2>4, <2>5
  <1> QED
    BY <1>10, <1>11

(* A call that fails                                                       *)
LEMMA FailSentStep ==
  ASSUME Typed, NEW r \in Ranks, SentHere(r), Inside(r), Fail(r)
  PROVE  SentMove(r)
  <1> DEFINE P == Code[prog][r]
             i == at[r][1]
             k == at[r][2]
             x == TheStep(r)
             C == CountOf(prog, r)
             g == C[i][k]
             b == Flag(x.kind = "gather")
             l == sent[r]
             f == failed[r]
             f2 == failed'[r]
             T == Total(prog)
  <1>1. /\ status[r] = "run" /\ x.kind = "call"
        /\ prog' = prog /\ in' = in /\ sent' = sent /\ mixed' = mixed
    BY Zenon DEF Fail, Kind, meetings
  <1>2. \/ failed' = [failed EXCEPT ![r] = Append(failed[r], x.name)]
        \/ x.name = "drc_access" /\ failed' = failed
    BY Zenon DEF Fail, Accessible
  <1>3. /\ g \in Nat /\ l \in Seq(Labels) /\ f \in Seq(Names) /\ g + b <= T /\ in[r] \in BOOLEAN
        /\ x \in Steps /\ x.name \in Names /\ x = P[i].steps[k] /\ ThePart(r) = P[i]
        /\ x.kind = "call" /\ x.name \notin Unnoticed => g < T
        /\ i # Len(P) => C[i + 1][1] \in Nat /\ g <= C[i + 1][1]
        /\ i # Len(P) /\ P[i].on_error = "next" /\ x.kind = "call" /\ x.name \notin Unnoticed => g < C[i + 1][1]
    BY PlaceCount, Zenon
  <1>4. b = 0 /\ SentN(prog, g, 0, TRUE, l, f)
    <2>1. x.kind # "gather"
      BY <1>1
    <2> QED
      BY <1>1, <2>1, SentNow, Zenon
  <1>5. in[r] = FALSE
    BY <1>1, <1>3, Zenon DEF Inside
  <1>6. in'[r] = FALSE /\ \A q \in Ranks \ {r} : in'[q] = in[q]
    BY <1>1, <1>5
  <1>7. /\ i \in 1 .. Len(P) /\ k \in 1 .. Len(P[i].steps) /\ P[i].on_error \in {"leave", "abort", "next"}
        /\ P[i].on_error = "next" => i # Len(P) /\ x.name # "drc_access"
    <2>1. /\ Sound(prog, P) /\ i \in 1 .. Len(P) /\ k \in 1 .. Len(P[i].steps)
          /\ P[i].on_error \in {"leave", "abort", "next"}
      BY PlaceFacts
    <2>2. P[i].on_error = "next" => i # Len(P) /\ P[i].steps[k].name # "drc_access"
      <3> HIDE DEF P, i, k
      <3>1. P[i].on_error = "next" => i # Len(P) /\ \A j \in 1 .. Len(P[i].steps) : P[i].steps[j].name # "drc_access"
        BY <2>1, SoundFacts
      <3> QED
        BY <2>1, <3>1
    <2> QED
      BY <1>3, <2>1, <2>2, Zenon
  <1>8. /\ f2 = Append(f, x.name) \/ (x.name = "drc_access" /\ f2 = f)
        /\ \A q \in Ranks \ {r} : failed'[q] = failed[q]
    <2>1. failed \in [Ranks -> Seq(Names)]
      BY DEF Typed
    <2> HIDE DEF x
    <2> QED
      BY <1>2, <2>1
  <1>9. (\E how \in Statuses \ {"run"} : Ends(r, how)) \/ (P[i].on_error = "next" /\ NextPart(r))
    <2>1. IF ~(ToSet(x.drop) \subseteq open[r] /\ IsInjective(x.drop)) THEN Ends(r, "bad close")
          ELSE CASE P[i].on_error = "leave" -> Ends(r, "left")
                 [] P[i].on_error = "abort" -> Ends(r, "aborted")
                 [] P[i].on_error = "next" -> NextPart(r)
      BY <1>3, Zenon DEF Fail
    <2>2. {"bad close", "left", "aborted"} \subseteq Statuses \ {"run"}
      BY Zenon DEF Statuses
    <2> HIDE DEF P, x, i
    <2>3. \/ Ends(r, "bad close") \/ Ends(r, "left") \/ Ends(r, "aborted")
          \/ (P[i].on_error = "next" /\ NextPart(r))
      BY <1>7, <2>1, Zenon
    <2> QED
      BY <2>2, <2>3, Zenon
  <1>10. x.kind # "gather"
    BY <1>1
  <1>11. Hushed(r) /\ Inside(r)'
    BY <1>1, <1>6, <1>10, HushedMove, Zenon
  <1> HIDE DEF P, x, C, g, b, l, f, f2, T
  <1>12. g <= T
    BY <1>3, <1>4
  <1>13. SentN(prog, g, 0, FALSE, l, f2)
    <2>1. CASE f2 = Append(f, x.name)
      <3>1. x.name \notin Unnoticed => g < Total(prog)
        BY <1>1, <1>3 DEF T
      <3>2. g <= Total(prog)
        BY <1>12 DEF T
      <3> QED
        BY <1>3, <1>4, <2>1, <3>1, <3>2, FailSent, Zenon
    <2>2. CASE f2 = f
      <3>1. g + 0 <= Total(prog) /\ 0 \in {0, 1} /\ 0 <= 0
        BY <1>3, <1>4 DEF T
      <3> QED
        BY <1>3, <1>4, <2>2, <3>1, StopSent, Zenon
    <2> QED
      BY <1>8, <2>1, <2>2, Zenon
  <1>14. ASSUME NEW how \in Statuses \ {"run"}, Ends(r, how) PROVE SentHere(r)' /\ Elsewhere(r)
    <2>1. at'[r] = at[r] /\ status'[r] = how /\ Elsewhere(r)
      BY <1>1, <1>14, EndsFacts
    <2>2. SentIn(prog, r, i, k, how, FALSE, l, f2)
      <3>1. how # "run"
        BY <1>14
      <3>2. SentN(prog, g, b, FALSE, l, f2)
        BY <1>4, <1>13, Zenon
      <3> QED
        BY <1>3, <3>1, <3>2, SentInIs, Zenon DEF g, b, C, P
    <2> QED
      BY <1>1, <1>6, <2>1, <2>2, Zenon DEF SentHere, l, f2
  <1>15. ASSUME P[i].on_error = "next", NextPart(r) PROVE SentHere(r)' /\ Elsewhere(r)
    <2>1. i # Len(P) /\ f2 = Append(f, x.name)
      BY <1>7, <1>8, <1>15
    <2>2. at'[r] = <<i + 1, 1>> /\ status'[r] = "run" /\ Elsewhere(r)
      BY <1>1, <1>15, <2>1, NextPartFacts DEF P
    <2> DEFINE g2 == C[i + 1][1]
    <2>3. g2 \in Nat /\ g <= g2 /\ (x.name \notin Unnoticed => g < g2)
      BY <1>1, <1>3, <1>15, <2>1
    <2> HIDE DEF g2
    <2>4. SentN(prog, g2, 0, TRUE, l, f2)
      <3>1. g <= Total(prog)
        BY <1>12 DEF T
      <3> QED
        BY <1>3, <1>4, <2>1, <2>3, <3>1, FailSent, Zenon
    <2>5. SentIn(prog, r, i + 1, 1, "run", FALSE, l, f2)
      BY <2>4, SentInIs, Zenon DEF g2, C
    <2>6. at'[r][1] = i + 1 /\ at'[r][2] = 1
      BY <2>2
    <2> QED
      BY <1>1, <1>6, <2>2, <2>5, <2>6, Zenon DEF SentHere, l, f2
  <1>16. SentHere(r)' /\ Elsewhere(r)
    BY <1>9, <1>14, <1>15
  <1> QED
    BY <1>1, <1>6, <1>8, <1>11, <1>16 DEF SentMove, Apart

-----------------------------------------------------------------------------
(* The failures                                                            *)

(* A sum of naturals counts the cells of a table: the fold of the library  *)
(* is a recursive function over the subsets of S, the number of cells      *)
(* satisfies its equation, and no other function does.                     *)
Cells(f, s) == UNION {{x} \X (1 .. f[x]) : x \in s}

(* Taking a row from the table takes its cells.                            *)
LEMMA CellsFacts ==
  ASSUME NEW S, IsFiniteSet(S), NEW f, \A x \in S : f[x] \in Nat, NEW s \in SUBSET S
  PROVE  /\ IsFiniteSet(Cells(f, s)) /\ Cardinality(Cells(f, s)) \in Nat
         /\ \A x \in s : Cardinality(Cells(f, s)) = f[x] + Cardinality(Cells(f, s \ {x}))
  <1> DEFINE Row(x) == {x} \X (1 .. f[x])
  <1>1. ASSUME NEW x \in S PROVE IsFiniteSet(Row(x)) /\ Cardinality(Row(x)) = f[x]
    <2>1. IsFiniteSet({x}) /\ Cardinality({x}) = 1
      BY FS_Singleton, Zenon
    <2>2. f[x] \in Nat
      OBVIOUS
    <2>3. IsFiniteSet(1 .. f[x]) /\ Cardinality(1 .. f[x]) = f[x]
      <3>1. ASSUME NEW m \in Nat PROVE IsFiniteSet(1 .. m) /\ Cardinality(1 .. m) = m
        <4>1. 1 \in Int /\ m \in Int /\ (IF 1 > m THEN 0 ELSE m - 1 + 1) = m
          OBVIOUS
        <4> QED
          BY <4>1, FS_Interval, Zenon
      <3> QED
        BY <2>2, <3>1
    <2>4. IsFiniteSet(Row(x)) /\ Cardinality(Row(x)) = Cardinality({x}) * Cardinality(1 .. f[x])
      BY <2>1, <2>3, FS_Product, Zenon
    <2> QED
      BY <2>1, <2>2, <2>3, <2>4
  <1>2. ASSUME NEW t \in SUBSET S PROVE IsFiniteSet(Cells(f, t))
    <2> DEFINE rows == {Row(x) : x \in t}
    <2>1. IsFiniteSet(t)
      BY FS_Subset
    <2>2. [x \in t |-> Row(x)] \in Surjection(t, rows)
      BY Zenon DEF Surjection
    <2>3. IsFiniteSet(rows)
      BY <2>1, <2>2, FS_Surjection
    <2>4. \A R \in rows : IsFiniteSet(R)
      BY <1>1
    <2>5. Cells(f, t) = UNION rows
      BY DEF Cells
    <2> HIDE DEF rows
    <2> QED
      BY <2>3, <2>4, <2>5, FS_UNION
  <1>3. ASSUME NEW x \in s
        PROVE  Cardinality(Cells(f, s)) = f[x] + Cardinality(Cells(f, s \ {x}))
    <2> DEFINE A == Row(x)
               B == Cells(f, s \ {x})
    <2>1. Cells(f, s) = A \cup B
      BY DEF Cells
    <2>2. A \cap B = {}
      BY DEF Cells
    <2>3. IsFiniteSet(A) /\ Cardinality(A) = f[x] /\ IsFiniteSet(B) /\ f[x] \in Nat
      BY <1>1, <1>2
    <2> HIDE DEF A, B
    <2>4. Cardinality(A \cup B) = Cardinality(A) + Cardinality(B) - Cardinality(A \cap B)
      BY <2>3, FS_Union
    <2>5. Cardinality(A \cap B) = 0 /\ Cardinality(B) \in Nat
      BY <2>2, <2>3, FS_EmptySet, FS_CardinalityType, Zenon
    <2>6. Cardinality(A \cup B) = f[x] + Cardinality(B)
      BY <2>3, <2>4, <2>5
    <2> QED
      BY <2>1, <2>6 DEF B
  <1>4. IsFiniteSet(Cells(f, s)) /\ Cardinality(Cells(f, s)) \in Nat
    BY <1>2, FS_CardinalityType
  <1> QED
    BY <1>3, <1>4

(* The sum is the number of cells,                                         *)
LEMMA SumCells ==
  ASSUME NEW S, IsFiniteSet(S), NEW f, \A x \in S : f[x] \in Nat
  PROVE  SumFunctionOnSet(f, S) = Cardinality(Cells(f, S))
  <1> DEFINE Def(g) == [s \in SUBSET S |->
                          IF s = {} THEN 0
                          ELSE f[CHOOSE x \in s : TRUE] + g[s \ {CHOOSE x \in s : TRUE}]]
             sum == CHOOSE g : g = Def(g)
             F == [s \in SUBSET S |-> Cardinality(Cells(f, s))]
  <1>1. SumFunctionOnSet(f, S) = sum[S]
    BY DEF SumFunctionOnSet, FoldFunctionOnSet, MapThenFoldSet
  <1>2. ASSUME NEW s \in SUBSET S
        PROVE  IsFiniteSet(s)
    BY FS_Subset
  <1>3. ASSUME NEW s \in SUBSET S, NEW x \in s
        PROVE  s \ {x} \in SUBSET S /\ F[s] = f[x] + F[s \ {x}]
    BY CellsFacts
  <1>4. F[{}] = 0
    <2>1. Cells(f, {}) = {}
      BY DEF Cells
    <2> QED
      BY <2>1, FS_EmptySet
  <1>5. F = Def(F)
    <2>1. ASSUME NEW s \in SUBSET S PROVE F[s] = Def(F)[s]
      <3>1. CASE s = {}
        BY <1>4, <3>1
      <3>2. CASE s # {}
        <4> DEFINE x == CHOOSE y \in s : TRUE
        <4>1. x \in s
          BY <3>2
        <4>2. F[s] = f[x] + F[s \ {x}]
          BY <1>3, <4>1, Zenon
        <4> HIDE DEF F
        <4> QED
          BY <3>2, <4>2
      <3> QED
        BY <3>1, <3>2
    <2> QED
      BY <2>1, Zenon
  <1>6. sum = Def(sum)
    <2> HIDE DEF F, Def
    <2> QED
      BY <1>5
  <1> HIDE DEF sum, F
  <1> DEFINE Bad == {s \in SUBSET S : sum[s] # F[s]}
  <1>7. Bad = {}
    <2> SUFFICES ASSUME Bad # {} PROVE FALSE
      OBVIOUS
    <2>1. Bad \subseteq FiniteSubsetsOf(S)
      BY <1>2 DEF FiniteSubsetsOf
    <2> HIDE DEF Bad
    <2>2. PICK U \in Bad : \A V \in Bad : ~(<<V, U>> \in StrictSubsetOrdering(S))
      <3>1. IsWellFoundedOn(StrictSubsetOrdering(S), FiniteSubsetsOf(S))
        BY FS_StrictSubsetOrderingWellFounded
      <3> QED
        BY <2>1, <3>1, WFMin
    <2>3. U \in SUBSET S /\ sum[U] # F[U]
      BY DEF Bad
    <2>4. U # {}
      BY <1>4, <1>6, <2>3, Zenon
    <2> DEFINE x == CHOOSE y \in U : TRUE
    <2>5. x \in U
      BY <2>4
    <2>6. sum[U] = f[x] + sum[U \ {x}]
      BY <1>6, <2>3, <2>4
    <2> HIDE DEF x
    <2>7. U \ {x} \in SUBSET S /\ U \ {x} \notin Bad
      <3>1. <<U \ {x}, U>> \in StrictSubsetOrdering(S)
        BY <2>3, <2>5 DEF StrictSubsetOrdering
      <3> QED
        BY <2>2, <2>3, <3>1
    <2>8. sum[U \ {x}] = F[U \ {x}]
      BY <2>7 DEF Bad
    <2> QED
      BY <1>3, <2>3, <2>5, <2>6, <2>8
  <1> QED
    BY <1>1, <1>7, Zenon DEF F

(* so that it can be taken apart at any element.                           *)
LEMMA SumTakes ==
  ASSUME NEW S, IsFiniteSet(S), NEW f, \A x \in S : f[x] \in Nat, NEW r \in S
  PROVE  /\ Cardinality(Cells(f, S \ {r})) \in Nat
         /\ SumFunctionOnSet(f, S) = f[r] + Cardinality(Cells(f, S \ {r}))
  <1>1. S \in SUBSET S /\ S \ {r} \in SUBSET S
    OBVIOUS
  <1>2. Cardinality(Cells(f, S)) = f[r] + Cardinality(Cells(f, S \ {r}))
    BY <1>1, CellsFacts
  <1>3. Cardinality(Cells(f, S \ {r})) \in Nat
    BY <1>1, CellsFacts
  <1> QED
    BY <1>2, <1>3, SumCells

(* One more failure on a rank is one more in all.                          *)
LEMMA OneMore ==
  ASSUME NEW S, IsFiniteSet(S), NEW f, NEW f2, \A x \in S : f[x] \in Nat /\ f2[x] \in Nat,
         NEW r \in S, f2[r] = f[r] + 1, \A x \in S \ {r} : f2[x] = f[x]
  PROVE  SumFunctionOnSet(f2, S) = SumFunctionOnSet(f, S) + 1
  <1> DEFINE n == Cardinality(Cells(f, S \ {r}))
  <1>1. Cells(f2, S \ {r}) = Cells(f, S \ {r})
    BY DEF Cells
  <1>2. n \in Nat /\ SumFunctionOnSet(f, S) = f[r] + n
    BY SumTakes
  <1>3. SumFunctionOnSet(f2, S) = f2[r] + Cardinality(Cells(f2, S \ {r}))
    BY SumTakes
  <1>4. f[r] \in Nat
    OBVIOUS
  <1> QED
    BY <1>1, <1>2, <1>3, <1>4

FailuresOf(f) == SumFunctionOnSet([r \in Ranks |-> Len(f[r])], Ranks)

(* The failures of a step, and at the beginning                            *)
LEMMA FailuresFacts ==
  ASSUME NEW f \in [Ranks -> Seq(Names)]
  PROVE  /\ FailuresOf(f) \in Nat
         /\ (\A r \in Ranks : f[r] = <<>>) => FailuresOf(f) = 0
         /\ \A r \in Ranks, x \in Names : FailuresOf([f EXCEPT ![r] = Append(f[r], x)]) = FailuresOf(f) + 1
  <1> DEFINE n == [r \in Ranks |-> Len(f[r])]
  <1>1. IsFiniteSet(Ranks)
    <2>1. 0 \in Int /\ num_ranks - 1 \in Int
      BY SizesAssumption
    <2> QED
      BY <2>1, FS_Interval DEF Ranks
  <1>2. n \in [Ranks -> Nat] /\ \A r \in Ranks : n[r] = Len(f[r])
    OBVIOUS
  <1>3. FailuresOf(f) = SumFunctionOnSet(n, Ranks)
    BY DEF FailuresOf
  <1>4. ASSUME NEW r \in Ranks, NEW x \in Names
        PROVE  FailuresOf([f EXCEPT ![r] = Append(f[r], x)]) = FailuresOf(f) + 1
    <2> DEFINE f2 == [f EXCEPT ![r] = Append(f[r], x)]
               n2 == [q \in Ranks |-> Len(f2[q])]
    <2>1. Len(f2[r]) = Len(f[r]) + 1 /\ \A q \in Ranks \ {r} : f2[q] = f[q]
      OBVIOUS
    <2>2. n2[r] = n[r] + 1 /\ \A q \in Ranks \ {r} : n2[q] = n[q]
      <3> HIDE DEF f2
      <3> QED
        BY <2>1
    <2>3. \A q \in Ranks : n[q] \in Nat /\ n2[q] \in Nat
      <3>1. n[r] + 1 \in Nat
        BY <1>2
      <3> HIDE DEF n, n2
      <3> QED
        BY <1>2, <2>2, <3>1, Zenon
    <2>4. FailuresOf(f2) = SumFunctionOnSet(n2, Ranks)
      BY DEF FailuresOf
    <2> HIDE DEF n, n2, f2
    <2>5. SumFunctionOnSet(n2, Ranks) = SumFunctionOnSet(n, Ranks) + 1
      BY <1>1, <2>2, <2>3, OneMore, Zenon
    <2>6. FailuresOf(f2) = FailuresOf(f) + 1
      BY <1>3, <2>4, <2>5
    <2> QED
      BY <2>6 DEF f2
  <1>5. FailuresOf(f) \in Nat
    <2> HIDE DEF n
    <2>1. SumFunctionOnSet(n, Ranks) = Cardinality(Cells(n, Ranks))
      BY <1>1, <1>2, SumCells
    <2>2. Cardinality(Cells(n, Ranks)) \in Nat
      BY <1>1, <1>2, CellsFacts, Ranks \in SUBSET Ranks
    <2> QED
      BY <1>3, <2>1, <2>2
  <1>6. ASSUME \A r \in Ranks : f[r] = <<>> PROVE FailuresOf(f) = 0
    <2>1. \A r \in Ranks : n[r] = 0
      BY <1>6
    <2> HIDE DEF n
    <2>2. Cells(n, Ranks) = {}
      <3>1. 1 .. 0 = {}
        OBVIOUS
      <3> QED
        BY <2>1, <3>1 DEF Cells
    <2>3. SumFunctionOnSet(n, Ranks) = Cardinality(Cells(n, Ranks))
      BY <1>1, <1>2, SumCells
    <2> QED
      BY <1>3, <2>2, <2>3, FS_EmptySet
  <1> QED
    BY <1>4, <1>5, <1>6

-----------------------------------------------------------------------------
(* The ranks together                                                      *)

(* No rank that goes on has put more than another, but for the allgather   *)
(* that it waits in.                                                       *)
Pairs ==
  \A r \in Ranks : status[r] = "run" =>
    \A q \in Ranks : Len(sent[q]) + Ahead(r) >= Len(sent[r])
(* What a rank has read of another allgather is still there to be seen.    *)
MixedSeen ==
  \A r \in Ranks : mixed[r] =>
    \E q \in Ranks : \E n \in 1 .. Len(sent[r]) : n <= Len(sent[q]) /\ sent[q][n] # sent[r][n]
Bounded == prog \in Programs /\ Failures \in 0 .. MaxFailures
ReadyInv == CleanInv /\ (\A r \in Ranks : SentHere(r) /\ Inside(r)) /\ Pairs /\ MixedSeen /\ Bounded

(* Every step of a rank keeps what holds of what it has put.               *)
LEMMA RankStepSent ==
  ASSUME Typed, NEW r \in Ranks, SentHere(r), Inside(r), RankStep(r)
  PROVE  SentMove(r) /\ status[r] = "run"
  <1>1. SentMove(r)
    <2>1. CASE Misuse(r)
      BY <2>1, MisuseSent
    <2>2. CASE Succeed(r) \/ Go(r)
      BY <2>2, SucceedSent
    <2>3. CASE Fail(r)
      BY <2>3, FailSentStep
    <2>4. CASE Enter(r)
      BY <2>4, EnterSentStep
    <2>5. CASE LeaveBarrier(r)
      BY <2>5, LeaveBarrierSent
    <2>6. CASE LeaveGather(r)
      BY <2>6, LeaveGatherSent
    <2> QED
      BY <2>1, <2>2, <2>3, <2>4, <2>5, <2>6, Zenon DEF RankStep
  <1>2. status[r] = "run"
    BY Zenon DEF RankStep, Misuse, Succeed, Fail, Go, Enter, LeaveBarrier, LeaveGather, Kind
  <1> QED
    BY <1>1, <1>2

(* The others stay where they are.                                         *)
LEMMA OthersSent ==
  ASSUME NEW r \in Ranks, Apart(r), NEW q \in Ranks \ {r}, SentHere(q), Inside(q)
  PROVE  SentHere(q)' /\ Inside(q)' /\ Ahead(q)' = Ahead(q) /\ status'[q] = status[q]
  <1>1. /\ prog' = prog /\ at'[q] = at[q] /\ status'[q] = status[q] /\ in'[q] = in[q]
        /\ sent'[q] = sent[q] /\ failed'[q] = failed[q]
    BY DEF Apart, Elsewhere
  <1>2. TheStep(q)' = TheStep(q)
    BY <1>1 DEF TheStep, ThePart
  <1>3. SentHere(q)'
    <2>1. SentIn(prog, q, at[q][1], at[q][2], status[q], in[q], sent[q], failed[q])
      BY DEF SentHere
    <2>2. SentIn(prog', q, at'[q][1], at'[q][2], status'[q], in'[q], sent'[q], failed'[q])
      BY <1>1, <2>1
    <2> QED
      BY <2>2 DEF SentHere
  <1>4. Inside(q)'
    BY <1>1, <1>2 DEF Inside
  <1>5. Ahead(q)' = Ahead(q)
    BY <1>1, <1>2 DEF Ahead
  <1> QED
    BY <1>1, <1>3, <1>4, <1>5

(* Whatever a rank does, what has been put stays, and it puts at most one  *)
(* label more, and only if none has put less.                              *)
LEMMA Extends ==
  ASSUME Typed, NEW r \in Ranks, SentMove(r)
  PROVE  /\ \A q \in Ranks : /\ sent'[q] \in Seq(Labels) /\ Len(sent'[q]) >= Len(sent[q])
                             /\ \A n \in 1 .. Len(sent[q]) : sent'[q][n] = sent[q][n]
         /\ Len(sent'[r]) = Len(sent[r]) \/ (Puts(r) /\ Len(sent'[r]) = Len(sent[r]) + 1)
  <1>1. sent \in [Ranks -> Seq(Labels)]
    BY DEF Typed
  <1>2. CASE sent' = sent
    BY <1>1, <1>2
  <1>3. CASE Puts(r)
    <2>1. PICK label \in Labels : sent' = [sent EXCEPT ![r] = Append(sent[r], label)]
      BY <1>3, Zenon DEF Puts
    <2>2. sent'[r] = Append(sent[r], label) /\ \A q \in Ranks \ {r} : sent'[q] = sent[q]
      BY <1>1, <2>1
    <2>3. sent[r] \in Seq(Labels)
      BY <1>1
    <2>4. /\ Append(sent[r], label) \in Seq(Labels) /\ Len(Append(sent[r], label)) = Len(sent[r]) + 1
          /\ \A n \in 1 .. Len(sent[r]) : Append(sent[r], label)[n] = sent[r][n]
          /\ Len(sent[r]) \in Nat /\ Len(Append(sent[r], label)) >= Len(sent[r])
      BY <2>3
    <2>5. ASSUME NEW q \in Ranks
          PROVE  /\ sent'[q] \in Seq(Labels) /\ Len(sent'[q]) >= Len(sent[q])
                 /\ \A n \in 1 .. Len(sent[q]) : sent'[q][n] = sent[q][n]
      <3>1. CASE q = r
        BY <2>2, <2>4, <3>1, Zenon
      <3>2. CASE q # r
        <4>1. sent'[q] = sent[q] /\ sent[q] \in Seq(Labels) /\ Len(sent[q]) \in Nat
          BY <1>1, <2>2, <3>2
        <4> QED
          BY <4>1
      <3> QED
        BY <3>1, <3>2
    <2> QED
      BY <1>3, <2>2, <2>4, <2>5
  <1> QED
    BY <1>2, <1>3 DEF SentMove, Hushed, Reads

(* No step lets a running rank get ahead of the others.                    *)
LEMMA PairsStep ==
  ASSUME Typed, Typed', NEW r \in Ranks, SentMove(r), status[r] = "run", Pairs,
         \A q \in Ranks \ {r} : Ahead(q)' = Ahead(q) /\ status'[q] = status[q]
  PROVE  Pairs'
  <1>1. \A q \in Ranks : Len(sent[q]) \in Nat /\ Len(sent'[q]) \in Nat /\ Len(sent'[q]) >= Len(sent[q])
    <2>1. \A q \in Ranks : Len(sent'[q]) >= Len(sent[q])
      BY Extends
    <2>2. sent \in [Ranks -> Seq(Labels)] /\ sent' \in [Ranks -> Seq(Labels)]
      BY Zenon DEF Typed
    <2>3. \A q \in Ranks : Len(sent[q]) \in Nat /\ Len(sent'[q]) \in Nat
      BY <2>2
    <2> QED
      BY <2>1, <2>3
  <1>2. \A q \in Ranks \ {r} : sent'[q] = sent[q]
    BY DEF SentMove, Apart
  <1>3. \A q \in Ranks : Ahead(q) \in Nat
    BY DEF Ahead, Flag
  <1>4. ASSUME NEW x \in Ranks \ {r}, status'[x] = "run", NEW q \in Ranks
        PROVE  Len(sent'[q]) + Ahead(x)' >= Len(sent'[x])
    <2>1. Len(sent[q]) + Ahead(x) >= Len(sent[x])
      BY <1>4 DEF Pairs
    <2>2. Ahead(x)' = Ahead(x) /\ Ahead(x) \in Nat /\ sent'[x] = sent[x]
      BY <1>2, <1>3
    <2>3. /\ Len(sent[q]) \in Nat /\ Len(sent'[q]) \in Nat /\ Len(sent'[q]) >= Len(sent[q])
          /\ Len(sent[x]) \in Nat
      BY <1>1
    <2> QED
      BY <2>1, <2>2, <2>3
  <1>5. ASSUME status'[r] = "run", NEW q \in Ranks
        PROVE  Len(sent'[q]) + Ahead(r)' >= Len(sent'[r])
    <2>1. Len(sent[q]) + Ahead(r) >= Len(sent[r])
      BY DEF Pairs
    <2>2. /\ Len(sent[q]) \in Nat /\ Len(sent'[q]) \in Nat /\ Len(sent'[q]) >= Len(sent[q])
          /\ Len(sent[r]) \in Nat /\ Len(sent'[r]) \in Nat
      BY <1>1
    <2>3. CASE Hushed(r)
      <3>1. Ahead(r) = 0 /\ Ahead(r)' = 0 /\ sent' = sent
        BY <1>5, <2>3 DEF Hushed
      <3> QED
        BY <2>1, <2>2, <3>1
    <2>4. CASE Puts(r)
      <3>1. Ahead(r) = 0 /\ Ahead(r)' = 1
        BY <2>4 DEF Puts
      <3>2. Len(sent'[r]) = Len(sent[r]) \/ Len(sent'[r]) = Len(sent[r]) + 1
        BY Extends
      <3> QED
        BY <2>1, <2>2, <3>1, <3>2
    <2>5. CASE Reads(r)
      <3>1. sent' = sent /\ Ahead(r)' = 0 /\ Len(sent[q]) >= Len(sent[r])
        BY <2>5 DEF Reads
      <3> QED
        BY <2>2, <3>1
    <2> QED
      BY <2>3, <2>4, <2>5 DEF SentMove
  <1>6. ASSUME NEW x \in Ranks, status'[x] = "run", NEW q \in Ranks
        PROVE  Len(sent'[q]) + Ahead(x)' >= Len(sent'[x])
    BY <1>4, <1>5, <1>6
  <1> QED
    BY <1>6 DEF Pairs

(* What differs goes on to differ.                                         *)
LEMMA MixedStep ==
  ASSUME Typed, Typed', NEW r \in Ranks, SentMove(r), MixedSeen
  PROVE  MixedSeen'
  <1>1. \A q \in Ranks : /\ Len(sent[q]) \in Nat /\ Len(sent'[q]) \in Nat /\ Len(sent'[q]) >= Len(sent[q])
                         /\ \A n \in 1 .. Len(sent[q]) : sent'[q][n] = sent[q][n]
    <2>1. \A q \in Ranks : /\ Len(sent'[q]) >= Len(sent[q])
                           /\ \A n \in 1 .. Len(sent[q]) : sent'[q][n] = sent[q][n]
      BY Extends
    <2>2. sent \in [Ranks -> Seq(Labels)] /\ sent' \in [Ranks -> Seq(Labels)]
      BY Zenon DEF Typed
    <2>3. \A q \in Ranks : Len(sent[q]) \in Nat /\ Len(sent'[q]) \in Nat
      BY <2>2
    <2> QED
      BY <2>1, <2>3
  <1>2. ASSUME NEW x \in Ranks, NEW q \in Ranks, NEW n \in 1 .. Len(sent[x]), n <= Len(sent[q]), sent[q][n] # sent[x][n]
        PROVE  \E y \in Ranks : \E j \in 1 .. Len(sent'[x]) : j <= Len(sent'[y]) /\ sent'[y][j] # sent'[x][j]
    <2>1. n \in 1 .. Len(sent'[x]) /\ n <= Len(sent'[q]) /\ n \in 1 .. Len(sent[q])
      BY <1>1, <1>2
    <2>2. sent'[q][n] = sent[q][n] /\ sent'[x][n] = sent[x][n]
      BY <1>1, <2>1
    <2> QED
      BY <1>2, <2>1, <2>2
  <1>3. ASSUME NEW x \in Ranks, mixed'[x]
        PROVE  \E q \in Ranks : \E n \in 1 .. Len(sent[x]) : n <= Len(sent[q]) /\ sent[q][n] # sent[x][n]
    <2>1. CASE mixed[x]
      BY <2>1 DEF MixedSeen
    <2>2. CASE ~mixed[x]
      <3>1. Reads(r) /\ x = r
        <4>1. mixed' = mixed \/ Reads(r)
          BY DEF SentMove, Hushed, Puts
        <4>2. Reads(r)
          BY <1>3, <2>2, <4>1
        <4>3. ASSUME x # r PROVE FALSE
          <5>1. mixed'[x] = mixed[x]
            BY <4>2, <4>3 DEF Reads
          <5> QED
            BY <1>3, <2>2, <5>1
        <4> QED
          BY <4>2, <4>3
      <3> DEFINE n == Len(sent[r])
      <3>2. /\ n >= 1 /\ \A q \in Ranks : Len(sent[q]) >= n
            /\ \E q \in Ranks : sent[q][n] # sent[r][n]
        BY <1>3, <2>2, <3>1 DEF Reads
      <3>3. n \in 1 .. n /\ \A q \in Ranks : n <= Len(sent[q])
        <4>1. n \in Nat /\ \A q \in Ranks : Len(sent[q]) \in Nat
          BY <1>1
        <4> HIDE DEF n
        <4> QED
          BY <3>2, <4>1
      <3> QED
        BY <3>1, <3>2, <3>3
    <2> QED
      BY <2>1, <2>2
  <1> QED
    BY <1>2, <1>3, Zenon DEF MixedSeen

(* No more calls fail than the bound allows.                               *)
LEMMA BoundedStep ==
  ASSUME Typed, NEW r \in Ranks, RankStep(r), Bounded
  PROVE  Bounded'
  <1> DEFINE x == TheStep(r).name
  <1>1. failed \in [Ranks -> Seq(Names)] /\ x \in Names
    <2>1. TheStep(r).name \in Names
      BY PlaceCount, Zenon
    <2> QED
      BY <2>1 DEF Typed
  <1>2. prog' = prog
    BY Zenon DEF RankStep, Misuse, Succeed, Fail, Go, Enter, LeaveBarrier, LeaveGather
  <1>3. \/ failed' = failed
        \/ failed' = [failed EXCEPT ![r] = Append(failed[r], x)] /\ Failures < MaxFailures
    BY Zenon DEF RankStep, Misuse, Succeed, Fail, Go, Enter, LeaveBarrier, LeaveGather
  <1>4. Failures = FailuresOf(failed) /\ Failures' = FailuresOf(failed')
    BY DEF Failures, FailuresOf
  <1> HIDE DEF x
  <1>5. Failures' = Failures \/ (Failures' = Failures + 1 /\ Failures < MaxFailures)
    <2>1. CASE failed' = failed
      BY <1>4, <2>1
    <2>2. CASE failed' = [failed EXCEPT ![r] = Append(failed[r], x)] /\ Failures < MaxFailures
      <3>1. FailuresOf([failed EXCEPT ![r] = Append(failed[r], x)]) = FailuresOf(failed) + 1
        BY <1>1, FailuresFacts, Zenon
      <3> QED
        BY <1>4, <2>2, <3>1, Zenon
    <2> QED
      BY <1>3, <2>1, <2>2
  <1>6. Failures \in 0 .. MaxFailures /\ MaxFailures \in Nat /\ prog \in Programs
    BY SizesAssumption DEF Bounded
  <1>7. Failures' \in 0 .. MaxFailures
    BY <1>5, <1>6
  <1> QED
    BY <1>2, <1>6, <1>7 DEF Bounded

(* At the beginning nothing has been put, and nothing has failed.          *)
LEMMA InitReady ==
  ASSUME Init
  PROVE  ReadyInv
  <1>1. CleanInv /\ prog \in AllPrograms /\ Typed
    BY InitClean DEF CleanInv, Typed
  <1>2. /\ \A r \in Ranks : at[r][1] = 1 /\ at[r][2] = 1 /\ status[r] = "run" /\ in[r] = FALSE /\ mixed[r] = FALSE
        /\ \A r \in Ranks : sent[r] = <<>> /\ failed[r] = <<>>
    BY DEF Init
  <1>3. ASSUME NEW r \in Ranks PROVE SentHere(r) /\ Inside(r)
    <2>1. CountOf(prog, r)[1][1] = 0
      BY <1>1, CountOfCode DEF IsCount
    <2>2. SentN(prog, 0, 0, TRUE, <<>>, <<>>)
      <3>1. /\ Len(<<>>) = 0 /\ 0 <= 1 + 0 + 0 /\ ~(0 >= 1) /\ ~(0 > 0)
            /\ ~(0 = 1) /\ ~(0 >= 1 + 0 + 0)
        OBVIOUS
      <3>2. ~Noticed(<<>>)
        BY Tuple0 DEF Noticed
      <3> QED
        BY <3>1, <3>2, Zenon DEF SentN
    <2>3. SentIn(prog, r, 1, 1, "run", FALSE, <<>>, <<>>)
      BY <2>1, <2>2, SentInIs, Zenon
    <2>4. SentHere(r)
      BY <1>2, <2>3, Zenon DEF SentHere
    <2> QED
      BY <1>2, <2>4 DEF Inside
  <1>4. Pairs
    <2>1. Len(<<>>) = 0
      OBVIOUS
    <2>2. \A r \in Ranks : Ahead(r) = 0
      BY <1>2 DEF Ahead, Flag
    <2> QED
      BY <1>2, <2>1, <2>2 DEF Pairs
  <1>5. MixedSeen
    BY <1>2 DEF MixedSeen
  <1>6. Bounded
    <2>1. failed \in [Ranks -> Seq(Names)]
      BY <1>1 DEF Typed
    <2>2. FailuresOf(failed) = 0
      BY <1>2, <2>1, FailuresFacts
    <2>3. Failures = 0
      BY <2>2 DEF Failures, FailuresOf
    <2> QED
      BY <2>3, SizesAssumption DEF Bounded, Init
  <1> QED
    BY <1>1, <1>3, <1>4, <1>5, <1>6 DEF ReadyInv

(* The invariant is inductive,                                             *)
LEMMA NextReady ==
  ASSUME ReadyInv, [Next]_vars
  PROVE  ReadyInv'
  <1>1. /\ CleanInv /\ Typed /\ Pairs /\ MixedSeen /\ Bounded
        /\ \A q \in Ranks : SentHere(q) /\ Inside(q)
    BY DEF ReadyInv, CleanInv
  <1>2. ASSUME NEW r \in Ranks, RankStep(r) PROVE ReadyInv'
    <2>1. CleanInv' /\ Typed'
      BY <1>1, <1>2, RankStepClean DEF CleanInv
    <2>2. SentMove(r) /\ status[r] = "run"
      BY <1>1, <1>2, RankStepSent
    <2>3. SentHere(r)' /\ Inside(r)' /\ Apart(r)
      BY <2>2 DEF SentMove
    <2>4. \A q \in Ranks \ {r} : SentHere(q)' /\ Inside(q)' /\ Ahead(q)' = Ahead(q) /\ status'[q] = status[q]
      BY <1>1, <2>3, OthersSent
    <2>5. \A q \in Ranks : SentHere(q)' /\ Inside(q)'
      BY <2>3, <2>4
    <2>6. Pairs'
      BY <1>1, <2>1, <2>2, <2>4, PairsStep
    <2>7. MixedSeen'
      BY <1>1, <2>1, <2>2, MixedStep
    <2>8. Bounded'
      BY <1>1, <1>2, BoundedStep
    <2> QED
      BY <2>1, <2>5, <2>6, <2>7, <2>8 DEF ReadyInv
  <1>3. ASSUME UNCHANGED vars PROVE ReadyInv'
    <2>1. /\ prog' = prog /\ at' = at /\ in' = in /\ status' = status /\ sent' = sent /\ mixed' = mixed
          /\ failed' = failed
      BY <1>3 DEF vars, progress, meetings
    <2>2. CleanInv'
      BY <1>1, <1>3, StutterClean
    <2>3. \A q \in Ranks : TheStep(q)' = TheStep(q)
      BY <2>1 DEF TheStep, ThePart
    <2>4. \A q \in Ranks : Inside(q)' /\ Ahead(q)' = Ahead(q)
      BY <1>1, <2>1, <2>3 DEF Inside, Ahead
    <2>5. \A q \in Ranks : SentHere(q)'
      BY <1>1, <2>1 DEF SentHere
    <2>6. Pairs'
      BY <1>1, <2>1, <2>4 DEF Pairs
    <2>7. MixedSeen' /\ Bounded'
      BY <1>1, <2>1 DEF MixedSeen, Bounded, Failures
    <2> QED
      BY <2>2, <2>4, <2>5, <2>6, <2>7 DEF ReadyInv
  <1> QED
    BY <1>2, <1>3 DEF Next

(* A rank that has put a label in all places has put the right ones, and   *)
(* no failure of it is noticed.                                            *)
LEMMA FullSent ==
  ASSUME NEW p, NEW g \in Nat, NEW over \in {0, 1}, NEW running \in BOOLEAN, NEW l \in Seq(Labels), NEW f,
         SentN(p, g, over, running, l, f), g + over <= Total(p), Len(l) >= 1 + Total(p)
  PROVE  /\ ~Noticed(f) /\ Len(l) = 1 + Total(p) /\ l[1] = "ranks"
         /\ \A j \in 2 .. Len(l) : l[j] = Gathered(p, j - 1)
  <1> DEFINE m == Len(l)
             T == Total(p)
  <1>1. m \in Nat /\ T \in Nat
    BY TotalFacts
  <1>2. /\ m <= 1 + g + over
        /\ Noticed(f) => IF running THEN g >= 1 /\ m <= g + over ELSE m <= T
        /\ m >= 1 => l[1] = "ranks"
        /\ m >= 1 + g + over => \A j \in 2 .. m : l[j] = Gathered(p, j - 1)
    BY DEF SentN
  <1> HIDE DEF m, T
  <1>3. m >= 1 + T /\ g + over <= T
    BY DEF m, T
  <1>4. m = 1 + T /\ m >= 1 /\ m >= 1 + g + over /\ ~(m <= g + over) /\ ~(m <= T)
    BY <1>1, <1>2, <1>3
  <1> QED
    BY <1>2, <1>4 DEF m, T

(* The same of a rank where it is                                          *)
LEMMA FullRank ==
  ASSUME Typed, NEW q \in Ranks, SentHere(q), Len(sent[q]) >= 1 + Total(prog)
  PROVE  /\ ~Noticed(failed[q]) /\ Len(sent[q]) = 1 + Total(prog) /\ sent[q][1] = "ranks"
         /\ \A j \in 2 .. Len(sent[q]) : sent[q][j] = Gathered(prog, j - 1)
  <1> DEFINE g == CountOf(prog, q)[at[q][1]][at[q][2]]
             b == Flag(TheStep(q).kind = "gather")
             over == Flag(TheStep(q).kind = "gather" /\ (in[q] \/ status[q] # "run"))
             running == status[q] = "run"
             T == Total(prog)
  <1>1. /\ g \in Nat /\ b \in {0, 1} /\ g + b <= T /\ T \in Nat /\ sent[q] \in Seq(Labels)
        /\ TheStep(q) = Code[prog][q][at[q][1]].steps[at[q][2]]
    BY PlaceCount, Zenon
  <1>2. SentN(prog, g, over, running, sent[q], failed[q])
    BY <1>1, Zenon DEF SentHere, SentIn
  <1>3. over \in {0, 1} /\ over <= b /\ running \in BOOLEAN
    BY DEF Flag
  <1> HIDE DEF g, b, over, running
  <1>4. g + over <= T
    BY <1>1, <1>3
  <1> QED
    BY <1>1, <1>2, <1>3, <1>4, FullSent

(* A rank that begins the test, when none of its own calls has failed      *)
LEMMA ReadyAtTest ==
  ASSUME ReadyInv, NEW r \in Ranks, AtTest(r), failed[r] = <<>>
  PROVE  /\ TheStep(r).use \subseteq open[r] /\ ~mixed[r]
         /\ \A q \in Ranks : ToSet(failed[q]) \subseteq Unnoticed
  <1> DEFINE P == Code[prog][r]
             i == at[r][1]
             k == at[r][2]
             T == Total(prog)
             n == Len(sent[r])
  <1>1. /\ Typed /\ Clean(r) /\ Pairs /\ MixedSeen /\ status[r] = "run" /\ TheStep(r).name = "test"
        /\ \A q \in Ranks : SentHere(q)
    BY DEF ReadyInv, CleanInv, AtTest
  <1>2. TheStep(r).use \subseteq open[r]
    <2>1. /\ Sound(prog, P) /\ i \in 1 .. Len(P) /\ k \in 1 .. Len(P[i].steps)
          /\ TheStep(r) = P[i].steps[k]
      BY <1>1, PlaceFacts
    <2>2. CleanAt(prog, P, i, k, "run", open[r], <<>>)
      BY <1>1 DEF Clean
    <2> HIDE DEF P, i, k
    <2>3. HasAll(P, i, k, open[r])
      BY <2>2 DEF CleanAt
    <2>4. Supplied(Before(P, i), P[i].steps)
      BY <2>1, SoundFacts
    <2> QED
      BY <2>1, <2>3, <2>4 DEF Supplied, HasAll
  <1>3. n = 1 + T /\ T \in Nat /\ Ahead(r) = 0
    <2> DEFINE g == CountOf(prog, r)[i][k]
    <2>1. g = T /\ TheStep(r).kind = "step" /\ T \in Nat /\ T > 0 /\ sent[r] \in Seq(Labels)
      BY <1>1, PlaceCount, Zenon
    <2>2. TheStep(r).kind # "gather"
      BY <2>1
    <2>3. SentN(prog, g, 0, TRUE, sent[r], failed[r])
      BY <1>1, <2>2, SentNow, Zenon
    <2> HIDE DEF g
    <2>4. SentN(prog, T, 0, TRUE, sent[r], <<>>)
      BY <2>1, <2>3, Zenon
    <2> HIDE DEF T
    <2>5. n <= 1 + T + 0 /\ n >= 1 + T + 0 /\ n \in Nat
      BY <2>1, <2>4 DEF SentN
    <2>6. Ahead(r) = 0
      BY <2>2 DEF Ahead, Flag
    <2> HIDE DEF n
    <2> QED
      BY <2>1, <2>5, <2>6
  <1>4. ASSUME NEW q \in Ranks
        PROVE  /\ ~Noticed(failed[q]) /\ Len(sent[q]) = n /\ sent[q][1] = "ranks"
               /\ \A j \in 2 .. n : sent[q][j] = Gathered(prog, j - 1)
    <2>1. Len(sent[q]) + Ahead(r) >= n /\ Len(sent[q]) \in Nat
      BY <1>1 DEF Pairs, Typed
    <2>2. Len(sent[q]) >= 1 + T
      BY <1>3, <2>1
    <2>3. /\ ~Noticed(failed[q]) /\ Len(sent[q]) = 1 + T /\ sent[q][1] = "ranks"
          /\ \A j \in 2 .. Len(sent[q]) : sent[q][j] = Gathered(prog, j - 1)
      BY <1>1, <2>2, FullRank
    <2> HIDE DEF T, n
    <2> QED
      BY <1>3, <2>3
  <1>5. ~mixed[r]
    <2> SUFFICES ASSUME mixed[r] PROVE FALSE
      OBVIOUS
    <2>1. PICK q \in Ranks : \E j \in 1 .. n : j <= Len(sent[q]) /\ sent[q][j] # sent[r][j]
      BY <1>1 DEF MixedSeen
    <2>2. PICK j \in 1 .. n : sent[q][j] # sent[r][j]
      BY <2>1
    <2>3. j = 1 \/ j \in 2 .. n
      <3>1. n \in Nat
        BY <1>3
      <3> HIDE DEF n
      <3> QED
        BY <3>1
    <2> HIDE DEF n
    <2> QED
      BY <1>4, <2>2, <2>3
  <1>6. \A q \in Ranks : ToSet(failed[q]) \subseteq Unnoticed
    BY <1>4 DEF Noticed
  <1> QED
    BY <1>2, <1>5, <1>6

(* and implies what the runs check.                                        *)
LEMMA ReadyInvImplies ==
  ASSUME ReadyInv
  PROVE  StartsReady
  <1>1. Typed /\ Bounded
    BY DEF ReadyInv, CleanInv
  <1>2. TypeOK
    <2>1. ASSUME NEW r \in Ranks
          PROVE  at[r][1] \in DOMAIN Code[prog][r] /\ at[r][2] \in DOMAIN Code[prog][r][at[r][1]].steps
      <3> DEFINE P == Code[prog][r]
                 i == at[r][1]
                 k == at[r][2]
      <3>1. P \in Seq(Parts) /\ i \in 1 .. Len(P) /\ P[i].steps \in Seq(Steps) /\ k \in 1 .. Len(P[i].steps)
        BY <1>1, PlaceFacts
      <3> HIDE DEF P, i, k
      <3>2. i \in DOMAIN P /\ k \in DOMAIN P[i].steps
        BY <3>1
      <3> QED
        BY <3>2 DEF P, i, k
    <2>2. \A r \in Ranks : status[r] \in Statuses /\ calls[r] \in Nat
      BY <1>1 DEF Typed
    <2>3. in \in [Ranks -> BOOLEAN] /\ mixed \in [Ranks -> BOOLEAN] /\ cred \in {"none", "held", "released"}
      BY <1>1 DEF Typed
    <2>4. prog \in Programs /\ Failures \in 0 .. MaxFailures
      BY <1>1 DEF Bounded
    <2> QED
      BY <2>1, <2>2, <2>3, <2>4, Zenon DEF TypeOK, Statuses
  <1>3. ASSUME NEW r \in Ranks, AtTest(r) /\ failed[r] = <<>>
        PROVE  /\ TheStep(r).use \subseteq open[r] /\ ~mixed[r]
               /\ \A q \in Ranks : ToSet(failed[q]) \subseteq Unnoticed
    BY <1>3, ReadyAtTest
  <1> QED
    BY <1>2, <1>3 DEF StartsReady

(* A rank whose own set-up went well begins the test with all that it      *)
(* needs and with the data of every peer in its place, and only when no    *)
(* call of any rank has failed but the two whose failure nobody notices:   *)
(* for all programs, ranks, threads and failures.                          *)
THEOREM ReadyToStart == Spec => []StartsReady
  <1>1. Init => ReadyInv
    BY InitReady
  <1>2. ReadyInv /\ [Next]_vars => ReadyInv'
    BY NextReady
  <1>3. ReadyInv => StartsReady
    BY ReadyInvImplies
  <1> QED
    BY <1>1, <1>2, <1>3, PTL DEF Spec
=============================================================================
