----------------------------- MODULE LiveProofs -----------------------------
(***************************************************************************)
(* Proofs about LiveService and the MessageBudget it extends: the budget   *)
(* is exact however many connections a subject has, sessions stay with     *)
(* their subject, and no handler leaves its task behind.                   *)
(***************************************************************************)
EXTENDS LiveService, TLAPS, WellFoundedInduction, SequenceTheorems

Times == 0..MaxTime

(* The window retained for a subject, if any.                              *)
Held(s) == IF s \in DOMAIN windows THEN windows[s] ELSE <<>>

(* What w leaves of the log is exactly what has expired.                   *)
IsSuffix(w, s) ==
  /\ Len(w) <= Len(log[s])
  /\ \A i \in 1..Len(w) : w[i] = log[s][Len(log[s]) - Len(w) + i]
  /\ \A i \in 1..Len(log[s]) - Len(w) : log[s][i] <= now - Window

(* BudgetHolds speaks of the log alone; what keeps it is that the windows  *)
(* are its unexpired end.                                                  *)
BudgetInv ==
  /\ BudgetTypeOK
  /\ \A s \in Subjects : IsSuffix(Held(s), s)
  /\ BudgetHolds
-----------------------------------------------------------------------------
(* The sweep drops a prefix, all of it expired, and what is left does not  *)
(* begin with an expired message.                                          *)
LEMMA FreshFacts ==
  ASSUME BudgetTypeOK, NEW times \in Seq(Times)
  PROVE  \E d \in 0..Len(times) :
           /\ Fresh(times) \in Seq(Times)
           /\ Len(Fresh(times)) = Len(times) - d
           /\ \A i \in 1..Len(times) - d : Fresh(times)[i] = times[d + i]
           /\ \A i \in 1..d : times[i] <= now - Window
           /\ d < Len(times) => times[d + 1] > now - Window
<1>1. now \in Int /\ Window \in Int /\ Len(times) \in Nat /\ \A i \in 1..Len(times) : times[i] \in Times
  BY BudgetAssumption DEF BudgetTypeOK, Times
<1> DEFINE Stops(i) == i <= Len(times) => ~Expired(times[i])
           First(i) == (\A j \in 1..i - 1 : Expired(times[j])) /\ Stops(i)
           T == {i \in Nat : i \in 1..Len(times) + 1 /\ Stops(i)}
<1>2. \E i \in 1..Len(times) + 1 : First(i)
  <2>1. Len(times) + 1 \in T
    BY <1>1
  <2>2. PICK i \in T : \A j \in T : <<j, i>> \notin OpToRel(<, Nat)
    BY <2>1, WFMin, NatLessThanWellFounded, Zenon
  <2>3. \A j \in T : ~(j < i)
    BY <2>2, Zenon DEF OpToRel
  <2>4. ASSUME NEW j \in 1..i - 1 PROVE Expired(times[j])
    <3>1. j \in 1..Len(times) /\ j < i /\ j \in Nat
      BY <1>1
    <3>2. j \notin T
      BY <3>1, <2>3
    <3> QED
      BY <3>1, <3>2, <1>1
  <2> QED
    BY <2>4
<1> DEFINE first == CHOOSE i \in 1..Len(times) + 1 : First(i)
<1> HIDE DEF First
<1>3. first \in 1..Len(times) + 1 /\ First(first)
  BY <1>2
<1>4. Fresh(times) = SubSeq(times, first, Len(times))
  BY DEF Fresh, First
<1> HIDE DEF first
<1>5. /\ Fresh(times) \in Seq(Times)
      /\ Len(Fresh(times)) = Len(times) - (first - 1)
      /\ \A i \in 1..Len(times) - first + 1 : Fresh(times)[i] = times[first + i - 1]
  BY <1>1, <1>3, <1>4, SubSeqProperties
<1>6. first - 1 \in 0..Len(times) /\ first - 1 + 1 = first
  BY <1>1, <1>3
<1>7. \A i \in 1..Len(times) - (first - 1) : Fresh(times)[i] = times[first - 1 + i]
  BY <1>1, <1>3, <1>5
<1>8. \A i \in 1..first - 1 : times[i] <= now - Window
  BY <1>1, <1>3 DEF First, Expired
<1>9. first - 1 < Len(times) => times[first - 1 + 1] > now - Window
  <2>1. SUFFICES ASSUME first <= Len(times) PROVE times[first] > now - Window
    BY <1>1, <1>6
  <2>2. times[first] \in Times /\ ~Expired(times[first])
    BY <2>1, <1>1, <1>3 DEF First
  <2> QED
    BY <2>2, <1>1 DEF Expired, Times
<1> QED
  BY <1>5, <1>6, <1>7, <1>8, <1>9

(* Swept and looked up again, a subject's window is the unexpired end of   *)
(* its log.                                                                *)
LEMMA WindowFacts ==
  ASSUME BudgetInv, NEW s \in Subjects
  PROVE  /\ WindowOf(s) \in Seq(Times)
         /\ Len(WindowOf(s)) <= Limit
         /\ IsSuffix(WindowOf(s), s)
         /\ WindowOf(s) # <<>> => WindowOf(s)[1] > now - Window
<1> DEFINE held == Held(s)
           fresh == Fresh(held)
<1>1. /\ held \in Seq(Times) /\ Len(held) <= Limit /\ IsSuffix(held, s)
      /\ log[s] \in Seq(Times) /\ Len(log[s]) \in Nat /\ Len(held) \in Nat
      /\ now \in Int /\ Window \in Int /\ Limit \in Nat
  <2>1. <<>> \in Seq(Times) /\ Len(<<>>) = 0 /\ Limit \in Nat
    BY EmptySeq, BudgetAssumption
  <2>2. held \in Seq(Times) /\ Len(held) <= Limit
    <3>1. CASE s \in DOMAIN windows
      <4>1. held = windows[s]
        BY <3>1 DEF Held
      <4>2. windows[s] \in Seq(Times) /\ Len(windows[s]) <= Limit
        BY <3>1 DEF BudgetInv, BudgetTypeOK, Times
      <4> QED
        BY <4>1, <4>2
    <3>2. CASE s \notin DOMAIN windows
      <4>1. held = <<>>
        BY <3>2 DEF Held
      <4> QED
        BY <4>1, <2>1
    <3> QED
      BY <3>1, <3>2
  <2>3. IsSuffix(held, s)
    BY DEF BudgetInv
  <2>4. log[s] \in Seq(Times) /\ now \in Int /\ Window \in Int
    BY BudgetAssumption DEF BudgetInv, BudgetTypeOK, Times
  <2> QED
    BY <2>1, <2>2, <2>3, <2>4, LenProperties
<1> HIDE DEF held
<1>2. PICK d \in 0..Len(held) :
           /\ fresh \in Seq(Times)
           /\ Len(fresh) = Len(held) - d
           /\ \A i \in 1..Len(held) - d : fresh[i] = held[d + i]
           /\ \A i \in 1..d : held[i] <= now - Window
           /\ d < Len(held) => held[d + 1] > now - Window
  BY <1>1, FreshFacts DEF BudgetInv
<1> HIDE DEF fresh
<1>3. WindowOf(s) = fresh
  <2>1. CASE s \in DOMAIN windows
    BY <2>1 DEF WindowOf, Swept, Kept, fresh, held, Held
  <2>2. CASE s \notin DOMAIN windows
    <3>1. held = <<>>
      BY <2>2 DEF held, Held
    <3>2. Len(fresh) = 0
      BY <1>1, <1>2, <3>1
    <3>3. fresh = <<>>
      BY <1>2, <3>2, EmptySeq
    <3> QED
      BY <2>2, <3>3 DEF WindowOf, Kept
  <2> QED
    BY <2>1, <2>2
<1>4. IsSuffix(fresh, s)
  <2> DEFINE n == Len(log[s]) - Len(held)
  <2>1. n \in Nat /\ Len(log[s]) - Len(fresh) = n + d /\ Len(fresh) <= Len(log[s])
    BY <1>1, <1>2 DEF IsSuffix
  <2>2. \A i \in 1..Len(fresh) : fresh[i] = log[s][n + d + i]
    <3> SUFFICES ASSUME NEW i \in 1..Len(fresh) PROVE fresh[i] = log[s][n + d + i]
      OBVIOUS
    <3>1. d + i \in 1..Len(held) /\ fresh[i] = held[d + i]
      BY <1>1, <1>2
    <3>2. held[d + i] = log[s][n + (d + i)]
      BY <3>1, <1>1 DEF IsSuffix
    <3> QED
      BY <3>1, <3>2, <2>1, <1>1
  <2>3. \A i \in 1..n + d : log[s][i] <= now - Window
    <3> SUFFICES ASSUME NEW i \in 1..n + d PROVE log[s][i] <= now - Window
      OBVIOUS
    <3>1. CASE i \in 1..n
      BY <3>1, <1>1 DEF IsSuffix
    <3>2. CASE i > n
      <4>1. i - n \in 1..d /\ i - n \in 1..Len(held)
        BY <3>2, <1>1, <2>1
      <4>2. held[i - n] = log[s][n + (i - n)]
        BY <4>1, <1>1 DEF IsSuffix
      <4>3. n + (i - n) = i
        <5>1. i \in Int /\ n \in Int
          BY <2>1, <1>2
        <5> HIDE DEF n
        <5> QED
          BY <5>1
      <4> QED
        BY <4>1, <4>2, <4>3, <1>2
    <3> QED
      BY <3>1, <3>2, <2>1
  <2> HIDE DEF n
  <2> QED
    BY <2>1, <2>2, <2>3 DEF IsSuffix
<1>5. fresh # <<>> => fresh[1] > now - Window
  <2> SUFFICES ASSUME fresh # <<>> PROVE fresh[1] > now - Window
    OBVIOUS
  <2>1. Len(fresh) > 0
    BY <1>2, EmptySeq
  <2> QED
    BY <2>1, <1>1, <1>2
<1> QED
  BY <1>1, <1>2, <1>3, <1>4, <1>5

(* A check replaces the subject's window and sweeps the others.            *)
LEMMA ChargedWindows ==
  ASSUME NEW s \in Subjects, Charge(s)
  PROVE  /\ DOMAIN windows' = Kept \union {s}
         /\ \A t \in Subjects :
              Held(t)' = IF t = s
                         THEN IF Limited(s) THEN WindowOf(s) ELSE Append(WindowOf(s), now)
                         ELSE WindowOf(t)
<1> DEFINE new == IF Limited(s) THEN WindowOf(s) ELSE Append(WindowOf(s), now)
<1>2. \A t \in Kept : Swept[t] = WindowOf(t)
  BY DEF WindowOf
<1>3. windows' = [t \in Kept \union {s} |-> IF t # s THEN Swept[t] ELSE new]
  BY DEF Charge
<1> HIDE DEF new
<1>4. DOMAIN windows' = Kept \union {s}
  BY <1>3
<1>5. ASSUME NEW t \in Subjects
      PROVE  Held(t)' = IF t = s THEN new ELSE WindowOf(t)
  <2>1. CASE t = s
    BY <2>1, <1>3 DEF Held
  <2>2. CASE t # s /\ t \in Kept
    BY <2>2, <1>2, <1>3 DEF Held
  <2>3. CASE t # s /\ t \notin Kept
    BY <2>3, <1>4 DEF Held, WindowOf
  <2> QED
    BY <2>1, <2>2, <2>3
<1> QED
  BY <1>4, <1>5 DEF new

(* A message is admitted only when the one Limit before it has expired.    *)
LEMMA ChargeStep ==
  ASSUME BudgetInv, NEW s \in Subjects, Charge(s)
  PROVE  BudgetInv'
<1> DEFINE w == WindowOf(s)
           new == IF Limited(s) THEN w ELSE Append(w, now)
<1>1. /\ w \in Seq(Times) /\ Len(w) <= Limit /\ Len(w) \in Nat /\ IsSuffix(w, s)
      /\ log[s] \in Seq(Times) /\ Len(log[s]) \in Nat
      /\ now \in Times /\ now \in Int /\ Window \in Nat /\ Limit \in Nat \ {0}
  <2>1. w \in Seq(Times) /\ Len(w) <= Limit /\ IsSuffix(w, s)
    BY WindowFacts
  <2>2. log[s] \in Seq(Times) /\ now \in Times
    BY DEF BudgetInv, BudgetTypeOK, Times
  <2> QED
    BY <2>1, <2>2, BudgetAssumption, LenProperties DEF Times
<1>2. now' = now /\ log' = IF Limited(s) THEN log ELSE [log EXCEPT ![s] = Append(@, now)]
  BY DEF Charge
<1>3. log \in [Subjects -> Seq(Times)]
  BY DEF BudgetInv, BudgetTypeOK, Times
<1>4. \A t \in Subjects : Held(t)' = IF t = s THEN new ELSE WindowOf(t)
  BY ChargedWindows
<1>5. Limited(s) <=> Len(w) = Limit
  BY <1>1 DEF Limited
<1> HIDE DEF w
<1>6. ~Limited(s) => /\ new = Append(w, now) /\ new \in Seq(Times)
                     /\ Len(new) = Len(w) + 1 /\ Len(new) <= Limit
                     /\ new[Len(w) + 1] = now /\ \A i \in 1..Len(w) : new[i] = w[i]
  BY <1>1, <1>5, AppendProperties
<1>7. Limited(s) => new = w /\ log' = log
  BY <1>2
<1>8. ~Limited(s) => /\ log' \in [Subjects -> Seq(Times)]
                     /\ log'[s] = Append(log[s], now) /\ Len(log'[s]) = Len(log[s]) + 1
                     /\ log'[s][Len(log[s]) + 1] = now
                     /\ \A i \in 1..Len(log[s]) : log'[s][i] = log[s][i]
                     /\ \A t \in Subjects \ {s} : log'[t] = log[t]
  BY <1>1, <1>2, <1>3, AppendProperties
<1> HIDE DEF new
<1>9. BudgetTypeOK'
  <2>1. \A t \in Subjects : Held(t)' \in Seq(Times) /\ Len(Held(t)') <= Limit
    <3> SUFFICES ASSUME NEW t \in Subjects
                 PROVE  Held(t)' \in Seq(Times) /\ Len(Held(t)') <= Limit
      OBVIOUS
    <3>1. CASE t = s
      BY <3>1, <1>1, <1>4, <1>6, <1>7
    <3>2. CASE t # s
      BY <3>2, <1>4, WindowFacts
    <3> QED
      BY <3>1, <3>2
  <2>2. DOMAIN windows' \subseteq Subjects
    BY ChargedWindows DEF Kept, BudgetInv, BudgetTypeOK
  <2>3. \A t \in DOMAIN windows' : windows'[t] \in Seq(Times) /\ Len(windows'[t]) <= Limit
    BY <2>1, <2>2 DEF Held
  <2>4. now' \in 0..MaxTime /\ log' \in [Subjects -> Seq(0..MaxTime)]
    BY <1>1, <1>2, <1>3, <1>8 DEF Times
  <2> QED
    BY <2>2, <2>3, <2>4 DEF BudgetTypeOK, Times
<1>10. ASSUME NEW t \in Subjects
       PROVE  IsSuffix(Held(t), t)'
  <2>1. CASE t # s
    <3>1. log'[t] = log[t] /\ Held(t)' = WindowOf(t) /\ now' = now
      BY <2>1, <1>2, <1>4, <1>8
    <3> QED
      BY <3>1, WindowFacts DEF IsSuffix
  <2>2. CASE t = s /\ Limited(s)
    <3>1. log'[t] = log[s] /\ Held(t)' = w /\ now' = now
      BY <2>2, <1>2, <1>4, <1>7
    <3> QED
      BY <2>2, <3>1, <1>1 DEF IsSuffix
  <2>3. CASE t = s /\ ~Limited(s)
    <3>1. Held(t)' = new /\ now' = now /\ Len(log'[s]) - Len(new) = Len(log[s]) - Len(w)
      <4>1. \A x, y \in Nat : (x + 1) - (y + 1) = x - y
        OBVIOUS
      <4>2. Len(log'[s]) = Len(log[s]) + 1 /\ Len(new) = Len(w) + 1
        BY <2>3, <1>6, <1>8
      <4>3. Len(log'[s]) - Len(new) = Len(log[s]) - Len(w)
        BY <4>1, <4>2, <1>1
      <4> QED
        BY <2>3, <4>3, <1>2, <1>4
    <3>2. Len(new) <= Len(log'[s])
      BY <2>3, <1>1, <1>6, <1>8 DEF IsSuffix
    <3>3. \A i \in 1..Len(new) : new[i] = log'[s][Len(log[s]) - Len(w) + i]
      <4> SUFFICES ASSUME NEW i \in 1..Len(new)
                   PROVE  new[i] = log'[s][Len(log[s]) - Len(w) + i]
        OBVIOUS
      <4>1. CASE i = Len(w) + 1
        <5>1. \A x, y \in Nat : x - y + (y + 1) = x + 1
          OBVIOUS
        <5>2. Len(log[s]) - Len(w) + i = Len(log[s]) + 1
          BY <4>1, <5>1, <1>1
        <5> QED
          BY <4>1, <5>2, <2>3, <1>6, <1>8
      <4>2. CASE i \in 1..Len(w)
        <5>1. Len(log[s]) - Len(w) + i \in 1..Len(log[s])
          BY <4>2, <1>1 DEF IsSuffix
        <5>2. w[i] = log[s][Len(log[s]) - Len(w) + i]
          BY <4>2, <1>1 DEF IsSuffix
        <5> QED
          BY <4>2, <5>1, <5>2, <2>3, <1>6, <1>8
      <4> QED
        BY <4>1, <4>2, <2>3, <1>1, <1>6
    <3>4. \A i \in 1..Len(log[s]) - Len(w) : log'[s][i] <= now - Window
      <4> SUFFICES ASSUME NEW i \in 1..Len(log[s]) - Len(w)
                   PROVE  log'[s][i] <= now - Window
        OBVIOUS
      <4>1. i \in 1..Len(log[s])
        BY <1>1
      <4> QED
        BY <4>1, <2>3, <1>1, <1>8 DEF IsSuffix
    <3> QED
      BY <2>3, <3>1, <3>2, <3>3, <3>4 DEF IsSuffix
  <2> QED
    BY <2>1, <2>2, <2>3
<1>11. BudgetHolds'
  <2> SUFFICES ASSUME NEW t \in Subjects, NEW i \in 1..Len(log'[t]),
                      i + Limit <= Len(log'[t])
               PROVE  log'[t][i + Limit] - log'[t][i] >= Window
    BY DEF BudgetHolds
  <2>1. CASE t # s \/ Limited(s)
    <3>1. log'[t] = log[t]
      BY <2>1, <1>2, <1>7, <1>8
    <3> QED
      BY <3>1 DEF BudgetInv, BudgetHolds
  <2>2. CASE t = s /\ ~Limited(s) /\ i + Limit <= Len(log[s])
    <3>1. i \in 1..Len(log[s]) /\ i + Limit \in 1..Len(log[s])
      BY <2>2, <1>1, <1>8
    <3>2. log[s][i + Limit] - log[s][i] >= Window
      BY <2>2, <3>1 DEF BudgetInv, BudgetHolds
    <3> QED
      BY <2>2, <3>1, <3>2, <1>8
  <2>3. CASE t = s /\ ~Limited(s) /\ i + Limit = Len(log[s]) + 1
    <3>1. i \in 1..Len(log[s]) - Len(w) /\ i \in 1..Len(log[s])
      BY <2>3, <1>1, <1>5, <1>8
    <3>2. log[s][i] <= now - Window
      BY <3>1, <1>1 DEF IsSuffix
    <3>3. log'[t][i + Limit] = now /\ log'[t][i] = log[s][i] /\ log[s][i] \in Int
      <4>1. log'[s][Len(log[s]) + 1] = now /\ log'[s][i] = log[s][i]
        BY <2>3, <3>1, <1>8
      <4>2. log[s][i] \in Times
        BY <3>1, <1>1
      <4> QED
        BY <2>3, <4>1, <4>2, BudgetAssumption DEF Times
    <3> QED
      BY <3>2, <3>3, <1>1
  <2>4. t = s /\ ~Limited(s) => i + Limit <= Len(log[s]) \/ i + Limit = Len(log[s]) + 1
    <3>1. ~Limited(s) => Len(log'[s]) = Len(log[s]) + 1 /\ Len(log[s]) \in Nat /\ Limit \in Nat
      BY <1>1, <1>8
    <3>2. i \in Int
      OBVIOUS
    <3> QED
      BY <3>1, <3>2
  <2> QED
    BY <2>1, <2>2, <2>3, <2>4
<1> QED
  BY <1>9, <1>10, <1>11 DEF BudgetInv

(* The clock and the charges keep the budget. *)
LEMMA BudgetStep ==
  ASSUME BudgetInv, BudgetNext \/ UNCHANGED budget
  PROVE  BudgetInv'
<1>1. CASE Tick
  <2>1. now' = now + 1 /\ now' \in 0..MaxTime /\ now \in Int /\ windows' = windows /\ log' = log
    BY <1>1, BudgetAssumption DEF Tick, BudgetInv, BudgetTypeOK
  <2>2. BudgetTypeOK' /\ BudgetHolds'
    BY <2>1 DEF BudgetInv, BudgetTypeOK, BudgetHolds
  <2>3. ASSUME NEW s \in Subjects PROVE IsSuffix(Held(s), s)'
    <3>1. Held(s)' = Held(s) /\ IsSuffix(Held(s), s)
      BY <2>1 DEF Held, BudgetInv
    <3>2. \A i \in 1..Len(log[s]) - Len(Held(s)) : log[s][i] <= now' - Window
      <4> SUFFICES ASSUME NEW i \in 1..Len(log[s]) - Len(Held(s))
                   PROVE  log[s][i] <= now' - Window
        OBVIOUS
      <4>1. log[s] \in Seq(0..MaxTime) /\ Held(s) \in Seq(Times)
        <5>1. CASE s \in DOMAIN windows
          BY <5>1 DEF BudgetInv, BudgetTypeOK, Held, Times
        <5>2. CASE s \notin DOMAIN windows
          BY <5>2, EmptySeq DEF BudgetInv, BudgetTypeOK, Held, Times
        <5> QED
          BY <5>1, <5>2
      <4>2. i \in 1..Len(log[s]) /\ log[s][i] \in 0..MaxTime /\ log[s][i] \in Int
        <5>1. Len(log[s]) \in Nat /\ Len(Held(s)) \in Nat
          BY <4>1, LenProperties
        <5>2. i \in 1..Len(log[s])
          BY <5>1
        <5> QED
          BY <5>2, <4>1, BudgetAssumption
      <4>3. log[s][i] <= now - Window
        BY <3>1 DEF IsSuffix
      <4> QED
        BY <4>2, <4>3, <2>1, BudgetAssumption
    <3> QED
      BY <2>1, <3>1, <3>2 DEF IsSuffix
  <2> QED
    BY <2>2, <2>3 DEF BudgetInv
<1>2. CASE \E s \in Subjects : Charge(s)
  BY <1>2, ChargeStep
<1>3. CASE UNCHANGED budget
  BY <1>3 DEF budget, BudgetInv, BudgetTypeOK, IsSuffix, Held, BudgetHolds
<1> QED
  BY <1>1, <1>2, <1>3 DEF BudgetNext

(* Who is over the budget really sent Limit messages within the Window.    *)
LEMMA SpentFacts ==
  ASSUME BudgetInv, NEW s \in Subjects, Limited(s)
  PROVE  Len(log[s]) >= Limit /\ log[s][Len(log[s]) - Limit + 1] > now - Window
<1> DEFINE w == WindowOf(s)
<1>1. /\ w \in Seq(Times) /\ Len(w) \in Nat /\ Len(w) <= Limit /\ IsSuffix(w, s)
      /\ w # <<>> => w[1] > now - Window
  BY WindowFacts, LenProperties
<1>2. Len(log[s]) \in Nat /\ Limit \in Nat \ {0}
  BY BudgetAssumption, LenProperties DEF BudgetInv, BudgetTypeOK
<1>3. Len(w) = Limit
  BY <1>1, <1>2 DEF Limited
<1> HIDE DEF w
<1>4. w # <<>> /\ 1 \in 1..Len(w)
  BY <1>2, <1>3, EmptySeq
<1>5. w[1] = log[s][Len(log[s]) - Limit + 1] /\ Len(log[s]) >= Limit
  BY <1>1, <1>3, <1>4 DEF IsSuffix
<1> QED
  BY <1>1, <1>4, <1>5
-----------------------------------------------------------------------------
ServiceTypes ==
  /\ pc \in [Conns -> {"gone", "first", "bind", "greet", "loop", "await"}]
  /\ closed \in [Conns -> Reasons \union {"open"}]
  /\ late \in [Conns -> BOOLEAN]
  /\ user \in [Conns -> Subjects \union {None}]
  /\ session \in [Conns -> 1..MaxSessions \union {None}]
  /\ queue \in [Conns -> BOOLEAN]
  /\ task \in [Conns -> {"none", "running", "cancelled"}]
  /\ owner \in Seq(Subjects) /\ Len(owner) <= MaxSessions
  /\ runner \in BOOLEAN

(* What a handler has by where it is: a user once it is authenticated, a   *)
(* session and a task once it is bound, and until it ends an open queue    *)
(* only while it serves.                                                   *)
ConnOK(c) ==
  /\ pc[c] \in {"bind", "greet", "loop", "await"} => user[c] \in Subjects
  /\ pc[c] \in {"gone", "first", "bind"} => session[c] = None /\ task[c] = "none"
  /\ pc[c] \in {"first", "bind", "await"} => ~queue[c]
  /\ session[c] # None =>
       session[c] \in DOMAIN owner /\ owner[session[c]] = user[c]

ServiceInv == ServiceTypes /\ \A c \in Conns : ConnOK(c)

LiveInv == BudgetInv /\ ServiceInv

(* Every step of the service is a step of the budget or leaves it alone.   *)
LEMMA StepsOfBudget ==
  ASSUME ServiceInv, [Next]_vars
  PROVE  BudgetNext \/ UNCHANGED budget
<1>1. CASE Tick
  BY <1>1 DEF BudgetNext
<1>2. ASSUME NEW c \in Conns, Receive(c)
      PROVE  BudgetNext \/ UNCHANGED budget
  <2>1. user[c] \in Subjects
    BY <1>2 DEF ServiceInv, ConnOK, Receive
  <2> QED
    BY <1>2, <2>1 DEF Receive, Accept, Decline, OverBudget, Junk, BudgetNext
<1>3. ASSUME NEW c \in Conns,
             Connect(c) \/ Leave(c) \/ (Handler(c) /\ ~Receive(c)) \/ Oversize(c) \/ TaskEnds(c)
      PROVE  UNCHANGED budget
  BY <1>3 DEF Connect, Leave, Handler, FirstFrame, FirstDisconnect, Resume, Create, Serve,
              BindFails, BuildFails, Greet, Disconnect, AwaitTask, Oversize, TaskEnds
<1>4. CASE UNCHANGED vars
  BY <1>4 DEF vars
<1> QED
  BY <1>1, <1>2, <1>3, <1>4 DEF Next

(* A handler or its task changes nothing of the other connections'; the    *)
(* store only grows.                                                       *)
Alone(c) ==
  /\ \A d \in Conns \ {c} : /\ pc'[d] = pc[d] /\ user'[d] = user[d]
                            /\ session'[d] = session[d]
                            /\ queue'[d] = queue[d] /\ task'[d] = task[d]
  /\ DOMAIN owner \subseteq DOMAIN owner'
  /\ \A id \in DOMAIN owner : owner'[id] = owner[id]

(* A step that is of one connection alone has that one to look at. *)
LEMMA AloneFacts ==
  ASSUME ServiceInv, NEW c \in Conns, ServiceTypes', Alone(c), ConnOK(c)'
  PROVE  ServiceInv'
<1> SUFFICES ASSUME NEW d \in Conns \ {c} PROVE ConnOK(d)'
  BY DEF ServiceInv
<1>1. ConnOK(d)
  BY DEF ServiceInv
<1> QED
  BY <1>1 DEF ConnOK, Alone

(* A connection that authenticates keeps the invariant. *)
LEMMA AuthenticatedFacts ==
  ASSUME ServiceInv, NEW c \in Conns, NEW s \in Subjects, pc[c] \in {"gone", "first"},
         Authenticated(c, s), late' \in [Conns -> BOOLEAN],
         queue' = [queue EXCEPT ![c] = FALSE], UNCHANGED <<owner, runner>>
  PROVE  ServiceInv'
<1>1. ServiceTypes'
  BY DEF ServiceInv, ServiceTypes, Authenticated, Goto
<1>2. ConnOK(c)' /\ Alone(c)
  BY DEF ServiceInv, ServiceTypes, ConnOK, Alone, Authenticated, Goto
<1> QED
  BY <1>1, <1>2, AloneFacts

(* A handler returns only when its task has ended.                         *)
LEMMA ReturnFacts ==
  ASSUME ServiceInv, NEW c \in Conns, Return(c), task[c] = "none", UNCHANGED task,
         NEW open \in BOOLEAN, queue' = [queue EXCEPT ![c] = open],
         owner' \in Seq(Subjects), Len(owner') <= MaxSessions,
         UNCHANGED runner, DOMAIN owner \subseteq DOMAIN owner',
         \A id \in DOMAIN owner : owner'[id] = owner[id]
  PROVE  ServiceInv'
<1>1. ServiceTypes'
  BY DEF ServiceInv, ServiceTypes, Return, Goto
<1>2. ConnOK(c)' /\ Alone(c)
  BY DEF ServiceInv, ServiceTypes, ConnOK, Alone, Return, Goto
<1> QED
  BY <1>1, <1>2, AloneFacts

(* Connecting keeps the invariant. *)
LEMMA ConnectStep ==
  ASSUME ServiceInv, NEW c \in Conns, Connect(c)
  PROVE  ServiceInv'
<1>1. /\ pc[c] = "gone" /\ task[c] = "none" /\ queue' = [queue EXCEPT ![c] = FALSE]
      /\ UNCHANGED <<owner, runner>>
      /\ owner \in Seq(Subjects) /\ Len(owner) <= MaxSessions /\ late \in [Conns -> BOOLEAN]
  BY DEF Connect, ServiceInv, ServiceTypes, ConnOK
<1>2. ASSUME NEW s \in Subjects, Authenticated(c, s), UNCHANGED late
      PROVE  ServiceInv'
  BY <1>1, <1>2, AuthenticatedFacts
<1>3. CASE Rejected(c)
  BY <1>1, <1>3, ReturnFacts DEF Rejected
<1>4. CASE Goto(c, "first") /\ UNCHANGED <<closed, late, user, session, task>>
  <2>1. ServiceTypes'
    BY <1>1, <1>4 DEF ServiceInv, ServiceTypes, Goto
  <2>2. ConnOK(c)' /\ Alone(c)
    BY <1>1, <1>4 DEF ServiceInv, ServiceTypes, ConnOK, Alone, Goto
  <2> QED
    BY <2>1, <2>2, AloneFacts
<1> QED
  BY <1>2, <1>3, <1>4 DEF Connect

(* So does whatever comes first from an open connection. *)
LEMMA FirstStep ==
  ASSUME ServiceInv, NEW c \in Conns, FirstFrame(c) \/ FirstDisconnect(c)
  PROVE  ServiceInv'
<1>1. /\ pc[c] = "first" /\ task[c] = "none" /\ queue' = [queue EXCEPT ![c] = FALSE]
      /\ UNCHANGED <<owner, runner>>
      /\ owner \in Seq(Subjects) /\ Len(owner) <= MaxSessions /\ late \in [Conns -> BOOLEAN]
  BY DEF FirstFrame, FirstDisconnect, ServiceInv, ServiceTypes, ConnOK
<1>2. ASSUME NEW s \in Subjects, Authenticated(c, s), late' = [late EXCEPT ![c] = FALSE]
      PROVE  ServiceInv'
  <2>1. late' \in [Conns -> BOOLEAN]
    BY <1>1, <1>2
  <2> QED
    BY <1>1, <1>2, <2>1, AuthenticatedFacts
<1>3. CASE Rejected(c)
  BY <1>1, <1>3, ReturnFacts DEF Rejected
<1> QED
  BY <1>2, <1>3 DEF FirstFrame, FirstDisconnect

(* So do a client that leaves and a task that ends. *)
LEMMA ClientAndTaskStep ==
  ASSUME ServiceInv, NEW c \in Conns, Leave(c) \/ Oversize(c) \/ TaskEnds(c)
  PROVE  ServiceInv'
BY DEF ServiceInv, ServiceTypes, ConnOK, Leave, Oversize, TaskEnds, Close, Reasons

(* A connection that is bound to a session of its subject may be served. *)
LEMMA ServeFacts ==
  ASSUME ServiceInv, NEW c \in Conns, NEW id \in 1..MaxSessions, Serve(c, id),
         user[c] \in Subjects, owner' \in Seq(Subjects), Len(owner') <= MaxSessions,
         DOMAIN owner \subseteq DOMAIN owner',
         \A i \in DOMAIN owner : owner'[i] = owner[i],
         id \in DOMAIN owner', owner'[id] = user[c]
  PROVE  ServiceInv'
<1>1. ServiceTypes'
  BY DEF ServiceInv, ServiceTypes, Serve, Goto
<1>2. ConnOK(c)' /\ Alone(c)
  BY DEF ServiceInv, ServiceTypes, ConnOK, Alone, Serve, Goto
<1> QED
  BY <1>1, <1>2, AloneFacts

(* The store grows by one session of the user.                             *)
LEMMA OwnerGrows ==
  ASSUME ServiceInv, NEW c \in Conns, user[c] \in Subjects, Len(owner) < MaxSessions,
         owner' = Append(owner, user[c])
  PROVE  /\ owner' \in Seq(Subjects) /\ Len(owner') <= MaxSessions
         /\ DOMAIN owner \subseteq DOMAIN owner'
         /\ \A i \in DOMAIN owner : owner'[i] = owner[i]
         /\ Len(owner') \in 1..MaxSessions /\ Len(owner') \in DOMAIN owner'
         /\ owner'[Len(owner')] = user[c]
<1>1. owner \in Seq(Subjects) /\ Len(owner) \in Nat /\ DOMAIN owner = 1..Len(owner)
  BY LenProperties DEF ServiceInv, ServiceTypes
<1>2. /\ owner' \in Seq(Subjects) /\ Len(owner') = Len(owner) + 1
      /\ \A i \in 1..Len(owner) : owner'[i] = owner[i]
      /\ owner'[Len(owner) + 1] = user[c]
  BY <1>1, AppendProperties
<1>3. DOMAIN owner' = 1..Len(owner')
  BY <1>2, LenProperties
<1> QED
  BY <1>1, <1>2, <1>3, LiveAssumption

(* Binding, by whatever way it goes or fails, keeps the invariant. *)
LEMMA BindStep ==
  ASSUME ServiceInv, NEW c \in Conns,
         (\E id \in 1..MaxSessions : Resume(c, id)) \/ Create(c) \/ BuildFails(c) \/ BindFails(c)
  PROVE  ServiceInv'
<1>1. /\ pc[c] = "bind" /\ task[c] = "none" /\ queue = [queue EXCEPT ![c] = FALSE]
      /\ user[c] \in Subjects /\ owner \in Seq(Subjects) /\ Len(owner) <= MaxSessions
  BY DEF Resume, Create, BuildFails, BindFails, ServiceInv, ServiceTypes, ConnOK
<1>2. ASSUME NEW id \in 1..MaxSessions, Resume(c, id) PROVE ServiceInv'
  BY <1>1, <1>2, ServeFacts DEF Resume, MayUse
<1>3. CASE Create(c)
  <2>1. Len(owner) < MaxSessions /\ owner' = Append(owner, user[c]) /\ Serve(c, Len(owner'))
    BY <1>3 DEF Create
  <2> QED
    BY <1>1, <2>1, OwnerGrows, ServeFacts
<1>4. CASE BuildFails(c)
  <2>1. /\ queue' = [queue EXCEPT ![c] = TRUE]
        /\ Return(c) /\ UNCHANGED <<budget, task, runner>>
    BY <1>4 DEF BuildFails
  <2>2. CASE UNCHANGED owner
    BY <1>1, <2>1, <2>2, ReturnFacts
  <2>3. CASE Len(owner) < MaxSessions /\ owner' = Append(owner, user[c])
    BY <1>1, <2>1, <2>3, OwnerGrows, ReturnFacts
  <2> QED
    BY <1>4, <2>2, <2>3 DEF BuildFails
<1>5. CASE BindFails(c)
  BY <1>1, <1>5, ReturnFacts DEF BindFails
<1> QED
  BY <1>2, <1>3, <1>4, <1>5

(* Serving, a handler stays in its loop or cleans up.                      *)
LEMMA ServingFacts ==
  ASSUME ServiceInv, NEW c \in Conns, pc[c] \in {"greet", "loop"},
         \/ Goto(c, "loop") /\ UNCHANGED <<queue, task>>
         \/ Finally(c),
         closed' \in [Conns -> Reasons \union {"open"}], late' \in [Conns -> BOOLEAN],
         UNCHANGED <<user, session, owner, runner>>
  PROVE  ServiceInv'
<1>1. ServiceTypes'
  BY DEF ServiceInv, ServiceTypes, Finally, Goto
<1>2. ConnOK(c)' /\ Alone(c)
  BY DEF ServiceInv, ServiceTypes, ConnOK, Alone, Finally, Goto
<1> QED
  BY <1>1, <1>2, AloneFacts

(* So does what is received. *)
LEMMA ServingStep ==
  ASSUME ServiceInv, NEW c \in Conns, Greet(c) \/ Receive(c) \/ Disconnect(c)
  PROVE  ServiceInv'
<1>1. closed \in [Conns -> Reasons \union {"open"}] /\ late \in [Conns -> BOOLEAN]
  BY DEF ServiceInv, ServiceTypes
<1>2. CASE Greet(c) \/ Disconnect(c)
  BY <1>1, <1>2, ServingFacts DEF Greet, ReceiveNext, Disconnect
<1>3. CASE Receive(c)
  <2>1. closed' \in [Conns -> Reasons \union {"open"}]
    BY <1>1, <1>3 DEF Receive, Accept, Decline, OverBudget, Junk, Close, Reasons
  <2>2. (Goto(c, "loop") /\ UNCHANGED <<queue, task>>) \/ Finally(c)
    BY <1>3 DEF Receive, Accept, Decline, OverBudget, Junk, ReceiveNext
  <2>3. /\ pc[c] = "loop" /\ late' \in [Conns -> BOOLEAN]
        /\ UNCHANGED <<user, session, owner, runner>>
    BY <1>1, <1>3 DEF Receive
  <2> QED
    BY <2>1, <2>2, <2>3, ServingFacts
<1> QED
  BY <1>2, <1>3

(* So does a handler that has awaited its task. *)
LEMMA AwaitStep ==
  ASSUME ServiceInv, NEW c \in Conns, AwaitTask(c)
  PROVE  ServiceInv'
<1>1. /\ pc[c] = "await" /\ task[c] = "none" /\ queue = [queue EXCEPT ![c] = FALSE]
      /\ owner \in Seq(Subjects) /\ Len(owner) <= MaxSessions
  BY DEF AwaitTask, ServiceInv, ServiceTypes, ConnOK
<1> QED
  BY <1>1, ReturnFacts DEF AwaitTask

(* No connection, no session, no message. *)
LEMMA LiveInit == Init => LiveInv
<1> SUFFICES ASSUME Init PROVE LiveInv
  OBVIOUS
<1>1. BudgetInv
  <2>1. \A s \in Subjects : log[s] = <<>> /\ Held(s) = <<>> /\ Len(<<>>) = 0
    <3>1. Len(<<>>) = 0 /\ DOMAIN windows = {}
      BY EmptySeq DEF Init, BudgetInit
    <3> QED
      BY <3>1 DEF Init, BudgetInit, Held
  <2>2. BudgetTypeOK
    BY EmptySeq, BudgetAssumption DEF Init, BudgetInit, BudgetTypeOK
  <2>3. BudgetHolds
    BY <2>1 DEF BudgetHolds
  <2>4. ASSUME NEW s \in Subjects PROVE IsSuffix(Held(s), s)
    <3>1. Len(log[s]) = 0 /\ Len(Held(s)) = 0
      BY <2>1
    <3>2. Len(Held(s)) <= Len(log[s])
      BY <3>1
    <3>3. 1..Len(Held(s)) = {} /\ 1..Len(log[s]) - Len(Held(s)) = {}
      BY <3>1
    <3> QED
      BY <3>2, <3>3, Zenon DEF IsSuffix
  <2> QED
    BY <2>2, <2>3, <2>4 DEF BudgetInv
<1>2. ServiceInv
  <2>1. owner \in Seq(Subjects) /\ Len(owner) <= MaxSessions
    BY EmptySeq, LiveAssumption DEF Init
  <2> QED
    BY <2>1 DEF Init, ServiceInv, ServiceTypes, ConnOK, Reasons
<1> QED
  BY <1>1, <1>2 DEF LiveInv

(* Every step keeps budget and handlers in order. *)
LEMMA LiveStep == LiveInv /\ [Next]_vars => LiveInv'
<1> SUFFICES ASSUME LiveInv, [Next]_vars PROVE LiveInv'
  OBVIOUS
<1>1. BudgetInv'
  BY BudgetStep, StepsOfBudget DEF LiveInv
<1>2. ServiceInv'
  <2>1. CASE UNCHANGED <<conn, owner, runner>>
    BY <2>1 DEF LiveInv, ServiceInv, ServiceTypes, ConnOK, conn
  <2>2. ASSUME NEW c \in Conns,
               Connect(c) \/ Leave(c) \/ Handler(c) \/ Oversize(c) \/ TaskEnds(c)
        PROVE  ServiceInv'
    BY <2>2, ConnectStep, FirstStep, BindStep, ServingStep, AwaitStep, ClientAndTaskStep
       DEF LiveInv, Handler
  <2> QED
    BY <2>1, <2>2 DEF Next, vars
<1> QED
  BY <1>1, <1>2 DEF LiveInv

(* The inductive invariant holds: what the theorems below follow from.     *)
THEOREM LiveInvariance == Spec => []LiveInv
BY LiveInit, LiveStep, PTL DEF Spec
-----------------------------------------------------------------------------
(* The variables of the service keep their types.                          *)
THEOREM LiveTypes == Spec => []TypeOK
<1>1. LiveInv => TypeOK
  BY DEF LiveInv, BudgetInv, ServiceInv, ServiceTypes, TypeOK
<1> QED
  BY <1>1, LiveInvariance, PTL

(* Whatever the connections and their timing, no Window holds more than    *)
(* Limit of a subject's admitted messages (_message_is_rate_limited).      *)
THEOREM BudgetIsHeld == Spec => []BudgetHolds
<1>1. LiveInv => BudgetHolds
  BY DEF LiveInv, BudgetInv
<1> QED
  BY <1>1, LiveInvariance, PTL

(* A connection streams from a session of its own subject (_session).      *)
THEOREM SessionsAreOwn == Spec => []OwnSessionsOnly
<1>1. LiveInv => OwnSessionsOnly
  BY DEF LiveInv, ServiceInv, ConnOK, OwnSessionsOnly
<1> QED
  BY <1>1, LiveInvariance, PTL

(* A handler that ends leaves no task behind (live's finally), and an open *)
(* queue only if it ended before its try, as the first runner could not be *)
(* built (live, _get_runner).                                              *)
THEOREM HandlersCleanUp == Spec => HandlerCleansUp
<1> DEFINE Clean(c) == /\ task[c] = "none" /\ task'[c] = "none"
                       /\ queue'[c] => pc[c] = "bind" /\ ~runner
           Cleans == \A c \in Conns : pc[c] # "gone" /\ pc'[c] = "gone" =>
                       /\ task[c] = "none" /\ task'[c] = "none"
                       /\ queue'[c] => pc[c] = "bind" /\ ~runner
<1>1. LiveInv /\ [Next]_vars => [Cleans]_vars
  <2> SUFFICES ASSUME LiveInv, [Next]_vars, NEW c \in Conns, pc[c] # "gone", pc'[c] = "gone"
               PROVE  Clean(c)
    OBVIOUS
  <2>1. pc \in [Conns -> {"gone", "first", "bind", "greet", "loop", "await"}] /\ ConnOK(c)
    BY DEF LiveInv, ServiceInv, ServiceTypes
  <2>2. ASSUME NEW d \in Conns,
               \/ Connect(d) \/ Leave(d) \/ Greet(d) \/ Receive(d) \/ Disconnect(d)
               \/ Oversize(d) \/ TaskEnds(d) \/ Create(d)
               \/ \E id \in 1..MaxSessions : Resume(d, id)
        PROVE  FALSE
    <3>1. Connect(d) => pc[d] = "gone" /\ pc' \in {[pc EXCEPT ![d] = x] : x \in {"bind", "gone", "first"}}
      BY DEF Connect, Authenticated, Rejected, Return, Goto
    <3>2. ~Connect(d) => pc' = pc \/ pc' \in {[pc EXCEPT ![d] = x] : x \in {"greet", "loop", "await"}}
      BY <2>2 DEF Leave, Greet, Receive, Accept, Decline, OverBudget, Junk, Disconnect, Oversize,
                  TaskEnds, Create, Resume, Serve, ReceiveNext, Finally, Goto
    <3> QED
      BY <2>1, <3>1, <3>2
  <2>3. PICK d \in Conns : FirstFrame(d) \/ FirstDisconnect(d) \/ BuildFails(d) \/ BindFails(d)
                             \/ AwaitTask(d)
    <3>1. ~UNCHANGED pc
      BY <2>1
    <3> QED
      BY <2>2, <3>1 DEF Next, Handler, vars, conn
  <2>4. d = c
    BY <2>1, <2>3 DEF FirstFrame, FirstDisconnect, Authenticated, Rejected, BuildFails, BindFails,
                      AwaitTask, Return, Goto
  <2>5. CASE FirstFrame(c) \/ FirstDisconnect(c) \/ BindFails(c) \/ AwaitTask(c)
    BY <2>1, <2>5 DEF ConnOK, FirstFrame, FirstDisconnect, Authenticated, Rejected, BindFails, AwaitTask
  <2>6. CASE BuildFails(c)
    BY <2>1, <2>6 DEF ConnOK, BuildFails
  <2> QED
    BY <2>3, <2>4, <2>5, <2>6
<1> QED
  BY <1>1, LiveInvariance, PTL DEF Spec, HandlerCleansUp

(* Only a subject that sent Limit messages within the last Window has a    *)
(* connection closed for it (_message_is_rate_limited, 4429).              *)
THEOREM RefusalsAreSpent == Spec => RefusedOnlyWhenSpent
<1> DEFINE Spent(s) == LET sent == log[s]
                       IN  Len(sent) >= Limit /\ sent[Len(sent) - Limit + 1] > now - Window
           Refuses == \A c \in Conns : closed[c] = "open" /\ closed'[c] = "budget" =>
                        LET sent == log[user[c]]
                        IN  Len(sent) >= Limit /\ sent[Len(sent) - Limit + 1] > now - Window
<1>1. LiveInv /\ [Next]_vars => [Refuses]_vars
  <2> SUFFICES ASSUME LiveInv, [Next]_vars, NEW c \in Conns,
                      closed[c] = "open", closed'[c] = "budget"
               PROVE  Spent(user[c])
    OBVIOUS
  <2>1. closed \in [Conns -> Reasons \union {"open"}]
    BY DEF LiveInv, ServiceInv, ServiceTypes
  <2>2. ASSUME NEW d \in Conns,
               Connect(d) \/ Leave(d) \/ (Handler(d) /\ ~Receive(d)) \/ Oversize(d) \/ TaskEnds(d)
        PROVE  FALSE
    BY <2>1, <2>2
       DEF Connect, Leave, Handler, FirstFrame, FirstDisconnect, Authenticated, Rejected,
           Resume, Create, Serve, BindFails, BuildFails, Greet, Disconnect, AwaitTask,
           Oversize, TaskEnds, Return, Close
  <2>3. PICK d \in Conns : Receive(d)
    <3>1. ~UNCHANGED closed
      BY <2>1
    <3> QED
      BY <2>2, <3>1 DEF Next, vars, conn
  <2>4. OverBudget(d) /\ d = c
    BY <2>1, <2>3 DEF Receive, Accept, Decline, OverBudget, Junk, Close
  <2>5. user[c] \in Subjects /\ Limited(user[c])
    BY <2>3, <2>4 DEF LiveInv, ServiceInv, ConnOK, Receive, OverBudget
  <2> QED
    BY <2>5, SpentFacts DEF LiveInv
<1> QED
  BY <1>1, LiveInvariance, PTL DEF Spec, RefusedOnlyWhenSpent

(* A check leaves no window behind that has expired, whoever's it was: the *)
(* map does not grow with the subjects (_message_is_rate_limited).         *)
THEOREM WindowsAreSwept == Spec => WindowsSwept
<1> DEFINE Sweeps == windows' # windows =>
                       \A s \in DOMAIN windows' :
                         \E i \in 1..Len(log'[s]) : log'[s][i] > now - Window
<1>1. LiveInv /\ LiveInv' /\ [Next]_vars => [Sweeps]_budget
  <2> SUFFICES ASSUME LiveInv, LiveInv', [Next]_vars, windows' # windows,
                      NEW t \in DOMAIN windows'
               PROVE  \E i \in 1..Len(log'[t]) : log'[t][i] > now - Window
    OBVIOUS
  <2>1. PICK s \in Subjects : Charge(s)
    BY StepsOfBudget DEF LiveInv, BudgetNext, Tick, budget
  <2>2. BudgetInv /\ BudgetInv' /\ t \in Subjects /\ now' = now
    BY <2>1 DEF LiveInv, BudgetInv, BudgetTypeOK, Charge
  <2> DEFINE w == WindowOf(t)
  <2>3. /\ w \in Seq(Times) /\ Len(w) \in Nat /\ IsSuffix(w, t)
        /\ w # <<>> => w[1] > now - Window
    BY <2>2, WindowFacts, LenProperties
  <2> HIDE DEF w
  <2>4. log[t] \in Seq(Times) /\ Len(log[t]) \in Nat /\ now \in Times /\ now \in Int /\ Window \in Nat \ {0}
    BY <2>2, BudgetAssumption, LenProperties DEF BudgetInv, BudgetTypeOK, Times
  <2>5. CASE log'[t] = log[t] /\ w # <<>>
    <3>1. Len(w) > 0 /\ 1 \in 1..Len(w)
      BY <2>3, <2>5, EmptySeq
    <3>2. w[1] = log[t][Len(log[t]) - Len(w) + 1]
      BY <3>1, <2>3 DEF IsSuffix
    <3>3. Len(log[t]) - Len(w) + 1 \in 1..Len(log[t])
      BY <3>1, <2>3, <2>4 DEF IsSuffix
    <3> QED
      BY <2>3, <2>5, <3>2, <3>3
  <2>6. CASE log'[t] = Append(log[t], now)
    <3>1. Len(log'[t]) = Len(log[t]) + 1 /\ log'[t][Len(log[t]) + 1] = now
      BY <2>4, <2>6, AppendProperties
    <3>2. Len(log[t]) + 1 \in 1..Len(log'[t]) /\ now > now - Window
      BY <3>1, <2>4
    <3> QED
      BY <3>1, <3>2
  <2>7. log'[t] = Append(log[t], now) \/ (log'[t] = log[t] /\ w # <<>>)
    <3>1. log \in [Subjects -> Seq(0..MaxTime)]
      BY <2>2 DEF BudgetInv, BudgetTypeOK
    <3>2. CASE t # s
      <4>1. t \in Kept /\ log'[t] = log[t]
        BY <2>1, <3>1, <3>2, ChargedWindows DEF Charge
      <4> QED
        BY <4>1 DEF WindowOf, Swept, Kept, w
    <3>3. CASE t = s /\ ~Limited(s)
      BY <2>1, <3>1, <3>3 DEF Charge
    <3>4. CASE t = s /\ Limited(s)
      <4>1. log'[t] = log[t]
        BY <2>1, <3>4 DEF Charge
      <4>2. w # <<>>
        BY <3>4, EmptySeq, BudgetAssumption DEF Limited, w
      <4> QED
        BY <4>1, <4>2
    <3> QED
      BY <3>2, <3>3, <3>4
  <2> QED
    BY <2>5, <2>6, <2>7
<1> QED
  BY <1>1, LiveInvariance, PTL DEF Spec, WindowsSwept
=============================================================================
