----------------------------- MODULE BooksProofs -----------------------------
(***************************************************************************)
(* Proofs about the parts that keep books.  Vesting: for every set of      *)
(* addresses, every amount, cliff, duration and list of tranches, and any  *)
(* number of schedules.  Split, from "The split contract" on: for every    *)
(* set of invoices, list of recipients and deposit.  The indexer, from     *)
(* "The indexer" on: for every set of transactions, every chain and        *)
(* reorganisation, and every number of faults, restarts, subscribers and   *)
(* clients.  The three models share no state.                              *)
(***************************************************************************)
EXTENDS Vesting, Split, IndexerApi, SumProofs, SequenceTheorems

\* The inductive invariant
Inv == Consistent /\ RevocationDivides

----------------------------------------------------------------------------
(* Arithmetic *)

\* A quotient by a positive number: its type, its sign and its order.
LEMMA DivFacts ==
    ASSUME NEW d \in Nat, d > 0
    PROVE  /\ \A x \in Nat : x \div d \in Nat
           /\ \A x, y \in Nat : x <= y => x \div d <= y \div d
           /\ \A x, a \in Nat : x <= a * d => x \div d <= a
OBVIOUS

\* Multiplication keeps the order.
LEMMA TimesMonotone ==
    ASSUME NEW a \in Nat, NEW b \in Nat, NEW c \in Nat, b <= c
    PROVE  a * b \in Nat /\ a * b <= a * c
OBVIOUS

----------------------------------------------------------------------------
(* What is vested, as a function of the schedule and the ledger *)

\* The parts of a schedule that the vested amount depends on, well formed
Shaped(s) ==
    /\ s.total \in Nat /\ s.start \in Nat /\ s.cliff \in Nat /\ s.end \in Nat
    /\ s.start < s.end /\ s.start <= s.cliff
    /\ s.milestones \in Seq(Milestone)
    /\ \A k \in DOMAIN s.milestones : s.milestones[k].amount > 0

VestedAt(s, l) ==
    IF l < s.cliff THEN 0
    ELSE Smaller(s.total, Larger(Linear(s, l), Tranches(s, l)))

\* Past the cliff the line rises from at least nothing to at most the total.
LEMMA LinearFacts ==
    ASSUME NEW s, Shaped(s), NEW l \in Nat, NEW m \in Nat, s.cliff <= l, l <= m
    PROVE  /\ Linear(s, l) \in 0..s.total
           /\ Linear(s, l) <= Linear(s, m)
<1> DEFINE d == s.end - s.start
           q(k) == (s.total * (k - s.start)) \div d
<1>1. /\ s.total \in Nat /\ d \in Nat /\ d > 0
      /\ s.start \in Nat /\ s.cliff \in Nat /\ s.end \in Nat /\ s.start <= s.cliff
  BY DEF Shaped
<1>2. \A k \in Nat : k >= s.cliff => k - s.start \in Nat
  BY <1>1
<1>3. ASSUME NEW k \in Nat, k >= s.cliff, k < s.end
      PROVE  q(k) \in Nat /\ q(k) <= s.total
  <2>1. k - s.start \in Nat /\ k - s.start <= d
    BY <1>1, <1>3
  <2>2. s.total * (k - s.start) \in Nat /\ s.total * (k - s.start) <= s.total * d
    <3> HIDE DEF d
    <3> QED
      BY <1>1, <2>1, TimesMonotone
  <2> HIDE DEF d
  <2> QED
    BY <1>1, <2>2, DivFacts
<1>4. ASSUME s.cliff <= m, m < s.end
      PROVE  q(l) <= q(m)
  <2>1. l - s.start \in Nat /\ m - s.start \in Nat /\ l - s.start <= m - s.start
    BY <1>1
  <2>2. /\ s.total * (l - s.start) \in Nat /\ s.total * (m - s.start) \in Nat
        /\ s.total * (l - s.start) <= s.total * (m - s.start)
    BY <1>1, <2>1, TimesMonotone
  <2> HIDE DEF d
  <2> QED
    BY <1>1, <2>2, DivFacts
<1>5. /\ l < s.end => Linear(s, l) = q(l)
      /\ l >= s.end => Linear(s, l) = s.total
      /\ m < s.end => Linear(s, m) = q(m)
      /\ m >= s.end => Linear(s, m) = s.total
  BY <1>1 DEF Linear
<1> HIDE DEF q, d
<1>6. CASE l >= s.end
  BY <1>1, <1>5, <1>6
<1>7. CASE l < s.end /\ m >= s.end
  BY <1>1, <1>3, <1>5, <1>7
<1>8. CASE m < s.end
  BY <1>1, <1>3, <1>4, <1>5, <1>8
<1> QED
  BY <1>1, <1>6, <1>7, <1>8

\* The unlocked tranches add up to at least nothing and never to less later.
LEMMA TranchesFacts ==
    ASSUME NEW s, Shaped(s), NEW l \in Nat, NEW m \in Nat, l <= m
    PROVE  /\ Tranches(s, l) \in Nat
           /\ Tranches(s, m) \in Nat
           /\ Tranches(s, l) <= Tranches(s, m)
           /\ s.milestones = <<>> => Tranches(s, l) = 0
<1> DEFINE D == DOMAIN s.milestones
           f == [k \in D |-> IF s.milestones[k].unlock <= l THEN s.milestones[k].amount ELSE 0]
           g == [k \in D |-> IF s.milestones[k].unlock <= m THEN s.milestones[k].amount ELSE 0]
<1>1. \A k \in D : /\ s.milestones[k].unlock \in Nat
                   /\ s.milestones[k].amount \in Nat
  <2>1. s.milestones \in Seq(Milestone) /\ \A k \in D : s.milestones[k].amount > 0
    BY DEF Shaped
  <2>2. \A k \in D : s.milestones[k] \in Milestone
    BY <2>1
  <2> QED
    BY <2>1, <2>2 DEF Milestone
<1>2. IsFiniteSet(D)
  <2>1. D = 1..Len(s.milestones) /\ Len(s.milestones) \in Nat
    BY DEF Shaped
  <2> QED
    BY <2>1, FS_Interval
<1>3. \A k \in D : f[k] \in Nat /\ g[k] \in Nat /\ f[k] <= g[k]
  BY <1>1
<1>4. /\ Tranches(s, l) = SumFunctionOnSet(f, D)
      /\ Tranches(s, m) = SumFunctionOnSet(g, D)
  BY DEF Tranches, SumFunction
<1>5. s.milestones = <<>> => D = {}
  OBVIOUS
<1> HIDE DEF f, g, D
<1>6. SumFunctionOnSet(f, D) \in Nat /\ SumFunctionOnSet(g, D) \in Nat
  BY <1>2, <1>3, SumType
<1>7. SumFunctionOnSet(f, D) <= SumFunctionOnSet(g, D)
  BY <1>2, <1>3, SumMonotone
<1>8. D = {} => SumFunctionOnSet(f, D) = 0
  BY SumEmpty
<1> QED
  BY <1>4, <1>5, <1>6, <1>7, <1>8

\* The vested amount lies between nothing and the total and never falls.
LEMMA VestedFacts ==
    ASSUME NEW s, Shaped(s), NEW l \in Nat, NEW m \in Nat, l <= m
    PROVE  VestedAt(s, l) \in 0..s.total /\ VestedAt(s, l) <= VestedAt(s, m)
<1>1. s.total \in Nat /\ s.cliff \in Nat
  BY DEF Shaped
<1>2. Tranches(s, l) \in Nat /\ Tranches(s, m) \in Nat /\ Tranches(s, l) <= Tranches(s, m)
  BY TranchesFacts
<1>3. s.cliff <= l => /\ Linear(s, l) \in 0..s.total /\ Linear(s, m) \in 0..s.total
                      /\ Linear(s, l) <= Linear(s, m)
  BY <1>1, LinearFacts
<1>4. s.cliff <= m => Linear(s, m) \in 0..s.total
  BY <1>1, LinearFacts
<1>5. CASE l < s.cliff
  BY <1>1, <1>2, <1>4, <1>5 DEF VestedAt, Smaller, Larger
<1>6. CASE s.cliff <= l
  BY <1>1, <1>2, <1>3, <1>6 DEF VestedAt, Smaller, Larger
<1> QED
  BY <1>1, <1>5, <1>6

----------------------------------------------------------------------------
(* One schedule: what holds of it at ledger q, and what the calls do to it *)

Eff(s, q) == IF s.revoked # 0 THEN Smaller(s.revoked, q) ELSE q

Sound(s, q) ==
    /\ s \in Schedule
    /\ s.start < s.end /\ s.start <= s.cliff
    /\ s.revoked <= q
    /\ s.revoked = 0 => s.returned = 0
    /\ \A k \in DOMAIN s.milestones : s.milestones[k].amount > 0
    /\ q < s.cliff => s.released = 0
    /\ ~s.reshaped => s.released <= VestedAt(s, Eff(s, q))
    /\ ~s.reshaped /\ s.revoked # 0 => VestedAt(s, Eff(s, q)) + s.returned = s.total

\* The fields of a schedule.
LEMMA ScheduleFields ==
    ASSUME NEW s \in Schedule
    PROVE  /\ s.beneficiary \in Addr
           /\ s.total \in Nat /\ s.start \in Nat /\ s.cliff \in Nat /\ s.end \in Nat
           /\ s.released \in Nat /\ s.revoked \in Nat /\ s.returned \in Nat
           /\ s.milestones \in Seq(Milestone)
           /\ s.revocable \in BOOLEAN /\ s.reshaped \in BOOLEAN
BY DEF Schedule

\* The vested amount of a sound schedule is bounded, and nothing before the cliff.
LEMMA SoundFacts ==
    ASSUME NEW s, NEW q \in Nat, Sound(s, q)
    PROVE  /\ Shaped(s)
           /\ Eff(s, q) \in Nat /\ Eff(s, q) <= q
           /\ VestedAt(s, Eff(s, q)) \in 0..s.total
           /\ q < s.cliff => VestedAt(s, Eff(s, q)) = 0
<1>1. s \in Schedule
  BY DEF Sound
<1>2. Shaped(s)
  BY <1>1, ScheduleFields DEF Sound, Shaped
<1>3. Eff(s, q) \in Nat /\ Eff(s, q) <= q
  BY <1>1, ScheduleFields DEF Eff, Smaller
<1>4. VestedAt(s, Eff(s, q)) \in 0..s.total
  BY <1>2, <1>3, VestedFacts
<1>5. q < s.cliff => VestedAt(s, Eff(s, q)) = 0
  BY <1>1, <1>3, ScheduleFields DEF VestedAt
<1> QED
  BY <1>2, <1>3, <1>4, <1>5

\* The vested amount depends on the total, the ledgers and the tranches only.
LEMMA SameVested ==
    ASSUME NEW s, NEW t, NEW l,
           t.total = s.total, t.start = s.start, t.cliff = s.cliff, t.end = s.end,
           t.milestones = s.milestones
    PROVE  VestedAt(t, l) = VestedAt(s, l)
BY DEF VestedAt, Linear, Tranches

\* Time passes: a schedule stays sound, since vesting is monotonic and stops
\* at the revocation.
LEMMA LaterSound ==
    ASSUME NEW s, NEW q \in Nat, Sound(s, q)
    PROVE  Sound(s, q + 1)
<1>1. s \in Schedule /\ Shaped(s) /\ Eff(s, q) \in Nat
  BY SoundFacts DEF Sound
<1>2. s.revoked \in Nat /\ s.released \in Nat /\ s.cliff \in Nat /\ s.revoked <= q
  BY <1>1, ScheduleFields DEF Sound
<1>3. Eff(s, q + 1) \in Nat /\ Eff(s, q) <= Eff(s, q + 1)
  BY <1>2 DEF Eff, Smaller
<1>4. s.revoked # 0 => Eff(s, q + 1) = Eff(s, q)
  BY <1>2 DEF Eff, Smaller
<1>5. /\ VestedAt(s, Eff(s, q)) \in 0..s.total /\ VestedAt(s, Eff(s, q + 1)) \in 0..s.total
      /\ VestedAt(s, Eff(s, q)) <= VestedAt(s, Eff(s, q + 1))
  BY <1>1, <1>3, VestedFacts
<1>6. ~s.reshaped => s.released <= VestedAt(s, Eff(s, q + 1))
  BY <1>1, <1>2, <1>5, ScheduleFields DEF Sound
<1> QED
  BY <1>1, <1>2, <1>4, <1>6 DEF Sound

\* A payout of what is claimable keeps a schedule sound.
LEMMA PaidSound ==
    ASSUME NEW s, NEW q \in Nat, Sound(s, q), NEW p \in Nat,
           p = 0 \/ p = VestedAt(s, Eff(s, q)) - s.released
    PROVE  Sound([s EXCEPT !.released = @ + p], q)
<1> DEFINE t == [s EXCEPT !.released = @ + p]
<1>1. s \in Schedule
  BY DEF Sound
<1>2. s.released \in Nat /\ s.total \in Nat
  BY <1>1, ScheduleFields
<1>3. t \in Schedule
  BY <1>1, <1>2 DEF Schedule
<1>4. /\ t.total = s.total /\ t.start = s.start /\ t.cliff = s.cliff /\ t.end = s.end
      /\ t.milestones = s.milestones /\ t.revoked = s.revoked /\ t.returned = s.returned
      /\ t.reshaped = s.reshaped /\ t.released = s.released + p
  BY <1>1 DEF Schedule
<1> HIDE DEF t
<1>5. Eff(t, q) = Eff(s, q)
  BY <1>4 DEF Eff
<1>6. VestedAt(t, Eff(t, q)) = VestedAt(s, Eff(s, q))
  BY <1>4, <1>5, SameVested
<1>7. VestedAt(s, Eff(s, q)) \in 0..s.total /\ (q < s.cliff => VestedAt(s, Eff(s, q)) = 0)
  BY SoundFacts
<1>8. q < t.cliff => t.released = 0
  BY <1>2, <1>4, <1>7 DEF Sound
<1>9. ~t.reshaped => t.released <= VestedAt(t, Eff(t, q))
  BY <1>2, <1>4, <1>6, <1>7 DEF Sound
<1>10. Sound(t, q)
  BY <1>3, <1>4, <1>6, <1>8, <1>9 DEF Sound
<1> QED
  BY <1>10 DEF t

\* A revocation divides the total: what is vested at its ledger stays, the rest
\* is returned.
LEMMA RevokedSound ==
    ASSUME NEW s, NEW q \in Nat, q > 0, Sound(s, q), s.revoked = 0,
           NEW u, u = s.total - VestedAt(s, Eff(s, q))
    PROVE  /\ u \in Nat
           /\ Sound([s EXCEPT !.revoked = q, !.returned = u], q)
<1> DEFINE t == [s EXCEPT !.revoked = q, !.returned = u]
<1>1. s \in Schedule
  BY DEF Sound
<1>2. s.released \in Nat /\ s.total \in Nat
  BY <1>1, ScheduleFields
<1>3. VestedAt(s, Eff(s, q)) \in 0..s.total
  BY SoundFacts
<1>4. u \in Nat
  BY <1>2, <1>3
<1>5. t \in Schedule
  BY <1>1, <1>4 DEF Schedule
<1>6. /\ t.total = s.total /\ t.start = s.start /\ t.cliff = s.cliff /\ t.end = s.end
      /\ t.milestones = s.milestones /\ t.revoked = q /\ t.returned = u
      /\ t.reshaped = s.reshaped /\ t.released = s.released
  BY <1>1 DEF Schedule
<1> HIDE DEF t
<1>7. Eff(t, q) = q /\ Eff(s, q) = q
  BY <1>6 DEF Eff, Smaller
<1>8. VestedAt(t, Eff(t, q)) = VestedAt(s, Eff(s, q))
  BY <1>6, <1>7, SameVested
<1>9. VestedAt(t, Eff(t, q)) + t.returned = t.total
  BY <1>2, <1>3, <1>6, <1>8
<1>10. Sound(t, q)
  BY <1>5, <1>6, <1>8, <1>9 DEF Sound
<1> QED
  BY <1>4, <1>10 DEF t

\* New tranches keep a schedule sound: it counts as reshaped unless nothing was
\* paid out or returned yet.
LEMMA ReshapedSound ==
    ASSUME NEW s, NEW q \in Nat, Sound(s, q), NEW ms \in Seq(Milestone),
           \A k \in DOMAIN ms : ms[k].amount > 0,
           NEW r \in BOOLEAN, r = (s.reshaped \/ s.released > 0 \/ s.revoked # 0)
    PROVE  Sound([s EXCEPT !.milestones = ms, !.reshaped = r], q)
<1> DEFINE t == [s EXCEPT !.milestones = ms, !.reshaped = r]
<1>1. s \in Schedule
  BY DEF Sound
<1>2. /\ s.released \in Nat /\ s.total \in Nat /\ s.revoked \in Nat
      /\ s.start \in Nat /\ s.cliff \in Nat /\ s.end \in Nat
  BY <1>1, ScheduleFields
<1>3. t \in Schedule
  BY <1>1 DEF Schedule
<1>4. /\ t.total = s.total /\ t.start = s.start /\ t.cliff = s.cliff /\ t.end = s.end
      /\ t.milestones = ms /\ t.revoked = s.revoked /\ t.returned = s.returned
      /\ t.reshaped = r /\ t.released = s.released
  BY <1>1 DEF Schedule
<1> HIDE DEF t
<1>5. Shaped(t)
  BY <1>2, <1>4 DEF Shaped, Sound
<1>6. Eff(t, q) \in Nat
  BY <1>2, <1>4 DEF Eff, Smaller
<1>7. VestedAt(t, Eff(t, q)) \in 0..t.total
  BY <1>5, <1>6, VestedFacts
<1>8. ~t.reshaped => t.released = 0 /\ t.revoked = 0
  <2>1. ~r => ~(s.released > 0) /\ s.revoked = 0
    BY Zenon
  <2>2. ~(s.released > 0) => s.released = 0
    BY <1>2
  <2> QED
    BY <1>4, <2>1, <2>2, Zenon
<1>9. ~t.reshaped => t.released <= VestedAt(t, Eff(t, q))
  BY <1>2, <1>4, <1>7, <1>8
<1>10. Sound(t, q)
  BY <1>3, <1>4, <1>8, <1>9 DEF Sound
<1> QED
  BY <1>10 DEF t

\* A new schedule is sound.
LEMMA CreatedSound ==
    ASSUME NEW q \in Nat, NEW b \in Addr, NEW n \in Nat, NEW cliff \in Nat, NEW d \in Nat,
           d > 0, NEW r \in BOOLEAN
    PROVE  Sound([beneficiary |-> b, total |-> n, start |-> q, cliff |-> q + cliff,
                  end |-> q + d, released |-> 0, revocable |-> r, revoked |-> 0,
                  milestones |-> <<>>, returned |-> 0, reshaped |-> FALSE], q)
<1> DEFINE t == [beneficiary |-> b, total |-> n, start |-> q, cliff |-> q + cliff,
                 end |-> q + d, released |-> 0, revocable |-> r, revoked |-> 0,
                 milestones |-> <<>>, returned |-> 0, reshaped |-> FALSE]
<1>1. <<>> \in Seq(Milestone)
  OBVIOUS
<1>2. t \in Schedule
  BY <1>1 DEF Schedule
<1>3. /\ t.total = n /\ t.start = q /\ t.cliff = q + cliff /\ t.end = q + d
      /\ t.milestones = <<>> /\ t.revoked = 0 /\ t.returned = 0
      /\ t.reshaped = FALSE /\ t.released = 0
  OBVIOUS
<1> HIDE DEF t
<1>4. Shaped(t)
  BY <1>3 DEF Shaped
<1>5. Eff(t, q) = q
  BY <1>3 DEF Eff
<1>6. VestedAt(t, q) \in 0..n
  BY <1>3, <1>4, VestedFacts
<1>7. t.released <= VestedAt(t, Eff(t, q))
  BY <1>3, <1>5, <1>6
<1>8. Sound(t, q)
  BY <1>2, <1>3, <1>7 DEF Sound
<1> QED
  BY <1>8 DEF t

----------------------------------------------------------------------------
(* The books: what a call does to the sums *)

HeldOf(ss) == [i \in DOMAIN ss |-> Held(ss[i])]

PaidBy(adm, a, ss) ==
    [i \in DOMAIN ss |-> (IF ss[i].beneficiary = a THEN ss[i].released ELSE 0)
                        + (IF adm = a THEN ss[i].returned ELSE 0)]

\* The books are functions to the integers over a finite set.
LEMMA BooksType ==
    ASSUME NEW ss \in Seq(Schedule), NEW a, NEW adm
    PROVE  /\ IsFiniteSet(DOMAIN ss)
           /\ HeldOf(ss) \in [DOMAIN ss -> Int]
           /\ PaidBy(adm, a, ss) \in [DOMAIN ss -> Int]
<1>1. DOMAIN ss = 1..Len(ss) /\ Len(ss) \in Nat /\ \A i \in DOMAIN ss : ss[i] \in Schedule
  OBVIOUS
<1>2. IsFiniteSet(DOMAIN ss)
  BY <1>1, FS_Interval
<1>3. \A i \in DOMAIN ss : Held(ss[i]) \in Int
  BY <1>1, ScheduleFields DEF Held
<1>4. \A i \in DOMAIN ss : (IF ss[i].beneficiary = a THEN ss[i].released ELSE 0)
                           + (IF adm = a THEN ss[i].returned ELSE 0) \in Int
  BY <1>1, ScheduleFields
<1> QED
  BY <1>2, <1>3, <1>4 DEF HeldOf, PaidBy

\* A new schedule adds its total to what is held and nothing to what was paid.
LEMMA BooksAppend ==
    ASSUME NEW ss \in Seq(Schedule), NEW t \in Schedule, t.released = 0, t.returned = 0,
           NEW a, NEW adm
    PROVE  /\ SumFunction(HeldOf(Append(ss, t))) = SumFunction(HeldOf(ss)) + t.total
           /\ SumFunction(PaidBy(adm, a, Append(ss, t))) = SumFunction(PaidBy(adm, a, ss))
<1> DEFINE n == Len(ss)
           tt == Append(ss, t)
           f == HeldOf(tt)
           g == HeldOf(ss)
           p == PaidBy(adm, a, tt)
           r == PaidBy(adm, a, ss)
<1>1. /\ n \in Nat /\ tt \in Seq(Schedule)
      /\ DOMAIN ss = 1..n /\ DOMAIN tt = 1..(n + 1)
      /\ \A i \in 1..n : tt[i] = ss[i]
      /\ tt[n + 1] = t
  OBVIOUS
<1> HIDE DEF n, tt
<1>2. /\ f \in [1..(n + 1) -> Int] /\ g \in [1..n -> Int]
      /\ p \in [1..(n + 1) -> Int] /\ r \in [1..n -> Int]
  BY <1>1, BooksType
<1>3. \A i \in 1..n : g[i] = f[i] /\ r[i] = p[i]
  BY <1>1 DEF HeldOf, PaidBy
<1>4. f[n + 1] = t.total /\ p[n + 1] = 0
  BY <1>1, ScheduleFields DEF HeldOf, PaidBy, Held
<1> HIDE DEF f, g, p, r
<1>5. SumFunction(g) \in Int /\ SumFunction(f) = SumFunction(g) + f[n + 1]
  BY <1>1, <1>2, <1>3, SumLast
<1>6. SumFunction(r) \in Int /\ SumFunction(p) = SumFunction(r) + p[n + 1]
  BY <1>1, <1>2, <1>3, SumLast
<1>7. SumFunction(f) = SumFunction(g) + t.total /\ SumFunction(p) = SumFunction(r)
  BY <1>4, <1>5, <1>6
<1> QED
  BY <1>7 DEF f, g, p, r, n, tt

\* The schedules after schedule i became t
With(ss, i, t) == [ss EXCEPT ![i] = t]

\* t is schedule s after it returned u
ReturnsFrom(s, t, u) ==
    /\ t.total = s.total /\ t.released = s.released /\ t.beneficiary = s.beneficiary
    /\ t.returned = s.returned + u

\* A return takes its amount from what is held; u = 0 is a change that pays
\* nothing.
LEMMA HeldReturn ==
    ASSUME NEW ss \in Seq(Schedule), NEW i \in DOMAIN ss, NEW t \in Schedule, NEW u \in Nat,
           ReturnsFrom(ss[i], t, u)
    PROVE  /\ SumFunction(HeldOf(ss)) \in Int
           /\ SumFunction(HeldOf(With(ss, i, t))) = SumFunction(HeldOf(ss)) - u
<1> DEFINE tt == With(ss, i, t)
           D == DOMAIN ss
           w == -u
<1>1. /\ tt \in Seq(Schedule) /\ DOMAIN tt = D /\ tt[i] = t
      /\ \A j \in D : j # i => tt[j] = ss[j]
      /\ ss[i] \in Schedule
  BY DEF With
<1>2. IsFiniteSet(D) /\ HeldOf(ss) \in [D -> Int] /\ i \in D /\ w \in Int
  BY BooksType
<1> HIDE DEF tt
<1>3. HeldOf(tt) = Added(HeldOf(ss), i, w)
  <2>1. ASSUME NEW j \in D
        PROVE  HeldOf(tt)[j] = Added(HeldOf(ss), i, w)[j]
    <3>1. CASE j = i
      BY <1>1, <1>2, <3>1, ScheduleFields DEF HeldOf, Held, Added, ReturnsFrom
    <3>2. CASE j # i
      BY <1>1, <1>2, <3>2 DEF HeldOf, Added
    <3> QED
      BY <3>1, <3>2
  <2> QED
    BY <1>1, <2>1 DEF HeldOf, Added
<1> HIDE DEF D, w
<1>4. /\ SumFunction(HeldOf(ss)) \in Int
      /\ SumFunction(Added(HeldOf(ss), i, w)) = SumFunction(HeldOf(ss)) + w
  BY <1>2, SumAdd
<1> QED
  BY <1>3, <1>4 DEF tt, w

\* A return adds its amount to what the admin was paid, and to nobody else.
LEMMA PaidReturn ==
    ASSUME NEW ss \in Seq(Schedule), NEW i \in DOMAIN ss, NEW t \in Schedule, NEW u \in Nat,
           ReturnsFrom(ss[i], t, u), NEW a, NEW adm
    PROVE  /\ SumFunction(PaidBy(adm, a, ss)) \in Int
           /\ SumFunction(PaidBy(adm, a, With(ss, i, t)))
                 = SumFunction(PaidBy(adm, a, ss)) + (IF adm = a THEN u ELSE 0)
<1> DEFINE tt == With(ss, i, t)
           D == DOMAIN ss
           v == IF adm = a THEN u ELSE 0
<1>1. /\ tt \in Seq(Schedule) /\ DOMAIN tt = D /\ tt[i] = t
      /\ \A j \in D : j # i => tt[j] = ss[j]
      /\ ss[i] \in Schedule
  BY DEF With
<1>2. IsFiniteSet(D) /\ PaidBy(adm, a, ss) \in [D -> Int] /\ i \in D /\ v \in Int
  BY BooksType
<1> HIDE DEF tt
<1>3. PaidBy(adm, a, tt) = Added(PaidBy(adm, a, ss), i, v)
  <2>1. ASSUME NEW j \in D
        PROVE  PaidBy(adm, a, tt)[j] = Added(PaidBy(adm, a, ss), i, v)[j]
    <3>1. CASE j = i
      BY <1>1, <1>2, <3>1, ScheduleFields DEF PaidBy, Added, ReturnsFrom
    <3>2. CASE j # i
      BY <1>1, <1>2, <3>2 DEF PaidBy, Added
    <3> QED
      BY <3>1, <3>2
  <2> QED
    BY <1>1, <2>1 DEF PaidBy, Added
<1> HIDE DEF D, v
<1>4. /\ SumFunction(PaidBy(adm, a, ss)) \in Int
      /\ SumFunction(PaidBy(adm, a, tt)) = SumFunction(PaidBy(adm, a, ss)) + v
  BY <1>2, <1>3, SumAdd
<1> QED
  BY <1>4 DEF tt, v

\* tt are the schedules ss after each paid its part of h to b
PaysFrom(ss, tt, h, b) ==
    /\ DOMAIN tt = DOMAIN ss
    /\ \A i \in DOMAIN ss :
          /\ tt[i].total = ss[i].total /\ tt[i].returned = ss[i].returned
          /\ tt[i].beneficiary = ss[i].beneficiary
          /\ tt[i].released = ss[i].released + h[i]
          /\ ss[i].beneficiary # b => h[i] = 0

\* A claim takes the sum of its payouts from what is held and adds it to what its
\* beneficiary was paid, and to nobody else.
LEMMA BooksPay ==
    ASSUME NEW ss \in Seq(Schedule), NEW tt \in Seq(Schedule),
           NEW h \in [DOMAIN ss -> Nat], NEW b, PaysFrom(ss, tt, h, b), NEW a, NEW adm
    PROVE  /\ SumFunction(h) \in Nat
           /\ SumFunction(HeldOf(tt)) = SumFunction(HeldOf(ss)) - SumFunction(h)
           /\ SumFunction(PaidBy(adm, a, ss)) \in Int
           /\ a = b => SumFunction(PaidBy(adm, a, tt))
                          = SumFunction(PaidBy(adm, a, ss)) + SumFunction(h)
           /\ a # b => SumFunction(PaidBy(adm, a, tt)) = SumFunction(PaidBy(adm, a, ss))
<1> DEFINE D == DOMAIN ss
<1>0. /\ DOMAIN tt = D
      /\ \A i \in D :
          /\ tt[i].total = ss[i].total /\ tt[i].returned = ss[i].returned
          /\ tt[i].beneficiary = ss[i].beneficiary
          /\ tt[i].released = ss[i].released + h[i]
          /\ ss[i].beneficiary # b => h[i] = 0
  BY DEF PaysFrom
<1>1. /\ IsFiniteSet(D) /\ HeldOf(ss) \in [D -> Int] /\ PaidBy(adm, a, ss) \in [D -> Int]
      /\ HeldOf(tt) \in [D -> Int] /\ PaidBy(adm, a, tt) \in [D -> Int]
  BY <1>0, BooksType
<1>2. \A i \in D : ss[i] \in Schedule /\ tt[i] \in Schedule /\ h[i] \in Nat
  BY <1>0
<1>3. \A i \in D : HeldOf(ss)[i] = HeldOf(tt)[i] + h[i]
  BY <1>0, <1>2, ScheduleFields DEF HeldOf, Held
<1>4. a = b => \A i \in D : PaidBy(adm, a, tt)[i] = PaidBy(adm, a, ss)[i] + h[i]
  BY <1>0, <1>2, ScheduleFields DEF PaidBy
<1>5. a # b => \A i \in D : PaidBy(adm, a, tt)[i] = PaidBy(adm, a, ss)[i]
  BY <1>0, <1>2, ScheduleFields DEF PaidBy
<1>6. /\ SumFunction(h) = SumFunctionOnSet(h, D)
      /\ SumFunction(HeldOf(ss)) = SumFunctionOnSet(HeldOf(ss), D)
      /\ SumFunction(HeldOf(tt)) = SumFunctionOnSet(HeldOf(tt), D)
      /\ SumFunction(PaidBy(adm, a, ss)) = SumFunctionOnSet(PaidBy(adm, a, ss), D)
      /\ SumFunction(PaidBy(adm, a, tt)) = SumFunctionOnSet(PaidBy(adm, a, tt), D)
  BY <1>0, <1>1 DEF SumFunction
<1>7. /\ \A i \in D : HeldOf(ss)[i] \in Int /\ HeldOf(tt)[i] \in Int /\ h[i] \in Int
      /\ \A i \in D : PaidBy(adm, a, ss)[i] \in Int /\ PaidBy(adm, a, tt)[i] \in Int
  BY <1>1, <1>2
<1> HIDE DEF D
<1>8. SumFunctionOnSet(h, D) \in Nat
  BY <1>1, <1>2, SumType
<1>9. SumFunctionOnSet(HeldOf(tt), D) \in Int /\ SumFunctionOnSet(PaidBy(adm, a, ss), D) \in Int
  BY <1>1, <1>7, SumType
<1>10. SumFunctionOnSet(HeldOf(ss), D) = SumFunctionOnSet(HeldOf(tt), D) + SumFunctionOnSet(h, D)
  BY <1>1, <1>3, <1>7, SumPlus
<1>11. SumFunctionOnSet(HeldOf(tt), D) = SumFunctionOnSet(HeldOf(ss), D) - SumFunctionOnSet(h, D)
  BY <1>8, <1>9, <1>10
<1>12. a = b => SumFunctionOnSet(PaidBy(adm, a, tt), D)
                  = SumFunctionOnSet(PaidBy(adm, a, ss), D) + SumFunctionOnSet(h, D)
  BY <1>1, <1>4, <1>7, SumPlus
<1>13. a # b => SumFunctionOnSet(PaidBy(adm, a, tt), D) = SumFunctionOnSet(PaidBy(adm, a, ss), D)
  BY <1>1, <1>5, SumCongruent
<1> QED
  BY <1>6, <1>8, <1>9, <1>11, <1>12, <1>13

----------------------------------------------------------------------------
(* The invariant, in the parts the steps are proved for *)

Books ==
    /\ vault = SumFunction(HeldOf(schedules))
    /\ \A a \in Addr : wallet[a] = SumFunction(PaidBy(admin, a, schedules))

AllSound == \A i \in DOMAIN schedules : Sound(schedules[i], seq)

Parts ==
    /\ TypeOK
    /\ seq > 0
    /\ ~Initialized => schedules = <<>>
    /\ Books
    /\ AllSound

\* The model's vested amount is that of the ledger at which vesting stops.
LEMMA VestedIs ==
    ASSUME NEW s
    PROVE  Vested(s) = VestedAt(s, Eff(s, seq))
BY DEF Vested, VestedAt, Eff, EffectiveLedger

\* The model's sums are the books.
LEMMA AccountedIs == Accounted <=> Books
BY DEF Accounted, Books, HeldOf, PaidBy, PaidTo

\* The invariant implies its parts.
LEMMA InvHasParts == Inv => Parts
<1> SUFFICES ASSUME Inv PROVE Parts
  OBVIOUS
<1>1. TypeOK /\ Accounted /\ CliffHolds /\ seq > 0 /\ (~Initialized => schedules = <<>>)
  BY DEF Inv, Consistent
<1>2. ASSUME NEW i \in DOMAIN schedules
      PROVE  Sound(schedules[i], seq)
  <2> DEFINE s == schedules[i]
  <2>1. s \in Schedule
    BY <1>1 DEF TypeOK
  <2>2. WellFormed(s) /\ (seq < s.cliff => s.released = 0)
    BY <1>1 DEF Inv, Consistent, CliffHolds
  <2>3. ~s.reshaped /\ s.revoked # 0 => Vested(s) + s.returned = s.total
    BY DEF Inv, RevocationDivides
  <2> HIDE DEF s
  <2>4. Sound(s, seq)
    BY <2>1, <2>2, <2>3, VestedIs DEF Sound, WellFormed
  <2> QED
    BY <2>4 DEF s
<1> QED
  BY <1>1, <1>2, AccountedIs DEF Parts, AllSound

\* The parts imply the invariant.
LEMMA PartsMakeInv == Parts => Inv
<1> SUFFICES ASSUME Parts PROVE Inv
  OBVIOUS
<1>1. ASSUME NEW i \in DOMAIN schedules
      PROVE  LET s == schedules[i]
             IN  /\ WellFormed(s) /\ (seq < s.cliff => s.released = 0)
                 /\ ~s.reshaped => /\ s.released + s.returned <= s.total
                                   /\ s.revoked # 0 => Vested(s) + s.returned = s.total
  <2> DEFINE s == schedules[i]
  <2>1. Sound(s, seq) /\ seq \in Nat
    BY DEF Parts, AllSound, TypeOK
  <2> HIDE DEF s
  <2>2. s \in Schedule
    BY <2>1 DEF Sound
  <2>3. s.released \in Nat /\ s.returned \in Nat /\ s.total \in Nat /\ s.revoked \in Nat
    BY <2>2, ScheduleFields
  <2>4. Vested(s) = VestedAt(s, Eff(s, seq)) /\ Vested(s) \in 0..s.total
    BY <2>1, VestedIs, SoundFacts
  <2>5. /\ ~s.reshaped => s.released <= Vested(s)
        /\ ~s.reshaped /\ s.revoked # 0 => Vested(s) + s.returned = s.total
        /\ s.revoked = 0 => s.returned = 0
    BY <2>1, <2>4 DEF Sound
  <2>6. ~s.reshaped => s.released + s.returned <= s.total
    BY <2>3, <2>4, <2>5
  <2>7. WellFormed(s) /\ (seq < s.cliff => s.released = 0)
    BY <2>1, <2>5 DEF WellFormed, Sound
  <2> QED
    BY <2>5, <2>6, <2>7 DEF s
<1> QED
  BY <1>1, AccountedIs DEF Parts, Inv, Consistent, CliffHolds, RevocationDivides

----------------------------------------------------------------------------
(* The steps *)

\* The parts hold at the start.
LEMMA InitParts == Init => Parts
<1> SUFFICES ASSUME Init PROVE Parts
  OBVIOUS
<1>1. TypeOK
  BY DEF Init, TypeOK
<1>2. DOMAIN schedules = {} /\ HeldOf(schedules) \in [{} -> Int]
  BY DEF Init, HeldOf
<1>3. \A a \in Addr : PaidBy(admin, a, schedules) \in [{} -> Int]
  BY <1>2 DEF PaidBy
<1>4. vault = SumFunction(HeldOf(schedules))
  <2>1. SumFunction(HeldOf(schedules)) = SumFunctionOnSet(HeldOf(schedules), {})
    BY <1>2 DEF SumFunction
  <2> QED
    BY <2>1, SumEmpty DEF Init
<1>5. ASSUME NEW a \in Addr
      PROVE  wallet[a] = SumFunction(PaidBy(admin, a, schedules))
  <2>1. SumFunction(PaidBy(admin, a, schedules))
           = SumFunctionOnSet(PaidBy(admin, a, schedules), {})
    BY <1>3 DEF SumFunction
  <2> QED
    BY <2>1, SumEmpty DEF Init
<1> QED
  BY <1>1, <1>2, <1>4, <1>5 DEF Parts, Books, AllSound, Init

\* initialize: there is no schedule yet, so the new admin was paid nothing.
LEMMA InitializeStep ==
    ASSUME Parts, NEW a \in Founders, Initialize(a)
    PROVE  Parts'
<1>1. schedules = <<>> /\ schedules' = schedules /\ a \in Addr /\ admin' = a
  BY VestingAssumption DEF Parts, Initialize
<1>2. TypeOK' /\ seq' > 0 /\ Initialized' /\ AllSound'
  BY <1>1, VestingAssumption DEF Parts, Initialize, TypeOK, AllSound, Initialized
<1>3. \A b \in Addr : PaidBy(admin', b, schedules') = PaidBy(admin, b, schedules)
  BY <1>1 DEF PaidBy
<1>4. Books'
  BY <1>1, <1>3 DEF Parts, Books, Initialize
<1> QED
  BY <1>2, <1>4 DEF Parts

\* create_vesting: the new schedule is sound and its total is in the vault.
LEMMA CreateStep ==
    ASSUME Parts, NEW b \in Addr, NEW n \in Amounts, NEW c \in Cliffs, NEW d \in Durations,
           NEW r \in BOOLEAN, CreateVesting(b, n, c, d, r)
    PROVE  Parts'
<1> DEFINE t == [beneficiary |-> b, total |-> n, start |-> seq, cliff |-> seq + c,
                 end |-> seq + d, released |-> 0, revocable |-> r,
                 revoked |-> 0, milestones |-> <<>>, returned |-> 0, reshaped |-> FALSE]
<1>1. n \in Nat /\ n > 0 /\ c \in Nat /\ d \in Nat /\ d > 0 /\ seq \in Nat
  BY VestingAssumption DEF CreateVesting, Parts, TypeOK
<1>2. Sound(t, seq)
  BY <1>1, CreatedSound
<1>3. t.total = n /\ t.released = 0 /\ t.returned = 0
  OBVIOUS
<1>4. /\ schedules' = Append(schedules, t)
      /\ admin' = admin /\ wallet' = wallet /\ seq' = seq /\ delegates' = delegates
      /\ vault' = vault + n /\ Initialized
  BY DEF CreateVesting
<1> HIDE DEF t
<1>5. t \in Schedule
  BY <1>2 DEF Sound
<1>6. TypeOK'
  BY <1>1, <1>4, <1>5 DEF Parts, TypeOK
<1>7. AllSound'
  <2>1. schedules \in Seq(Schedule)
    BY DEF Parts, TypeOK
  <2>2. ASSUME NEW i \in DOMAIN schedules'
        PROVE  Sound(schedules'[i], seq)
    <3>1. schedules'[i] = t \/ (i \in DOMAIN schedules /\ schedules'[i] = schedules[i])
      BY <1>4, <2>1
    <3> QED
      BY <1>2, <3>1 DEF Parts, AllSound
  <2> QED
    BY <1>4, <2>2 DEF AllSound
<1>8. Books'
  <2>1. schedules \in Seq(Schedule)
    BY DEF Parts, TypeOK
  <2>2. SumFunction(HeldOf(Append(schedules, t))) = SumFunction(HeldOf(schedules)) + t.total
    BY <1>3, <1>5, <2>1, BooksAppend
  <2>3. \A a \in Addr : SumFunction(PaidBy(admin, a, Append(schedules, t)))
                           = SumFunction(PaidBy(admin, a, schedules))
    BY <1>3, <1>5, <2>1, BooksAppend
  <2> QED
    BY <1>3, <1>4, <2>2, <2>3 DEF Parts, Books
<1> QED
  BY <1>4, <1>6, <1>7, <1>8 DEF Parts, Initialized

\* revoke: what was not vested goes from the vault to the admin.
LEMMA RevokeStep ==
    ASSUME Parts, NEW i \in DOMAIN schedules, Revoke(i)
    PROVE  Parts'
<1> DEFINE s == schedules[i]
           u == s.total - Vested(s)
           t == [s EXCEPT !.revoked = seq, !.returned = u]
<1>1. /\ schedules \in Seq(Schedule) /\ seq \in Nat /\ seq > 0 /\ vault \in Nat
      /\ wallet \in [Addr -> Nat] /\ admin \in Addr /\ s \in Schedule /\ Initialized
      /\ s.revoked = 0
  BY DEF Parts, TypeOK, Revoke, Initialized
<1>2. Sound(s, seq)
  BY DEF Parts, AllSound
<1>3. u \in Nat /\ Sound(t, seq)
  <2> HIDE DEF s
  <2>1. u = s.total - VestedAt(s, Eff(s, seq))
    BY VestedIs
  <2> HIDE DEF u
  <2> QED
    BY <1>1, <1>2, <2>1, RevokedSound
<1>4. /\ u <= vault /\ vault' = vault - u
      /\ wallet' = [wallet EXCEPT ![admin] = @ + u]
      /\ schedules' = With(schedules, i, t)
      /\ admin' = admin /\ delegates' = delegates /\ seq' = seq
  BY <1>1 DEF Revoke, With
<1>5. /\ t.total = s.total /\ t.released = s.released /\ t.beneficiary = s.beneficiary
      /\ t.returned = s.returned + u /\ t \in Schedule
  <2>1. s.returned = 0
    BY <1>1, <1>2 DEF Sound
  <2>2. t.returned = u /\ t.total = s.total /\ t.released = s.released
        /\ t.beneficiary = s.beneficiary
    BY <1>1 DEF Schedule
  <2>3. t \in Schedule
    BY <1>3 DEF Sound
  <2> HIDE DEF t, u
  <2> QED
    BY <1>3, <2>1, <2>2, <2>3
<1> HIDE DEF t, u
<1>6. TypeOK'
  <2>1. vault' \in Nat /\ wallet' \in [Addr -> Nat]
    BY <1>1, <1>3, <1>4
  <2>2. schedules' \in Seq(Schedule)
    BY <1>1, <1>4, <1>5 DEF With
  <2> QED
    BY <1>4, <2>1, <2>2 DEF Parts, TypeOK
<1>7. AllSound'
  <2>1. ASSUME NEW j \in DOMAIN schedules'
        PROVE  Sound(schedules'[j], seq)
    <3>1. schedules'[j] = t \/ (j \in DOMAIN schedules /\ schedules'[j] = schedules[j])
      BY <1>1, <1>4 DEF With
    <3> QED
      BY <1>3, <3>1 DEF Parts, AllSound
  <2> QED
    BY <1>4, <2>1 DEF AllSound
<1>8. Books'
  <2>0. ReturnsFrom(schedules[i], t, u)
    BY <1>5 DEF ReturnsFrom
  <2>1. SumFunction(HeldOf(With(schedules, i, t))) = SumFunction(HeldOf(schedules)) - u
    BY <1>1, <1>3, <1>5, <2>0, HeldReturn
  <2>2. \A a \in Addr :
            SumFunction(PaidBy(admin, a, With(schedules, i, t)))
               = SumFunction(PaidBy(admin, a, schedules)) + (IF admin = a THEN u ELSE 0)
    BY <1>1, <1>3, <1>5, <2>0, PaidReturn
  <2>3. \A a \in Addr : wallet'[a] = wallet[a] + (IF admin = a THEN u ELSE 0)
    BY <1>1, <1>3, <1>4
  <2> QED
    BY <1>4, <2>1, <2>2, <2>3 DEF Parts, Books
<1> QED
  BY <1>1, <1>4, <1>6, <1>7, <1>8 DEF Parts, Initialized

\* set_milestones: nothing is paid, and the schedule counts as reshaped when
\* something was paid before.
LEMMA MilestonesStep ==
    ASSUME Parts, NEW i \in DOMAIN schedules, NEW ms \in MilestoneLists, SetMilestones(i, ms)
    PROVE  Parts'
<1> DEFINE s == schedules[i]
           r == s.reshaped \/ s.released > 0 \/ s.revoked # 0
           t == [s EXCEPT !.milestones = ms, !.reshaped = r]
<1>1. /\ schedules \in Seq(Schedule) /\ seq \in Nat /\ s \in Schedule /\ Initialized
      /\ ms \in Seq(Milestone) /\ \A k \in DOMAIN ms : ms[k].amount > 0
      /\ seq > 0
  BY VestingAssumption DEF Parts, TypeOK, SetMilestones
<1>2. Sound(s, seq) /\ r \in BOOLEAN
  <2>1. s.reshaped \in BOOLEAN
    BY <1>1, ScheduleFields
  <2> QED
    BY <2>1 DEF Parts, AllSound
<1>3. /\ schedules' = With(schedules, i, t)
      /\ admin' = admin /\ delegates' = delegates /\ seq' = seq
      /\ vault' = vault /\ wallet' = wallet
  BY <1>1 DEF SetMilestones, With
<1>4. /\ t.total = s.total /\ t.released = s.released /\ t.beneficiary = s.beneficiary
      /\ t.returned = s.returned
  BY <1>1 DEF Schedule
<1>5. Sound(t, seq)
  <2>0. r = (s.reshaped \/ s.released > 0 \/ s.revoked # 0)
    OBVIOUS
  <2> HIDE DEF s, r
  <2> QED
    BY <1>1, <1>2, <2>0, ReshapedSound
<1> HIDE DEF t
<1>6. t \in Schedule
  BY <1>5 DEF Sound
<1>7. TypeOK'
  BY <1>1, <1>3, <1>6 DEF Parts, TypeOK, With
<1>8. AllSound'
  <2>1. ASSUME NEW j \in DOMAIN schedules'
        PROVE  Sound(schedules'[j], seq)
    <3>1. schedules'[j] = t \/ (j \in DOMAIN schedules /\ schedules'[j] = schedules[j])
      BY <1>1, <1>3 DEF With
    <3> QED
      BY <1>5, <3>1 DEF Parts, AllSound
  <2> QED
    BY <1>3, <2>1 DEF AllSound
<1>9. Books'
  <2>0. ReturnsFrom(schedules[i], t, 0) /\ 0 \in Nat
    BY <1>1, <1>4, ScheduleFields DEF ReturnsFrom
  <2>1. /\ SumFunction(HeldOf(schedules)) \in Int
        /\ SumFunction(HeldOf(With(schedules, i, t))) = SumFunction(HeldOf(schedules)) - 0
    BY <1>1, <1>6, <2>0, HeldReturn
  <2>2. ASSUME NEW a \in Addr
        PROVE  SumFunction(PaidBy(admin, a, With(schedules, i, t)))
                  = SumFunction(PaidBy(admin, a, schedules))
    <3>1. /\ SumFunction(PaidBy(admin, a, schedules)) \in Int
          /\ SumFunction(PaidBy(admin, a, With(schedules, i, t)))
                = SumFunction(PaidBy(admin, a, schedules)) + (IF admin = a THEN 0 ELSE 0)
      BY <1>1, <1>6, <2>0, PaidReturn
    <3> QED
      BY <3>1
  <2>3. SumFunction(HeldOf(With(schedules, i, t))) = SumFunction(HeldOf(schedules))
    BY <2>1
  <2> QED
    BY <1>3, <2>2, <2>3 DEF Parts, Books
<1> QED
  BY <1>1, <1>3, <1>7, <1>8, <1>9 DEF Parts, Initialized

\* release and claim_on_behalf_of: every schedule pays what it may, and the
\* transfer is the sum of it.
LEMMA PayOutStep ==
    ASSUME Parts, NEW b \in Addr, Initialized, PayOut(b)
    PROVE  Parts'
<1> DEFINE h == [i \in DOMAIN schedules |-> Payout(b, i)]
           p(i) == [schedules[i] EXCEPT !.released = @ + h[i]]
<1>1. /\ schedules \in Seq(Schedule) /\ seq \in Nat /\ vault \in Nat /\ seq > 0
      /\ wallet \in [Addr -> Nat]
      /\ \A i \in DOMAIN schedules : schedules[i] \in Schedule /\ Sound(schedules[i], seq)
  BY DEF Parts, TypeOK, AllSound
<1>2. ASSUME NEW i \in DOMAIN schedules
      PROVE  /\ h[i] \in Nat
             /\ schedules[i].beneficiary # b => h[i] = 0
             /\ h[i] = 0 \/ h[i] = VestedAt(schedules[i], Eff(schedules[i], seq)) - schedules[i].released
  <2> DEFINE s == schedules[i]
             v == VestedAt(s, Eff(s, seq))
  <2>1. h[i] = IF s.beneficiary = b THEN Larger(0, Vested(s) - s.released) ELSE 0
    BY DEF Payout, Claimable
  <2>2. Sound(s, seq) /\ s \in Schedule
    BY <1>1
  <2> HIDE DEF s, h
  <2>3. Vested(s) = v /\ v \in 0..s.total /\ s.total \in Nat /\ s.released \in Nat
    BY <1>1, <2>2, VestedIs, SoundFacts, ScheduleFields
  <2> HIDE DEF v
  <2>4. /\ h[i] \in Nat
        /\ s.beneficiary # b => h[i] = 0
        /\ h[i] = 0 \/ h[i] = v - s.released
    BY <2>1, <2>3 DEF Larger
  <2> QED
    BY <2>4 DEF s, v
<1>3. h \in [DOMAIN schedules -> Nat]
  BY <1>2
<1>4. /\ SumFunction(h) <= vault /\ vault' = vault - SumFunction(h)
      /\ schedules' = [i \in DOMAIN schedules |-> p(i)]
      /\ wallet' = [wallet EXCEPT ![b] = @ + SumFunction(h)]
      /\ admin' = admin /\ delegates' = delegates /\ seq' = seq
  BY DEF PayOut
<1> HIDE DEF h
<1>5. ASSUME NEW i \in DOMAIN schedules
      PROVE  /\ Sound(p(i), seq) /\ p(i) \in Schedule
             /\ p(i).total = schedules[i].total /\ p(i).returned = schedules[i].returned
             /\ p(i).beneficiary = schedules[i].beneficiary
             /\ p(i).released = schedules[i].released + h[i]
  <2>1. Sound(p(i), seq)
    <3> DEFINE s == schedules[i]
               n == h[i]
    <3>1. /\ Sound(s, seq) /\ seq \in Nat /\ n \in Nat
          /\ n = 0 \/ n = VestedAt(s, Eff(s, seq)) - s.released
      BY <1>1, <1>2
    <3> HIDE DEF s, n
    <3>2. Sound([s EXCEPT !.released = @ + n], seq)
      BY <3>1, PaidSound
    <3> QED
      BY <3>2 DEF s, n
  <2>2. p(i) \in Schedule
    BY <2>1 DEF Sound
  <2>3. /\ p(i).total = schedules[i].total /\ p(i).returned = schedules[i].returned
        /\ p(i).beneficiary = schedules[i].beneficiary
        /\ p(i).released = schedules[i].released + h[i]
    BY <1>1 DEF Schedule
  <2> HIDE DEF p
  <2> QED
    BY <2>1, <2>2, <2>3
<1> HIDE DEF p
<1>6. /\ DOMAIN schedules' = DOMAIN schedules
      /\ \A i \in DOMAIN schedules : schedules'[i] = p(i)
      /\ schedules' \in Seq(Schedule)
  <2>1. DOMAIN schedules = 1..Len(schedules) /\ Len(schedules) \in Nat
    BY <1>1
  <2> QED
    BY <1>4, <1>5, <2>1
<1>7. /\ SumFunction(h) \in Nat
      /\ SumFunction(HeldOf(schedules')) = SumFunction(HeldOf(schedules)) - SumFunction(h)
      /\ \A a \in Addr : SumFunction(PaidBy(admin, a, schedules'))
            = SumFunction(PaidBy(admin, a, schedules)) + (IF a = b THEN SumFunction(h) ELSE 0)
  <2> DEFINE tt == schedules'
  <2>1. tt \in Seq(Schedule) /\ PaysFrom(schedules, tt, h, b)
    BY <1>2, <1>5, <1>6 DEF PaysFrom
  <2> HIDE DEF tt
  <2>2. ASSUME NEW a \in Addr
        PROVE  /\ SumFunction(h) \in Nat
               /\ SumFunction(HeldOf(tt)) = SumFunction(HeldOf(schedules)) - SumFunction(h)
               /\ SumFunction(PaidBy(admin, a, tt))
                     = SumFunction(PaidBy(admin, a, schedules))
                       + (IF a = b THEN SumFunction(h) ELSE 0)
    <3>1. schedules \in Seq(Schedule)
      BY <1>1
    <3>2. /\ SumFunction(h) \in Nat
          /\ SumFunction(HeldOf(tt)) = SumFunction(HeldOf(schedules)) - SumFunction(h)
          /\ SumFunction(PaidBy(admin, a, schedules)) \in Int
          /\ a = b => SumFunction(PaidBy(admin, a, tt))
                         = SumFunction(PaidBy(admin, a, schedules)) + SumFunction(h)
          /\ a # b => SumFunction(PaidBy(admin, a, tt)) = SumFunction(PaidBy(admin, a, schedules))
      BY <1>3, <2>1, <3>1, BooksPay
    <3> QED
      BY <3>2
  <2> QED
    BY <2>2 DEF tt
<1>8. TypeOK'
  <2>1. vault' \in Nat /\ wallet' \in [Addr -> Nat]
    BY <1>1, <1>4, <1>7
  <2> QED
    BY <1>4, <1>6, <2>1 DEF Parts, TypeOK
<1>9. AllSound'
  BY <1>4, <1>5, <1>6 DEF AllSound
<1>10. Books'
  <2>1. \A a \in Addr : wallet'[a] = wallet[a] + (IF a = b THEN SumFunction(h) ELSE 0)
    BY <1>1, <1>4, <1>7
  <2> QED
    BY <1>4, <1>7, <2>1 DEF Parts, Books
<1> QED
  BY <1>1, <1>4, <1>8, <1>9, <1>10 DEF Parts, Initialized

\* Every step keeps the parts of the invariant.
LEMMA NextParts == Parts /\ [Next]_vars => Parts'
<1> SUFFICES ASSUME Parts, [Next]_vars PROVE Parts'
  OBVIOUS
<1>1. ASSUME NEW a \in Founders, Initialize(a) PROVE Parts'
  BY <1>1, InitializeStep
<1>2. ASSUME NEW b \in Addr, NEW n \in Amounts, NEW c \in Cliffs, NEW d \in Durations,
             NEW r \in BOOLEAN, CreateVesting(b, n, c, d, r)
      PROVE  Parts'
  BY <1>2, CreateStep
<1>3. ASSUME NEW i \in DOMAIN schedules, Revoke(i) PROVE Parts'
  BY <1>3, RevokeStep
<1>4. ASSUME NEW i \in DOMAIN schedules, NEW ms \in MilestoneLists, SetMilestones(i, ms)
      PROVE  Parts'
  BY <1>4, MilestonesStep
<1>5. ASSUME NEW b \in Addr, Release(b) PROVE Parts'
  BY <1>5, PayOutStep DEF Release
<1>6. ASSUME NEW c \in Addr, NEW b \in Addr, ClaimOnBehalfOf(c, b) PROVE Parts'
  BY <1>6, PayOutStep DEF ClaimOnBehalfOf
<1>7. ASSUME NEW q \in Delegations, NEW yes \in BOOLEAN, AuthorizeClaimer(q[1], q[2], yes)
      PROVE  Parts'
  <2>1. q[1] \in Addr /\ q[2] \in Addr
    BY VestingAssumption
  <2>2. TypeOK'
    BY <1>7, <2>1 DEF Parts, TypeOK, AuthorizeClaimer
  <2> QED
    BY <1>7, <2>2 DEF Parts, Books, AllSound, Initialized, AuthorizeClaimer
<1>8. ASSUME CloseLedger PROVE Parts'
  <2>1. seq \in Nat /\ seq' = seq + 1 /\ schedules' = schedules
    BY <1>8 DEF CloseLedger, Parts, TypeOK
  <2>2. AllSound'
    BY <2>1, LaterSound DEF Parts, AllSound
  <2>3. TypeOK' /\ seq' > 0
    BY <1>8, <2>1 DEF Parts, TypeOK, CloseLedger
  <2> QED
    BY <1>8, <2>2, <2>3 DEF Parts, Books, Initialized, CloseLedger
<1>9. ASSUME UNCHANGED vars PROVE Parts'
  BY <1>9 DEF vars, Parts, TypeOK, Books, AllSound, Initialized
<1> QED
  BY <1>1, <1>2, <1>3, <1>4, <1>5, <1>6, <1>7, <1>8, <1>9 DEF Next

\* Every reachable state satisfies the inductive invariant.
THEOREM InvHolds == Spec => []Inv
<1>1. Spec => []Parts
  BY InitParts, NextParts, PTL DEF Spec
<1> QED
  BY <1>1, PartsMakeInv, PTL

\* Every token the contract minted is in its vault, released to the schedule's own
\* beneficiary or returned to the admin, and no schedule pays inside its cliff,
\* for any interleaving of claims, delegations, tranches and revocations
\* (create_vesting, release, claim_on_behalf_of, revoke).
THEOREM BooksBalance == Spec => []Consistent
<1>1. Inv => Consistent
  BY DEF Inv
<1> QED
  BY <1>1, InvHolds, PTL

\* A revocation divides a schedule's total for good: unless its tranches are set
\* after a payout, what the admin took and what the beneficiary can ever have add
\* up to it, and it never pays more (revoke, vested_amount).
THEOREM RevocationsDivide == Spec => []RevocationDivides
<1>1. Inv => RevocationDivides
  BY DEF Inv
<1> QED
  BY <1>1, InvHolds, PTL

\* The page's own formula never promises more than the contract has vested, and
\* is exact for a schedule without tranches (calculateVestedAmount).
THEOREM PageStaysBacked == Spec => []PageIsBacked
<1>1. Parts => PageIsBacked
  <2> SUFFICES ASSUME Parts, NEW i \in DOMAIN schedules, schedules[i].revoked = 0
               PROVE  LET s == schedules[i]
                          shown == calculateVestedAmount(s, seq)
                      IN  /\ shown <= Vested(s)
                          /\ s.milestones = <<>> => shown = Vested(s)
    BY DEF PageIsBacked
  <2> DEFINE s == schedules[i]
             shown == calculateVestedAmount(s, seq)
  <2>1. Sound(s, seq) /\ seq \in Nat /\ s.revoked = 0
    BY DEF Parts, AllSound, TypeOK
  <2> HIDE DEF s
  <2>2. Vested(s) = VestedAt(s, seq)
    BY <2>1, VestedIs DEF Eff
  <2>3. Shaped(s)
    BY <2>1, SoundFacts
  <2>4. s.total \in Nat /\ s.cliff \in Nat /\ s.start < s.end /\ s.start \in Nat /\ s.end \in Nat
    BY <2>3 DEF Shaped
  <2>5. /\ Tranches(s, seq) \in Nat
        /\ s.milestones = <<>> => Tranches(s, seq) = 0
    BY <2>1, <2>3, TranchesFacts
  <2>6. s.cliff <= seq => Linear(s, seq) \in 0..s.total
    BY <2>1, <2>3, <2>4, LinearFacts
  <2>7. /\ seq < s.cliff => shown = 0
        /\ s.cliff <= seq => shown = Linear(s, seq)
    BY <2>1, <2>4 DEF calculateVestedAmount, Linear
  <2> HIDE DEF shown
  <2>8. CASE seq < s.cliff
    BY <2>2, <2>7, <2>8 DEF VestedAt, s, shown
  <2>9. CASE s.cliff <= seq
    <3>1. Vested(s) = Smaller(s.total, Larger(Linear(s, seq), Tranches(s, seq)))
      BY <2>1, <2>2, <2>4, <2>9 DEF VestedAt
    <3>2. shown <= Vested(s) /\ (s.milestones = <<>> => shown = Vested(s))
      BY <2>4, <2>5, <2>6, <2>7, <2>9, <3>1 DEF Smaller, Larger
    <3> QED
      BY <3>2 DEF s, shown
  <2> QED
    BY <2>1, <2>4, <2>8, <2>9
<1>2. Spec => []Parts
  BY InitParts, NextParts, PTL DEF Spec
<1> QED
  BY <1>1, <1>2, PTL

----------------------------------------------------------------------------
(* The split contract: the loop of release_payment *)

\* The states the loop goes through, up to recipient n
IsLoop(start, rs, n, g) ==
    g = [k \in 0 .. n |-> IF k = 0 THEN start ELSE PayRecipient(g[k - 1], rs[k])]

Loop(start, rs) == CHOOSE g : IsLoop(start, rs, Len(rs), g)

\* The model's loop ends in the last of them.
LEMMA PayAllIsLoop ==
    ASSUME NEW start, NEW rs
    PROVE  PayAll(start, rs) = Loop(start, rs)[Len(rs)]
BY DEF PayAll, Loop, IsLoop

\* There is such a function, so the loop goes recipient by recipient.
LEMMA LoopSteps ==
    ASSUME NEW start, NEW rs, Len(rs) \in Nat
    PROVE  /\ Loop(start, rs)[0] = start
           /\ \A k \in 0 .. Len(rs) - 1 :
                 Loop(start, rs)[k + 1] = PayRecipient(Loop(start, rs)[k], rs[k + 1])
<1> DEFINE N == Len(rs)
           G == {k \in 0 .. N : \E g : IsLoop(start, rs, k, g)}
<1>1. 0 \in G
  <2> DEFINE g == [k \in 0 .. 0 |-> start]
  <2>1. \A k \in 0 .. 0 : k = 0
    OBVIOUS
  <2>2. IsLoop(start, rs, 0, g)
    BY <2>1 DEF IsLoop
  <2> QED
    BY <2>2
<1>2. ASSUME NEW k \in 0 .. N - 1, k \in G PROVE k + 1 \in G
  <2>1. PICK g : IsLoop(start, rs, k, g)
    BY <1>2
  <2> DEFINE h == [j \in 0 .. k + 1 |-> IF j = k + 1 THEN PayRecipient(g[k], rs[k + 1]) ELSE g[j]]
  <2>2. \A j \in 0 .. k : g[j] = IF j = 0 THEN start ELSE PayRecipient(g[j - 1], rs[j])
    BY <2>1 DEF IsLoop
  <2>3. ASSUME NEW j \in 0 .. k + 1
        PROVE  h[j] = IF j = 0 THEN start ELSE PayRecipient(h[j - 1], rs[j])
    <3>1. CASE j = k + 1
      <4>1. j # 0 /\ j - 1 = k /\ k \in 0 .. k + 1 /\ k # k + 1
        BY <3>1
      <4>2. h[j - 1] = g[k] /\ h[j] = PayRecipient(g[k], rs[k + 1])
        BY <3>1, <4>1
      <4> QED
        BY <3>1, <4>1, <4>2
    <3>2. CASE j # k + 1
      <4>1. j \in 0 .. k /\ h[j] = g[j]
        BY <3>2
      <4>2. CASE j = 0
        BY <2>2, <4>1, <4>2
      <4>3. CASE j # 0
        <5>1. j - 1 \in 0 .. k + 1 /\ j - 1 # k + 1
          BY <4>1, <4>3
        <5>2. h[j - 1] = g[j - 1]
          BY <5>1
        <5> QED
          BY <2>2, <4>1, <4>3, <5>2
      <4> QED
        BY <4>2, <4>3
    <3> QED
      BY <3>1, <3>2
  <2>4. DOMAIN h = 0 .. k + 1 /\ h = [j \in 0 .. k + 1 |-> h[j]]
    OBVIOUS
  <2> HIDE DEF h
  <2>5. IsLoop(start, rs, k + 1, h)
    BY <2>3, <2>4 DEF IsLoop
  <2> QED
    BY <2>5
<1>3. N \in G
  <2>1. \A k \in 0 .. N : k \in G
    <3> HIDE DEF G, N
    <3>1. N \in Nat
      BY DEF N
    <3> QED
      BY <1>1, <1>2, <3>1, UpToN
  <2> QED
    BY <2>1
<1>4. IsLoop(start, rs, N, Loop(start, rs))
  BY <1>3 DEF Loop
<1> DEFINE L == Loop(start, rs)
<1> HIDE DEF L
<1>5. \A k \in 0 .. N : L[k] = IF k = 0 THEN start ELSE PayRecipient(L[k - 1], rs[k])
  BY <1>4 DEF IsLoop, L
<1>6. L[0] = start
  BY <1>5
<1>7. ASSUME NEW k \in 0 .. N - 1 PROVE L[k + 1] = PayRecipient(L[k], rs[k + 1])
  <2>1. k + 1 \in 0 .. N /\ k + 1 # 0 /\ (k + 1) - 1 = k
    OBVIOUS
  <2> QED
    BY <1>5, <2>1
<1> QED
  BY <1>6, <1>7 DEF L

----------------------------------------------------------------------------
(* One recipient *)

Record == [amount : Nat, retries : 0 .. MaxRetries]
Acc == [balance : Nat, sum : Nat, failures : Nat, failed : [Payees -> Record], paid : [Payees -> Nat]]

\* What the loop does for one recipient: skips it, pays it, or records it.
LEMMA PayCases ==
    ASSUME NEW a \in Acc, NEW r \in Recipient, r.amount > 0
    PROVE  /\ PayRecipient(a, r) \in Acc
           /\ \/ a.failed[r.to].retries >= MaxRetries /\ PayRecipient(a, r) = a
              \/ /\ PayRecipient(a, r).sum = a.sum + r.amount
                 /\ PayRecipient(a, r).paid = [a.paid EXCEPT ![r.to] = @ + r.amount]
                 /\ PayRecipient(a, r).failed = a.failed
              \/ /\ PayRecipient(a, r).sum = a.sum /\ PayRecipient(a, r).paid = a.paid
                 /\ PayRecipient(a, r).failed =
                       [a.failed EXCEPT ![r.to] = [amount |-> r.amount, retries |-> @.retries + 1]]
<1>1. /\ r.to \in Payees /\ r.amount \in Nat
      /\ a.balance \in Nat /\ a.sum \in Nat /\ a.failures \in Nat
      /\ a.failed \in [Payees -> Record] /\ a.paid \in [Payees -> Nat]
  BY DEF Recipient, Acc
<1>2. a.failed[r.to] \in Record /\ a.paid[r.to] \in Nat
  BY <1>1
<1>3. a.failed[r.to].retries \in 0 .. MaxRetries /\ MaxRetries = 3
  BY <1>2 DEF Record, MaxRetries
<1>4. CASE a.failed[r.to].retries >= MaxRetries
  <2>0. ~(a.failed[r.to].retries < MaxRetries)
    BY <1>3, <1>4
  <2>1. PayRecipient(a, r) = a
    BY <1>4, <2>0 DEF PayRecipient
  <2> QED
    BY <1>4, <2>1
<1>5. CASE a.failed[r.to].retries < MaxRetries /\ CanPay(a.balance, r.amount)
  <2>0. ~(a.failed[r.to].retries >= MaxRetries)
    BY <1>3, <1>5
  <2> DEFINE b == [a EXCEPT !.balance = @ - r.amount, !.sum = @ + r.amount,
                            !.paid[r.to] = @ + r.amount]
  <2>1. PayRecipient(a, r) = b
    BY <1>5, <2>0 DEF PayRecipient
  <2>2. a.balance - r.amount \in Nat /\ a.sum + r.amount \in Nat /\ a.paid[r.to] + r.amount \in Nat
    BY <1>1, <1>2, <1>5 DEF CanPay
  <2>3. [a.paid EXCEPT ![r.to] = @ + r.amount] \in [Payees -> Nat]
    BY <1>1, <2>2
  <2>4. /\ b.sum = a.sum + r.amount /\ b.paid = [a.paid EXCEPT ![r.to] = @ + r.amount]
        /\ b.failed = a.failed /\ b.failures = a.failures /\ b.balance = a.balance - r.amount
    BY DEF Acc
  <2>5. b \in Acc
    BY <1>1, <2>2, <2>3 DEF Acc
  <2> HIDE DEF b
  <2> QED
    BY <2>1, <2>4, <2>5
<1>6. CASE a.failed[r.to].retries < MaxRetries /\ ~CanPay(a.balance, r.amount)
  <2>0. ~(a.failed[r.to].retries >= MaxRetries)
    BY <1>3, <1>6
  <2> DEFINE b == [a EXCEPT !.failures = @ + 1,
                            !.failed[r.to] = [amount |-> r.amount, retries |-> @.retries + 1]]
  <2>1. PayRecipient(a, r) = b
    BY <1>6, <2>0 DEF PayRecipient
  <2>2. a.failures + 1 \in Nat /\ a.failed[r.to].retries + 1 \in 0 .. MaxRetries
    BY <1>1, <1>3, <1>6
  <2>3. [a.failed EXCEPT ![r.to] = [amount |-> r.amount, retries |-> @.retries + 1]] \in [Payees -> Record]
    BY <1>1, <2>2 DEF Record
  <2>4. /\ b.sum = a.sum /\ b.paid = a.paid /\ b.balance = a.balance /\ b.failures = a.failures + 1
        /\ b.failed = [a.failed EXCEPT ![r.to] = [amount |-> r.amount, retries |-> @.retries + 1]]
    BY DEF Acc
  <2>5. b \in Acc
    BY <1>1, <2>2, <2>3 DEF Acc
  <2> HIDE DEF b
  <2> QED
    BY <2>1, <2>4, <2>5
<1> QED
  BY <1>3, <1>4, <1>5, <1>6

----------------------------------------------------------------------------
(* Lists of recipients *)

Listing == {rs \in Seq(Recipient) : \A k \in DOMAIN rs : rs[k].amount > 0}

AmountsIn(rs) == [k \in DOMAIN rs |-> rs[k].amount]

\* The positions of a recipient among the first n
PlacesOf(rs, p, n) == {j \in 1 .. n : rs[j].to = p}

\* What the first n recipients of a list are owed, and what p is owed of that
Owed(rs, n) == SumFunctionOnSet(AmountsIn(rs), 1 .. n)
OwedTo(rs, p, n) == SumFunctionOnSet(AmountsIn(rs), PlacesOf(rs, p, n))

\* A list has a length, and its members are recipients of positive amounts.
LEMMA ListFacts ==
    ASSUME NEW rs \in Listing
    PROVE  /\ Len(rs) \in Nat /\ DOMAIN rs = 1 .. Len(rs)
           /\ \A k \in DOMAIN rs : /\ rs[k] \in Recipient /\ rs[k].amount \in Int /\ rs[k].amount > 0
                                   /\ AmountsIn(rs)[k] = rs[k].amount
<1>1. rs \in Seq(Recipient)
  BY DEF Listing
<1>2. Len(rs) \in Nat /\ DOMAIN rs = 1 .. Len(rs) /\ \A k \in DOMAIN rs : rs[k] \in Recipient
  BY <1>1
<1>3. \A k \in DOMAIN rs : rs[k].amount \in Int
  BY <1>2 DEF Recipient
<1> QED
  BY <1>2, <1>3 DEF Listing, AmountsIn

\* The whole list, and the whole of a share.
LEMMA OwedInAll ==
    ASSUME NEW rs \in Listing, NEW p
    PROVE  Owed(rs, Len(rs)) = Total(rs) /\ OwedTo(rs, p, Len(rs)) = Share(rs, p)
<1>1. DOMAIN rs = 1 .. Len(rs)
  BY ListFacts
<1>2. Total(rs) = SumFunctionOnSet(AmountsIn(rs), DOMAIN rs)
  BY DEF Total, SumFunction, AmountsIn, SumFunctionOnSet, FoldFunction, FoldFunctionOnSet
<1> DEFINE S == {j \in DOMAIN rs : rs[j].to = p}
           f == [k \in S |-> rs[k].amount]
<1>3. S = PlacesOf(rs, p, Len(rs))
  BY <1>1 DEF PlacesOf
<1>4. Share(rs, p) = SumFunctionOnSet(f, S)
  BY DEF Share, SumFunction, SumFunctionOnSet, FoldFunction, FoldFunctionOnSet
<1>5. IsFiniteSet(S) /\ \A x \in S : f[x] = AmountsIn(rs)[x]
  <2>1. IsFiniteSet(1 .. Len(rs)) /\ S \subseteq 1 .. Len(rs)
    BY <1>1, ListFacts, FS_Interval
  <2>2. IsFiniteSet(S)
    BY <2>1, FS_Subset
  <2> QED
    BY <2>2 DEF AmountsIn
<1>6. SumFunctionOnSet(f, S) = SumFunctionOnSet(AmountsIn(rs), S)
  <2> HIDE DEF f, S
  <2> QED
    BY <1>5, SumCongruent
<1> QED
  BY <1>1, <1>2, <1>3, <1>4, <1>6 DEF Owed, OwedTo

\* At the beginning nobody is owed anything; each recipient adds to it.
LEMMA OwedGrows ==
    ASSUME NEW rs \in Listing
    PROVE  /\ Owed(rs, 0) = 0 /\ \A p : OwedTo(rs, p, 0) = 0
           /\ \A k \in 0 .. Len(rs) - 1 :
                 /\ Owed(rs, k) \in Int /\ Owed(rs, k + 1) = Owed(rs, k) + rs[k + 1].amount
                 /\ \A p : /\ OwedTo(rs, p, k) \in Int
                           /\ rs[k + 1].to = p =>
                                 OwedTo(rs, p, k + 1) = OwedTo(rs, p, k) + rs[k + 1].amount
                           /\ rs[k + 1].to # p => OwedTo(rs, p, k + 1) = OwedTo(rs, p, k)
<1>1. Len(rs) \in Nat /\ DOMAIN rs = 1 .. Len(rs)
  BY ListFacts
<1>2. Owed(rs, 0) = 0 /\ \A p : OwedTo(rs, p, 0) = 0
  <2>1. 1 .. 0 = {} /\ \A p : PlacesOf(rs, p, 0) = {}
    BY DEF PlacesOf
  <2> QED
    BY <2>1, SumEmpty DEF Owed, OwedTo
<1>3. ASSUME NEW k \in 0 .. Len(rs) - 1
      PROVE  /\ Owed(rs, k) \in Int /\ Owed(rs, k + 1) = Owed(rs, k) + rs[k + 1].amount
             /\ \A p : /\ OwedTo(rs, p, k) \in Int
                       /\ rs[k + 1].to = p =>
                             OwedTo(rs, p, k + 1) = OwedTo(rs, p, k) + rs[k + 1].amount
                       /\ rs[k + 1].to # p => OwedTo(rs, p, k + 1) = OwedTo(rs, p, k)
  <2> DEFINE f == AmountsIn(rs)
  <2>1. /\ k \in Nat /\ k + 1 \in 1 .. Len(rs) /\ 1 .. k \subseteq 1 .. Len(rs)
        /\ 1 .. k + 1 \subseteq 1 .. Len(rs)
        /\ (1 .. k + 1) \ {k + 1} = 1 .. k /\ k + 1 \in 1 .. k + 1
    BY <1>1
  <2>2. IsFiniteSet(1 .. k) /\ IsFiniteSet(1 .. k + 1)
    BY <2>1, FS_Interval
  <2>3. \A x \in 1 .. Len(rs) : f[x] \in Int /\ f[x] = rs[x].amount
    BY <1>1, ListFacts
  <2> HIDE DEF f
  <2>4. f[k + 1] = rs[k + 1].amount /\ f[k + 1] \in Int
    BY <2>1, <2>3
  <2>5. \A x \in 1 .. k + 1 : f[x] \in Int
    BY <2>1, <2>3
  <2>6. SumFunctionOnSet(f, 1 .. k + 1) = f[k + 1] + SumFunctionOnSet(f, 1 .. k)
    <3>1. PICK S : S = 1 .. k + 1
      OBVIOUS
    <3>2. SumFunctionOnSet(f, S) = f[k + 1] + SumFunctionOnSet(f, S \ {k + 1})
      BY <2>1, <2>2, <2>5, <3>1, SumRemove
    <3> QED
      BY <2>1, <3>1, <3>2
  <2>7. SumFunctionOnSet(f, 1 .. k) \in Int
    BY <2>1, <2>2, <2>3, SumType
  <2>8. Owed(rs, k) \in Int /\ Owed(rs, k + 1) = Owed(rs, k) + rs[k + 1].amount
    BY <2>4, <2>6, <2>7 DEF Owed, f
  <2>9. ASSUME NEW p
        PROVE  /\ OwedTo(rs, p, k) \in Int
               /\ rs[k + 1].to = p => OwedTo(rs, p, k + 1) = OwedTo(rs, p, k) + rs[k + 1].amount
               /\ rs[k + 1].to # p => OwedTo(rs, p, k + 1) = OwedTo(rs, p, k)
    <3>1. PICK S : S = PlacesOf(rs, p, k + 1)
      OBVIOUS
    <3>2. PICK R : R = PlacesOf(rs, p, k)
      OBVIOUS
    <3>3. S \subseteq 1 .. k + 1 /\ R \subseteq 1 .. k
      BY <3>1, <3>2 DEF PlacesOf
    <3>4. IsFiniteSet(S) /\ IsFiniteSet(R)
      BY <2>2, <3>3, FS_Subset
    <3>5. (\A x \in S : f[x] \in Int) /\ (\A x \in R : f[x] \in Int)
      BY <2>1, <2>3, <3>3
    <3>6. SumFunctionOnSet(f, R) \in Int
      BY <3>4, <3>5, SumType
    <3>7. CASE rs[k + 1].to = p
      <4>1. k + 1 \in S /\ S \ {k + 1} = R
        BY <2>1, <3>1, <3>2, <3>7 DEF PlacesOf
      <4>2. SumFunctionOnSet(f, S) = f[k + 1] + SumFunctionOnSet(f, S \ {k + 1})
        BY <3>4, <3>5, <4>1, SumRemove
      <4>3. OwedTo(rs, p, k + 1) = SumFunctionOnSet(f, S) /\ OwedTo(rs, p, k) = SumFunctionOnSet(f, R)
        BY <3>1, <3>2 DEF OwedTo, f
      <4>4. OwedTo(rs, p, k + 1) = rs[k + 1].amount + OwedTo(rs, p, k)
        BY <2>4, <4>1, <4>2, <4>3
      <4> QED
        BY <2>4, <3>6, <3>7, <4>3, <4>4
    <3>8. CASE rs[k + 1].to # p
      <4>1. S = R
        BY <2>1, <3>1, <3>2, <3>8 DEF PlacesOf
      <4> QED
        BY <3>1, <3>2, <3>6, <3>8, <4>1 DEF OwedTo, f
    <3> QED
      BY <3>7, <3>8
  <2> QED
    BY <2>8, <2>9
<1> QED
  BY <1>2, <1>3

----------------------------------------------------------------------------
(* The loop over a list *)

\* A payout that is recorded was tried.
Tried(fl) == \A p \in Payees : fl[p].retries = 0 => fl[p] = Absent

\* Types hold throughout the loop.
LEMMA LoopTyped ==
    ASSUME NEW rs \in Listing, NEW start \in Acc, Tried(start.failed), NEW n \in 0 .. Len(rs)
    PROVE  Loop(start, rs)[n] \in Acc /\ Tried(Loop(start, rs)[n].failed)
<1>1. PICK L : L = Loop(start, rs)
  OBVIOUS
<1>2. Len(rs) \in Nat /\ DOMAIN rs = 1 .. Len(rs)
  BY ListFacts
<1>3. L[0] = start /\ \A k \in 0 .. Len(rs) - 1 : L[k + 1] = PayRecipient(L[k], rs[k + 1])
  BY <1>1, <1>2, LoopSteps
<1> DEFINE G == {k \in 0 .. Len(rs) : L[k] \in Acc /\ Tried(L[k].failed)}
<1>4. 0 \in G
  BY <1>2, <1>3
<1>5. ASSUME NEW k \in 0 .. Len(rs) - 1, k \in G PROVE k + 1 \in G
  <2>1. /\ k + 1 \in 0 .. Len(rs) /\ k + 1 \in DOMAIN rs
    BY <1>2
  <2>2. PICK r : r = rs[k + 1]
    OBVIOUS
  <2>3. r \in Recipient /\ r.amount > 0 /\ r.amount \in Int /\ r.to \in Payees
    BY <2>1, <2>2, ListFacts DEF Recipient
  <2>4. PICK a : a = L[k]
    OBVIOUS
  <2>5. PICK b : b = L[k + 1]
    OBVIOUS
  <2>6. a \in Acc /\ Tried(a.failed) /\ b = PayRecipient(a, r)
    BY <1>3, <1>5, <2>2, <2>4, <2>5
  <2>7. a.failed \in [Payees -> Record]
    BY <2>6 DEF Acc
  <2>8. a.failed[r.to].retries + 1 # 0
    <3>1. a.failed[r.to] \in Record
      BY <2>3, <2>7
    <3>2. a.failed[r.to].retries \in 0 .. MaxRetries /\ MaxRetries \in Nat
      BY <3>1 DEF Record, MaxRetries
    <3> QED
      BY <3>2
  <2>9. b \in Acc
    BY <2>3, <2>6, PayCases
  <2>10. \/ b.failed = a.failed
         \/ b.failed = [a.failed EXCEPT ![r.to] = [amount |-> r.amount, retries |-> @.retries + 1]]
    BY <2>3, <2>6, PayCases
  <2>11. Tried(b.failed)
    BY <2>6, <2>7, <2>8, <2>10 DEF Tried
  <2> QED
    BY <2>1, <2>5, <2>9, <2>11
<1>6. \A k \in 0 .. Len(rs) : k \in G
  <2> HIDE DEF G
  <2> QED
    BY <1>2, <1>4, <1>5, UpToN
<1> QED
  BY <1>1, <1>6

\* The sum paid is at most what was owed so far; if it is all of that, every
\* recipient got what it was owed so far.
LEMMA LoopPays ==
    ASSUME NEW rs \in Listing, NEW start \in Acc, Tried(start.failed), start.sum = 0,
           NEW n \in 0 .. Len(rs)
    PROVE  /\ Loop(start, rs)[n].sum <= Owed(rs, n)
           /\ Loop(start, rs)[n].sum = Owed(rs, n) =>
                 \A p \in Payees : Loop(start, rs)[n].paid[p] >= OwedTo(rs, p, n)
<1>1. PICK L : L = Loop(start, rs)
  OBVIOUS
<1>2. Len(rs) \in Nat /\ DOMAIN rs = 1 .. Len(rs)
  BY ListFacts
<1>3. L[0] = start /\ \A k \in 0 .. Len(rs) - 1 : L[k + 1] = PayRecipient(L[k], rs[k + 1])
  BY <1>1, <1>2, LoopSteps
<1>4. \A k \in 0 .. Len(rs) : L[k] \in Acc
  BY <1>1, LoopTyped
<1> DEFINE G == {k \in 0 .. Len(rs) :
                    /\ L[k].sum <= Owed(rs, k)
                    /\ L[k].sum = Owed(rs, k) => \A p \in Payees : L[k].paid[p] >= OwedTo(rs, p, k)}
<1>5. 0 \in G
  <2>1. Owed(rs, 0) = 0 /\ \A p : OwedTo(rs, p, 0) = 0
    BY OwedGrows
  <2>2. \A p \in Payees : start.paid[p] \in Nat
    BY DEF Acc
  <2>3. \A p \in Payees : L[0].paid[p] >= OwedTo(rs, p, 0)
    BY <1>3, <2>1, <2>2
  <2>4. L[0].sum <= Owed(rs, 0)
    BY <1>3, <2>1
  <2> QED
    BY <1>2, <2>3, <2>4
<1>6. ASSUME NEW k \in 0 .. Len(rs) - 1, k \in G PROVE k + 1 \in G
  <2>1. k + 1 \in 0 .. Len(rs) /\ k + 1 \in DOMAIN rs /\ k \in 0 .. Len(rs)
    BY <1>2
  <2>2. PICK r : r = rs[k + 1]
    OBVIOUS
  <2>3. r \in Recipient /\ r.amount > 0 /\ r.amount \in Int /\ r.to \in Payees
    BY <2>1, <2>2, ListFacts DEF Recipient
  <2>4. PICK a : a = L[k]
    OBVIOUS
  <2>5. PICK b : b = L[k + 1]
    OBVIOUS
  <2>6. /\ a \in Acc /\ b \in Acc /\ b = PayRecipient(a, r)
    BY <1>3, <1>4, <2>1, <2>2, <2>4, <2>5
  <2>7. /\ a.sum \in Nat /\ b.sum \in Nat
        /\ a.paid \in [Payees -> Nat] /\ b.paid \in [Payees -> Nat]
    BY <2>6 DEF Acc
  <2>8. /\ Owed(rs, k) \in Int /\ Owed(rs, k + 1) = Owed(rs, k) + r.amount
        /\ \A p : /\ OwedTo(rs, p, k) \in Int
                  /\ r.to = p => OwedTo(rs, p, k + 1) = OwedTo(rs, p, k) + r.amount
                  /\ r.to # p => OwedTo(rs, p, k + 1) = OwedTo(rs, p, k)
    BY <2>2, OwedGrows
  <2>9. /\ a.sum <= Owed(rs, k)
        /\ a.sum = Owed(rs, k) => \A p \in Payees : a.paid[p] >= OwedTo(rs, p, k)
    BY <1>6, <2>4
  <2>10. \/ b.sum = a.sum
         \/ b.sum = a.sum + r.amount /\ b.paid = [a.paid EXCEPT ![r.to] = @ + r.amount]
    BY <2>3, <2>6, PayCases
  <2>11. CASE b.sum = a.sum
    <3>1. b.sum < Owed(rs, k + 1)
      BY <2>3, <2>7, <2>8, <2>9, <2>11
    <3>2. b.sum <= Owed(rs, k + 1) /\ b.sum # Owed(rs, k + 1)
      BY <2>3, <2>7, <2>8, <3>1
    <3> QED
      BY <2>1, <2>5, <3>2
  <2>12. CASE b.sum = a.sum + r.amount /\ b.paid = [a.paid EXCEPT ![r.to] = @ + r.amount]
    <3>1. b.sum <= Owed(rs, k + 1)
      BY <2>3, <2>7, <2>8, <2>9, <2>12
    <3>2. ASSUME b.sum = Owed(rs, k + 1), NEW p \in Payees PROVE b.paid[p] >= OwedTo(rs, p, k + 1)
      <4>1. a.sum = Owed(rs, k)
        BY <2>3, <2>7, <2>8, <2>12, <3>2
      <4>2. a.paid[p] >= OwedTo(rs, p, k) /\ a.paid[p] \in Nat /\ OwedTo(rs, p, k) \in Int
        BY <2>7, <2>8, <2>9, <4>1
      <4>3. CASE r.to = p
        <5>1. b.paid[p] = a.paid[p] + r.amount
          BY <2>7, <2>12, <4>3
        <5>2. OwedTo(rs, p, k + 1) = OwedTo(rs, p, k) + r.amount
          BY <2>8, <4>3
        <5> QED
          BY <2>3, <4>2, <5>1, <5>2
      <4>4. CASE r.to # p
        <5>1. b.paid[p] = a.paid[p]
          BY <2>7, <2>12, <4>4
        <5>2. OwedTo(rs, p, k + 1) = OwedTo(rs, p, k)
          BY <2>8, <4>4
        <5> QED
          BY <4>2, <5>1, <5>2
      <4> QED
        BY <4>3, <4>4
    <3> QED
      BY <2>1, <2>5, <3>1, <3>2
  <2> QED
    BY <2>10, <2>11, <2>12
<1>7. \A k \in 0 .. Len(rs) : k \in G
  <2> HIDE DEF G
  <2> QED
    BY <1>2, <1>5, <1>6, UpToN
<1> QED
  BY <1>1, <1>7

\* In a list that names nobody twice, a recipient the loop has come to got its
\* amount or has it on record, and the others have nothing yet.
LEMMA LoopIsolates ==
    ASSUME NEW rs \in Listing, Distinct(rs), NEW start \in Acc,
           \A p \in Payees : start.paid[p] = 0 /\ start.failed[p] = Absent,
           NEW n \in 0 .. Len(rs), NEW p \in Payees
    PROVE  /\ \A j \in 1 .. n : rs[j].to = p =>
                 Loop(start, rs)[n].paid[p] + Loop(start, rs)[n].failed[p].amount = rs[j].amount
           /\ (\A j \in 1 .. n : rs[j].to # p) =>
                 Loop(start, rs)[n].paid[p] = 0 /\ Loop(start, rs)[n].failed[p] = Absent
<1>1. PICK L : L = Loop(start, rs)
  OBVIOUS
<1>2. Len(rs) \in Nat /\ DOMAIN rs = 1 .. Len(rs)
  BY ListFacts
<1>3. L[0] = start /\ \A k \in 0 .. Len(rs) - 1 : L[k + 1] = PayRecipient(L[k], rs[k + 1])
  BY <1>1, <1>2, LoopSteps
<1>4. \A k \in 0 .. Len(rs) : L[k] \in Acc
  <2>1. Tried(start.failed)
    BY DEF Tried
  <2> QED
    BY <1>1, <2>1, LoopTyped
<1> DEFINE G == {k \in 0 .. Len(rs) :
                    /\ \A j \in 1 .. k : rs[j].to = p =>
                          L[k].paid[p] + L[k].failed[p].amount = rs[j].amount
                    /\ (\A j \in 1 .. k : rs[j].to # p) => L[k].paid[p] = 0 /\ L[k].failed[p] = Absent}
<1>5. 0 \in G
  BY <1>2, <1>3
<1>6. ASSUME NEW k \in 0 .. Len(rs) - 1, k \in G PROVE k + 1 \in G
  <2>1. /\ k + 1 \in 0 .. Len(rs) /\ k + 1 \in DOMAIN rs /\ k \in 0 .. Len(rs)
        /\ \A j \in 1 .. k + 1 : j = k + 1 \/ j \in 1 .. k
        /\ \A j \in 1 .. k : j \in DOMAIN rs /\ j # k + 1 /\ j \in 1 .. k + 1
        /\ k + 1 \in 1 .. k + 1
    BY <1>2
  <2>2. PICK r : r = rs[k + 1]
    OBVIOUS
  <2>3. r \in Recipient /\ r.amount > 0 /\ r.amount \in Int /\ r.to \in Payees
    BY <2>1, <2>2, ListFacts DEF Recipient
  <2>4. PICK a : a = L[k]
    OBVIOUS
  <2>5. PICK b : b = L[k + 1]
    OBVIOUS
  <2>6. a \in Acc /\ b \in Acc /\ b = PayRecipient(a, r)
    BY <1>3, <1>4, <2>1, <2>2, <2>4, <2>5
  <2>7. a.failed \in [Payees -> Record] /\ a.paid \in [Payees -> Nat]
    BY <2>6 DEF Acc
  <2>8. /\ \A j \in 1 .. k : rs[j].to = p => a.paid[p] + a.failed[p].amount = rs[j].amount
        /\ (\A j \in 1 .. k : rs[j].to # p) => a.paid[p] = 0 /\ a.failed[p] = Absent
    BY <1>6, <2>4
  <2>0. \/ a.failed[r.to].retries >= MaxRetries /\ b = a
        \/ b.paid = [a.paid EXCEPT ![r.to] = @ + r.amount] /\ b.failed = a.failed
        \/ /\ b.paid = a.paid
           /\ b.failed = [a.failed EXCEPT ![r.to] = [amount |-> r.amount, retries |-> @.retries + 1]]
    <3>1. \/ a.failed[r.to].retries >= MaxRetries /\ PayRecipient(a, r) = a
          \/ /\ PayRecipient(a, r).paid = [a.paid EXCEPT ![r.to] = @ + r.amount]
             /\ PayRecipient(a, r).failed = a.failed
          \/ /\ PayRecipient(a, r).paid = a.paid
             /\ PayRecipient(a, r).failed =
                   [a.failed EXCEPT ![r.to] = [amount |-> r.amount, retries |-> @.retries + 1]]
      BY <2>3, <2>6, PayCases, Zenon
    <3> QED
      BY <2>6, <3>1
  <2>9. CASE r.to # p
    <3>1. b.paid[p] = a.paid[p] /\ b.failed[p] = a.failed[p]
      BY <2>0, <2>3, <2>7, <2>9
    <3>2. \A j \in 1 .. k + 1 : rs[j].to = p => b.paid[p] + b.failed[p].amount = rs[j].amount
      BY <2>1, <2>2, <2>8, <2>9, <3>1
    <3>3. (\A j \in 1 .. k + 1 : rs[j].to # p) => b.paid[p] = 0 /\ b.failed[p] = Absent
      BY <2>1, <2>8, <3>1
    <3> QED
      BY <2>1, <2>5, <3>2, <3>3
  <2>10. CASE r.to = p
    <3>1. \A j \in 1 .. k : rs[j].to # p
      BY <2>1, <2>2, <2>10 DEF Distinct
    <3>2. a.paid[p] = 0 /\ a.failed[p] = Absent
      BY <2>8, <3>1
    <3>3. a.failed[p].retries = 0 /\ a.failed[p].amount = 0 /\ ~(0 >= MaxRetries)
      BY <3>2 DEF Absent, MaxRetries
    <3>4. \/ b.paid = [a.paid EXCEPT ![p] = @ + r.amount] /\ b.failed = a.failed
          \/ /\ b.paid = a.paid
             /\ b.failed = [a.failed EXCEPT ![p] = [amount |-> r.amount, retries |-> @.retries + 1]]
      BY <2>0, <2>10, <3>3
    <3>5. \/ b.paid[p] = r.amount /\ b.failed[p].amount = 0
          \/ b.paid[p] = 0 /\ b.failed[p].amount = r.amount
      BY <2>3, <2>7, <3>2, <3>3, <3>4
    <3>6. b.paid[p] + b.failed[p].amount = r.amount
      BY <2>3, <3>5
    <3>7. \A j \in 1 .. k + 1 : rs[j].to = p => b.paid[p] + b.failed[p].amount = rs[j].amount
      BY <2>1, <2>2, <3>1, <3>6
    <3>8. ~(\A j \in 1 .. k + 1 : rs[j].to # p)
      BY <2>1, <2>2, <2>10
    <3> QED
      BY <2>1, <2>5, <3>7, <3>8
  <2> QED
    BY <2>9, <2>10
<1>7. \A k \in 0 .. Len(rs) : k \in G
  <2> HIDE DEF G
  <2> QED
    BY <1>2, <1>5, <1>6, UpToN
<1> QED
  BY <1>1, <1>7

\* A share is a number.
LEMMA ShareTyped == ASSUME NEW rs \in Listing, NEW p PROVE Share(rs, p) \in Int
<1>1. PICK S : S = PlacesOf(rs, p, Len(rs))
  OBVIOUS
<1>2. PICK f : f = AmountsIn(rs)
  OBVIOUS
<1>3. Share(rs, p) = SumFunctionOnSet(f, S)
  BY <1>1, <1>2, OwedInAll DEF OwedTo
<1>4. S \subseteq 1 .. Len(rs) /\ \A x \in 1 .. Len(rs) : f[x] \in Int
  BY <1>1, <1>2, ListFacts DEF PlacesOf
<1>5. IsFiniteSet(S)
  <2>1. IsFiniteSet(1 .. Len(rs))
    BY ListFacts, FS_Interval
  <2> QED
    BY <1>4, <2>1, FS_Subset
<1> QED
  BY <1>3, <1>4, <1>5, SumType

\* The share of a recipient that a list names once, or not at all.
LEMMA ShareOfOne ==
    ASSUME NEW rs \in Listing, Distinct(rs), NEW p
    PROVE  /\ \A j \in DOMAIN rs : rs[j].to = p => Share(rs, p) = rs[j].amount
           /\ (\A j \in DOMAIN rs : rs[j].to # p) => Share(rs, p) = 0
<1>1. Len(rs) \in Nat /\ DOMAIN rs = 1 .. Len(rs)
  BY ListFacts
<1>2. PICK S : S = PlacesOf(rs, p, Len(rs))
  OBVIOUS
<1>3. PICK f : f = AmountsIn(rs)
  OBVIOUS
<1>4. Share(rs, p) = SumFunctionOnSet(f, S)
  BY <1>2, <1>3, OwedInAll DEF OwedTo
<1>5. ASSUME NEW j \in DOMAIN rs, rs[j].to = p PROVE Share(rs, p) = rs[j].amount
  <2>1. S = {j}
    BY <1>1, <1>2, <1>5 DEF PlacesOf, Distinct
  <2>2. f[j] = rs[j].amount /\ f[j] \in Int
    BY <1>3, ListFacts
  <2>3. IsFiniteSet(S) /\ (\A x \in S : f[x] \in Int) /\ j \in S /\ S \ {j} = {}
    BY <2>1, <2>2, FS_Singleton
  <2>4. SumFunctionOnSet(f, S) = f[j] + SumFunctionOnSet(f, S \ {j})
    BY <2>3, SumRemove
  <2>5. SumFunctionOnSet(f, S \ {j}) = 0
    BY <2>3, SumEmpty
  <2> QED
    BY <1>4, <2>2, <2>4, <2>5
<1>6. ASSUME \A j \in DOMAIN rs : rs[j].to # p PROVE Share(rs, p) = 0
  <2>1. S = {}
    BY <1>1, <1>2, <1>6 DEF PlacesOf
  <2> QED
    BY <1>4, <2>1, SumEmpty
<1> QED
  BY <1>5, <1>6

----------------------------------------------------------------------------
(* The invariant, one invoice at a time *)

SplitInv == PaidOrOnRecord /\ FullMeansPaid

Invoice == [status : Status, total : Nat, released : Nat, recipients : Seq(Recipient)]

\* An invoice with its failed payouts, what it paid, and how often it was
\* created and released
GoodInvoice(inv, fl, pd, c, r) ==
    /\ inv \in Invoice /\ fl \in [Payees -> Record] /\ pd \in [Payees -> Nat] /\ c \in Nat /\ r \in Nat
    /\ inv.status = "None" <=> c = 0
    /\ c = 0 => r = 0
    /\ r = 0 => \A p \in Payees : pd[p] = 0 /\ fl[p] = Absent
    /\ inv.recipients \in Listing
    /\ Total(inv.recipients) = inv.total
    /\ Tried(fl)
    /\ c = 1 /\ r = 1 /\ Distinct(inv.recipients) =>
          \A p \in Payees : pd[p] + fl[p].amount = Share(inv.recipients, p)
    /\ inv.status = "FullyReleased" => \A p \in Payees : pd[p] >= Share(inv.recipients, p)

AllGood ==
    /\ balance \in Nat /\ funds \in Nat
    /\ DOMAIN invoice = Ids /\ DOMAIN failed = Ids /\ DOMAIN paid = Ids
    /\ DOMAIN creates = Ids /\ DOMAIN releases = Ids
    /\ invoice = [i \in Ids |-> invoice[i]] /\ failed = [i \in Ids |-> failed[i]]
    /\ paid = [i \in Ids |-> paid[i]] /\ creates = [i \in Ids |-> creates[i]]
    /\ releases = [i \in Ids |-> releases[i]]
    /\ \A i \in Ids : GoodInvoice(invoice[i], failed[i], paid[i], creates[i], releases[i])

\* That is the invariant.
LEMMA InvIsGood == SplitInv <=> AllGood
<1>1. ASSUME SplitInv PROVE AllGood
  <2>1. /\ invoice \in [Ids -> Invoice] /\ failed \in [Ids -> [Payees -> Record]]
        /\ balance \in Nat /\ funds \in Nat /\ paid \in [Ids -> [Payees -> Nat]]
        /\ creates \in [Ids -> Nat] /\ releases \in [Ids -> Nat]
    BY <1>1 DEF SplitInv, PaidOrOnRecord, SplitTypeOK, Invoice, Record
  <2>2. ASSUME NEW i \in Ids
        PROVE  GoodInvoice(invoice[i], failed[i], paid[i], creates[i], releases[i])
    <3>1. /\ invoice[i] \in Invoice /\ failed[i] \in [Payees -> Record] /\ paid[i] \in [Payees -> Nat]
          /\ creates[i] \in Nat /\ releases[i] \in Nat
      BY <2>1
    <3>2. /\ invoice[i].status = "None" <=> creates[i] = 0
          /\ creates[i] = 0 => releases[i] = 0
          /\ releases[i] = 0 => \A p \in Payees : paid[i][p] = 0 /\ failed[i][p] = Absent
          /\ \A k \in DOMAIN invoice[i].recipients : invoice[i].recipients[k].amount > 0
          /\ Total(invoice[i].recipients) = invoice[i].total
          /\ Tried(failed[i])
      BY <1>1 DEF SplitInv, PaidOrOnRecord, InvoicesInOrder, Tried
    <3>3. /\ creates[i] = 1 /\ releases[i] = 1 /\ Distinct(invoice[i].recipients) =>
                \A p \in Payees : paid[i][p] + failed[i][p].amount = Share(invoice[i].recipients, p)
          /\ invoice[i].status = "FullyReleased" =>
                \A p \in Payees : paid[i][p] >= Share(invoice[i].recipients, p)
      BY <1>1 DEF SplitInv, PaidOrOnRecord, FailuresAreIsolated, FullMeansPaid
    <3>4. invoice[i].recipients \in Listing
      BY <3>1, <3>2 DEF Invoice, Listing
    <3> QED
      BY <3>1, <3>2, <3>3, <3>4 DEF GoodInvoice
  <2> QED
    BY <2>1, <2>2 DEF AllGood
<1>2. ASSUME AllGood PROVE SplitInv
  <2>1. \A i \in Ids : GoodInvoice(invoice[i], failed[i], paid[i], creates[i], releases[i])
    BY <1>2 DEF AllGood
  <2>2. SplitTypeOK
    <3>1. \A i \in Ids : /\ invoice[i] \in Invoice /\ failed[i] \in [Payees -> Record]
                         /\ paid[i] \in [Payees -> Nat] /\ creates[i] \in Nat /\ releases[i] \in Nat
      BY <2>1 DEF GoodInvoice
    <3>2. /\ invoice \in [Ids -> Invoice] /\ failed \in [Ids -> [Payees -> Record]]
          /\ paid \in [Ids -> [Payees -> Nat]] /\ creates \in [Ids -> Nat] /\ releases \in [Ids -> Nat]
      BY <1>2, <3>1 DEF AllGood
    <3> QED
      BY <1>2, <3>2 DEF SplitTypeOK, AllGood, Invoice, Record
  <2>3. InvoicesInOrder
    BY <2>1 DEF InvoicesInOrder, GoodInvoice, Tried, Listing
  <2>4. FailuresAreIsolated /\ FullMeansPaid
    BY <2>1 DEF FailuresAreIsolated, FullMeansPaid, GoodInvoice
  <2> QED
    BY <2>2, <2>3, <2>4 DEF SplitInv, PaidOrOnRecord
<1> QED
  BY <1>1, <1>2

\* The invariant after a step.
LEMMA InvIsGoodNext == SplitInv' <=> AllGood'
BY InvIsGood, PTL

\* A call that changes one invoice need only keep that one good.
LEMMA OneInvoice ==
    ASSUME AllGood, NEW i \in Ids, NEW inv, NEW fl, NEW pd, NEW c, NEW r,
           GoodInvoice(inv, fl, pd, c, r), balance' \in Nat, funds' \in Nat,
           invoice' = [invoice EXCEPT ![i] = inv], failed' = [failed EXCEPT ![i] = fl],
           paid' = [paid EXCEPT ![i] = pd], creates' = [creates EXCEPT ![i] = c],
           releases' = [releases EXCEPT ![i] = r]
    PROVE  AllGood'
<1>1. /\ DOMAIN invoice = Ids /\ DOMAIN failed = Ids /\ DOMAIN paid = Ids
      /\ DOMAIN creates = Ids /\ DOMAIN releases = Ids
      /\ \A j \in Ids : GoodInvoice(invoice[j], failed[j], paid[j], creates[j], releases[j])
  BY DEF AllGood
<1>2. ASSUME NEW j \in Ids
      PROVE  GoodInvoice(invoice'[j], failed'[j], paid'[j], creates'[j], releases'[j])
  <2>1. CASE j = i
    <3>1. invoice'[j] = inv /\ failed'[j] = fl /\ paid'[j] = pd /\ creates'[j] = c /\ releases'[j] = r
      BY <1>1, <2>1
    <3> QED
      BY <3>1
  <2>2. CASE j # i
    <3>1. /\ invoice'[j] = invoice[j] /\ failed'[j] = failed[j] /\ paid'[j] = paid[j]
          /\ creates'[j] = creates[j] /\ releases'[j] = releases[j]
      BY <1>1, <2>2
    <3> QED
      BY <1>1, <3>1
  <2> QED
    BY <2>1, <2>2
<1>3. /\ DOMAIN invoice' = Ids /\ DOMAIN failed' = Ids /\ DOMAIN paid' = Ids
      /\ DOMAIN creates' = Ids /\ DOMAIN releases' = Ids
  BY <1>1
<1>4. /\ invoice' = [j \in Ids |-> invoice'[j]] /\ failed' = [j \in Ids |-> failed'[j]]
      /\ paid' = [j \in Ids |-> paid'[j]] /\ creates' = [j \in Ids |-> creates'[j]]
      /\ releases' = [j \in Ids |-> releases'[j]]
  BY <1>1
<1> QED
  BY <1>2, <1>3, <1>4 DEF AllGood

\* What is there of one invoice.
LEMMA GoodFields ==
    ASSUME NEW inv, NEW fl, NEW pd, NEW c, NEW r, GoodInvoice(inv, fl, pd, c, r)
    PROVE  /\ inv.status \in Status /\ inv.total \in Nat /\ inv.released \in Nat
           /\ fl \in [Payees -> Record] /\ pd \in [Payees -> Nat] /\ c \in Nat /\ r \in Nat
           /\ inv \in Invoice /\ inv.recipients \in Listing /\ inv.recipients \in Seq(Recipient)
BY DEF GoodInvoice, Invoice

----------------------------------------------------------------------------
(* The calls *)

\* create_invoice
LEMMA CreateKeeps ==
    ASSUME AllGood, NEW i \in Ids, NEW t \in Totals, NEW rs \in RecipientLists, CreateInvoice(i, t, rs)
    PROVE  AllGood'
<1> DEFINE inv == [status |-> "Pending", total |-> t, released |-> 0, recipients |-> rs]
<1>1. GoodInvoice(invoice[i], failed[i], paid[i], creates[i], releases[i])
  BY DEF AllGood
<1>2. /\ t > 0 /\ (\A k \in DOMAIN rs : rs[k].amount > 0) /\ Total(rs) = t
      /\ t \in Nat /\ rs \in Seq(Recipient)
  BY SplitAssumption DEF CreateInvoice
<1>3. inv \in Invoice /\ inv.recipients \in Listing
  BY <1>2 DEF Invoice, Status, Listing
<1>4. creates[i] + 1 \in Nat /\ creates[i] + 1 # 0 /\ (creates[i] + 1 = 1 => releases[i] = 0)
  BY <1>1 DEF GoodInvoice
<1>5. inv.status = "Pending" /\ inv.recipients = rs /\ inv.total = t
  OBVIOUS
<1> HIDE DEF inv
<1>6. GoodInvoice(inv, failed[i], paid[i], creates[i] + 1, releases[i])
  BY <1>1, <1>2, <1>3, <1>4, <1>5 DEF GoodInvoice
<1>7. /\ invoice' = [invoice EXCEPT ![i] = inv] /\ creates' = [creates EXCEPT ![i] = creates[i] + 1]
      /\ failed' = failed /\ paid' = paid /\ releases' = releases /\ balance' = balance /\ funds' = funds
  BY DEF CreateInvoice, inv
<1>8. /\ failed' = [failed EXCEPT ![i] = failed[i]] /\ paid' = [paid EXCEPT ![i] = paid[i]]
      /\ releases' = [releases EXCEPT ![i] = releases[i]]
  BY <1>7 DEF AllGood
<1>9. balance' \in Nat /\ funds' \in Nat
  BY <1>7 DEF AllGood
<1>10. PICK c : c = creates[i] + 1
  OBVIOUS
<1>11. PICK r : r = releases[i]
  OBVIOUS
<1>12. PICK fl : fl = failed[i]
  OBVIOUS
<1>13. PICK pd : pd = paid[i]
  OBVIOUS
<1>14. GoodInvoice(inv, fl, pd, c, r)
  BY <1>6, <1>10, <1>11, <1>12, <1>13
<1>15. /\ failed' = [failed EXCEPT ![i] = fl] /\ paid' = [paid EXCEPT ![i] = pd]
       /\ creates' = [creates EXCEPT ![i] = c] /\ releases' = [releases EXCEPT ![i] = r]
  BY <1>7, <1>8, <1>10, <1>11, <1>12, <1>13
<1>16. invoice' = [invoice EXCEPT ![i] = inv]
  BY <1>7
<1> QED
  BY <1>9, <1>14, <1>15, <1>16, OneInvoice

\* retry_failed_payout
LEMMA RetryKeeps ==
    ASSUME AllGood, NEW i \in Ids, NEW p \in Payees, RetryFailedPayout(i, p)
    PROVE  AllGood'
<1>1. PICK fl : fl = failed[i]
  OBVIOUS
<1>2. PICK pd : pd = paid[i]
  OBVIOUS
<1>3. PICK inv : inv = invoice[i]
  OBVIOUS
<1>4. GoodInvoice(inv, fl, pd, creates[i], releases[i])
  BY <1>1, <1>2, <1>3 DEF AllGood
<1>5. fl \in [Payees -> Record] /\ pd \in [Payees -> Nat]
  BY <1>4, GoodFields
<1>6. fl[p] \in Record /\ fl[p].amount \in Nat /\ pd[p] \in Nat
  BY <1>5 DEF Record
<1>7. /\ fl[p].retries \in 1 .. MaxRetries - 1 /\ balance >= fl[p].amount
      /\ balance' = balance - fl[p].amount
  BY <1>1 DEF RetryFailedPayout, CanPay
<1> DEFINE gl == [fl EXCEPT ![p] = Absent]
           qd == [pd EXCEPT ![p] = @ + fl[p].amount]
<1>8. Absent \in Record /\ Absent.retries = 0 /\ Absent.amount = 0
  BY DEF Absent, Record, MaxRetries
<1>9. /\ gl \in [Payees -> Record] /\ qd \in [Payees -> Nat]
      /\ gl[p] = Absent /\ qd[p] = pd[p] + fl[p].amount
      /\ \A q \in Payees : q # p => gl[q] = fl[q] /\ qd[q] = pd[q]
  BY <1>5, <1>6, <1>8
<1> HIDE DEF gl, qd
<1>10. Tried(gl)
  BY <1>4, <1>9 DEF Tried, GoodInvoice
<1>11. releases[i] # 0
  <2>1. fl[p].retries # 0
    BY <1>7
  <2> QED
    BY <1>4, <1>8, <2>1 DEF GoodInvoice
<1>12. \A q \in Payees : qd[q] + gl[q].amount = pd[q] + fl[q].amount
  <2>1. qd[p] + gl[p].amount = pd[p] + fl[p].amount
    BY <1>6, <1>8, <1>9
  <2> QED
    BY <1>9, <2>1
<1>13. ASSUME inv.status = "FullyReleased", NEW q \in Payees
       PROVE  qd[q] >= Share(inv.recipients, q)
  <2>1. pd[q] >= Share(inv.recipients, q)
    BY <1>4, <1>13 DEF GoodInvoice
  <2>2. CASE q # p
    BY <1>9, <2>1, <2>2
  <2>3. CASE q = p
    <3>1. Share(inv.recipients, q) \in Int
      BY <1>4, ShareTyped DEF GoodInvoice
    <3> QED
      BY <1>6, <1>9, <2>1, <2>3, <3>1
  <2> QED
    BY <2>2, <2>3
<1>14. GoodInvoice(inv, gl, qd, creates[i], releases[i])
  BY <1>4, <1>9, <1>10, <1>11, <1>12, <1>13 DEF GoodInvoice
<1>15. /\ failed' = [failed EXCEPT ![i] = gl] /\ paid' = [paid EXCEPT ![i] = qd]
       /\ invoice' = invoice /\ creates' = creates /\ releases' = releases /\ funds' = funds
  BY <1>1, <1>2 DEF RetryFailedPayout, gl, qd
<1>16. /\ invoice' = [invoice EXCEPT ![i] = inv] /\ creates' = [creates EXCEPT ![i] = creates[i]]
       /\ releases' = [releases EXCEPT ![i] = releases[i]]
  BY <1>3, <1>15 DEF AllGood
<1>17. balance' \in Nat /\ funds' \in Nat
  BY <1>6, <1>7, <1>15 DEF AllGood
<1>18. PICK c : c = creates[i]
  OBVIOUS
<1>19. PICK r : r = releases[i]
  OBVIOUS
<1>20. GoodInvoice(inv, gl, qd, c, r)
  BY <1>14, <1>18, <1>19
<1>21. creates' = [creates EXCEPT ![i] = c] /\ releases' = [releases EXCEPT ![i] = r]
  BY <1>16, <1>18, <1>19
<1>22. invoice' = [invoice EXCEPT ![i] = inv] /\ failed' = [failed EXCEPT ![i] = gl]
       /\ paid' = [paid EXCEPT ![i] = qd]
  BY <1>15, <1>16
<1> QED
  BY <1>17, <1>20, <1>21, <1>22, OneInvoice

\* What one release leaves of an invoice.
LEMMA ReleasedIsGood ==
    ASSUME NEW inv, NEW fl, NEW pd, NEW c, NEW r, GoodInvoice(inv, fl, pd, c, r),
           inv.status = "Pending", NEW held \in Nat, NEW acc,
           acc = PayAll([balance |-> held, sum |-> 0, failures |-> 0, failed |-> fl, paid |-> pd],
                        inv.recipients),
           NEW after,
           after = IF acc.sum > 0
                   THEN [inv EXCEPT !.released = acc.sum, !.status = StatusAfter(inv, acc)]
                   ELSE inv
    PROVE  GoodInvoice(after, acc.failed, acc.paid, c, r + 1) /\ acc.balance \in Nat
<1>1. PICK rs : rs = inv.recipients
  OBVIOUS
<1>2. PICK start : start = [balance |-> held, sum |-> 0, failures |-> 0, failed |-> fl, paid |-> pd]
  OBVIOUS
<1>3. /\ inv \in Invoice /\ rs \in Listing /\ fl \in [Payees -> Record] /\ pd \in [Payees -> Nat]
      /\ c \in Nat /\ r \in Nat /\ inv.total \in Nat
  BY <1>1, GoodFields
<1>4. start \in Acc /\ Tried(start.failed) /\ start.sum = 0 /\ start.failed = fl /\ start.paid = pd
  BY <1>2, <1>3 DEF Acc, GoodInvoice
<1>5. Len(rs) \in Nat /\ Len(rs) \in 0 .. Len(rs) /\ DOMAIN rs = 1 .. Len(rs)
  BY <1>3, ListFacts
<1>6. acc = Loop(start, rs)[Len(rs)]
  BY <1>1, <1>2, PayAllIsLoop
<1>7. acc \in Acc /\ Tried(acc.failed)
  BY <1>3, <1>4, <1>5, <1>6, LoopTyped
<1>8. /\ acc.balance \in Nat /\ acc.sum \in Nat /\ acc.failed \in [Payees -> Record]
      /\ acc.paid \in [Payees -> Nat]
  BY <1>7 DEF Acc
<1>9. Total(rs) = inv.total /\ c # 0
  BY <1>1 DEF GoodInvoice
<1>10. acc.sum = inv.total => \A p \in Payees : acc.paid[p] >= Share(rs, p)
  <2>1. acc.sum = Owed(rs, Len(rs)) => \A p \in Payees : acc.paid[p] >= OwedTo(rs, p, Len(rs))
    BY <1>3, <1>4, <1>5, <1>6, LoopPays
  <2>2. Owed(rs, Len(rs)) = inv.total /\ \A p : OwedTo(rs, p, Len(rs)) = Share(rs, p)
    BY <1>3, <1>9, OwedInAll
  <2> QED
    BY <2>1, <2>2
<1>11. ASSUME c = 1, r + 1 = 1, Distinct(rs), NEW p \in Payees
       PROVE  acc.paid[p] + acc.failed[p].amount = Share(rs, p)
  <2>1. r = 0
    BY <1>3, <1>11
  <2>2. \A q \in Payees : start.paid[q] = 0 /\ start.failed[q] = Absent
    BY <1>4, <2>1 DEF GoodInvoice
  <2>3. /\ \A j \in 1 .. Len(rs) : rs[j].to = p => acc.paid[p] + acc.failed[p].amount = rs[j].amount
        /\ (\A j \in 1 .. Len(rs) : rs[j].to # p) => acc.paid[p] = 0 /\ acc.failed[p] = Absent
    BY <1>3, <1>4, <1>5, <1>6, <1>11, <2>2, LoopIsolates
  <2>4. /\ \A j \in DOMAIN rs : rs[j].to = p => Share(rs, p) = rs[j].amount
        /\ (\A j \in DOMAIN rs : rs[j].to # p) => Share(rs, p) = 0
    BY <1>3, <1>11, ShareOfOne
  <2>5. CASE \E j \in DOMAIN rs : rs[j].to = p
    BY <1>5, <2>3, <2>4, <2>5
  <2>6. CASE \A j \in DOMAIN rs : rs[j].to # p
    <3>1. acc.paid[p] = 0 /\ acc.failed[p].amount = 0 /\ Share(rs, p) = 0
      BY <1>5, <2>3, <2>4, <2>6 DEF Absent
    <3> QED
      BY <3>1
  <2> QED
    BY <2>5, <2>6
<1>12. /\ after \in Invoice /\ after.recipients = rs /\ after.total = inv.total
       /\ after.status # "None" /\ (after.status = "FullyReleased" => acc.sum = inv.total)
  <2>1. CASE acc.sum > 0
    <3>1. after = [inv EXCEPT !.released = acc.sum, !.status = StatusAfter(inv, acc)]
      BY <2>1
    <3>2. /\ StatusAfter(inv, acc) \in Status /\ StatusAfter(inv, acc) # "None"
          /\ (StatusAfter(inv, acc) = "FullyReleased" => acc.sum = inv.total)
      BY DEF StatusAfter, Status
    <3>3. /\ after.status = StatusAfter(inv, acc) /\ after.recipients = rs /\ after.total = inv.total
          /\ after \in Invoice
      BY <1>1, <1>3, <1>8, <3>1, <3>2 DEF Invoice
    <3> QED
      BY <3>2, <3>3
  <2>2. CASE ~(acc.sum > 0)
    BY <1>1, <1>3, <2>2
  <2> QED
    BY <2>1, <2>2
<1>13. r + 1 \in Nat /\ r + 1 # 0
  BY <1>3
<1>14. GoodInvoice(after, acc.failed, acc.paid, c, r + 1)
  BY <1>3, <1>7, <1>8, <1>9, <1>10, <1>11, <1>12, <1>13 DEF GoodInvoice
<1> QED
  BY <1>8, <1>14

\* release_payment
LEMMA ReleaseKeeps ==
    ASSUME AllGood, NEW i \in Ids, ReleasePayment(i)
    PROVE  AllGood'
<1>1. PICK fl : fl = failed[i]
  OBVIOUS
<1>2. PICK pd : pd = paid[i]
  OBVIOUS
<1>3. PICK inv : inv = invoice[i]
  OBVIOUS
<1>4. PICK c : c = creates[i]
  OBVIOUS
<1>5. PICK r : r = releases[i]
  OBVIOUS
<1>6. PICK held : held = balance
  OBVIOUS
<1>7. GoodInvoice(inv, fl, pd, c, r) /\ held \in Nat
  BY <1>1, <1>2, <1>3, <1>4, <1>5, <1>6 DEF AllGood
<1>8. PICK acc : acc = PayAll([balance |-> held, sum |-> 0, failures |-> 0, failed |-> fl, paid |-> pd],
                              inv.recipients)
  OBVIOUS
<1>9. PICK after : after = IF acc.sum > 0
                           THEN [inv EXCEPT !.released = acc.sum, !.status = StatusAfter(inv, acc)]
                           ELSE inv
  OBVIOUS
<1>10. /\ inv.status = "Pending" /\ balance' = acc.balance
       /\ failed' = [failed EXCEPT ![i] = acc.failed] /\ paid' = [paid EXCEPT ![i] = acc.paid]
       /\ invoice' = IF acc.sum > 0
                     THEN [invoice EXCEPT ![i].released = acc.sum, ![i].status = StatusAfter(inv, acc)]
                     ELSE invoice
       /\ releases' = [releases EXCEPT ![i] = r + 1] /\ funds' = funds /\ creates' = creates
  BY <1>1, <1>2, <1>3, <1>5, <1>6, <1>8 DEF ReleasePayment
<1>11. GoodInvoice(after, acc.failed, acc.paid, c, r + 1) /\ acc.balance \in Nat
  BY <1>7, <1>8, <1>9, <1>10, ReleasedIsGood
<1>12. invoice' = [invoice EXCEPT ![i] = after]
  <2>1. DOMAIN invoice = Ids /\ invoice = [j \in Ids |-> invoice[j]]
    BY DEF AllGood
  <2>2. CASE acc.sum > 0
    BY <1>3, <1>9, <1>10, <2>1, <2>2
  <2>3. CASE ~(acc.sum > 0)
    BY <1>3, <1>9, <1>10, <2>1, <2>3
  <2> QED
    BY <2>2, <2>3
<1>13. creates' = [creates EXCEPT ![i] = c]
  BY <1>4, <1>10 DEF AllGood
<1>14. balance' \in Nat /\ funds' \in Nat
  BY <1>10, <1>11 DEF AllGood
<1>15. PICK gl : gl = acc.failed
  OBVIOUS
<1>16. PICK qd : qd = acc.paid
  OBVIOUS
<1>17. PICK s : s = r + 1
  OBVIOUS
<1>18. GoodInvoice(after, gl, qd, c, s)
  BY <1>11, <1>15, <1>16, <1>17
<1>19. /\ failed' = [failed EXCEPT ![i] = gl] /\ paid' = [paid EXCEPT ![i] = qd]
       /\ releases' = [releases EXCEPT ![i] = s]
  BY <1>10, <1>15, <1>16, <1>17
<1> QED
  BY <1>12, <1>13, <1>14, <1>18, <1>19, OneInvoice

\* The contract begins with no invoice.
LEMMA NoInvoices == SplitInit => AllGood
<1> SUFFICES ASSUME SplitInit PROVE AllGood
  OBVIOUS
<1> DEFINE inv == [status |-> "None", total |-> 0, released |-> 0, recipients |-> <<>>]
           fl == [p \in Payees |-> Absent]
           pd == [p \in Payees |-> 0]
<1>1. <<>> \in Seq(Recipient) /\ DOMAIN <<>> = {} /\ <<>> \in Listing
  BY DEF Listing
<1>2. inv \in Invoice /\ inv.status = "None" /\ inv.total = 0 /\ inv.recipients = <<>>
  BY <1>1 DEF Invoice, Status
<1>3. Absent \in Record
  BY DEF Absent, Record, MaxRetries
<1>4. fl \in [Payees -> Record] /\ pd \in [Payees -> Nat] /\ Tried(fl)
      /\ \A p \in Payees : pd[p] = 0 /\ fl[p] = Absent
  BY <1>3 DEF Tried
<1>5. Total(<<>>) = 0
  <2>1. Owed(<<>>, Len(<<>>)) = Total(<<>>)
    BY <1>1, OwedInAll
  <2>2. Owed(<<>>, 0) = 0
    BY <1>1, OwedGrows
  <2> QED
    BY <2>1, <2>2
<1> HIDE DEF inv, fl, pd
<1>6. GoodInvoice(inv, fl, pd, 0, 0)
  BY <1>1, <1>2, <1>4, <1>5 DEF GoodInvoice
<1>7. /\ invoice = [i \in Ids |-> inv] /\ failed = [i \in Ids |-> fl] /\ paid = [i \in Ids |-> pd]
      /\ creates = [i \in Ids |-> 0] /\ releases = [i \in Ids |-> 0] /\ balance = 0 /\ funds = 0
  BY DEF SplitInit, inv, fl, pd
<1> QED
  BY <1>6, <1>7 DEF AllGood

\* Every call keeps the invariant, and so does a payment to the contract.
LEMMA SplitStep == SplitInv /\ [SplitNext]_splitVars => SplitInv'
<1> SUFFICES ASSUME AllGood, [SplitNext]_splitVars PROVE AllGood'
  BY InvIsGood, InvIsGoodNext
<1>1. CASE \E i \in Ids, t \in Totals, rs \in RecipientLists : CreateInvoice(i, t, rs)
  BY <1>1, CreateKeeps
<1>2. CASE \E i \in Ids : ReleasePayment(i)
  BY <1>2, ReleaseKeeps
<1>3. CASE \E i \in Ids, p \in Payees : RetryFailedPayout(i, p)
  BY <1>3, RetryKeeps
<1>4. CASE \E n \in Deposits : Fund(n)
  <2>1. PICK n \in Deposits : Fund(n)
    BY <1>4
  <2>2. n \in Nat
    BY SplitAssumption
  <2>3. balance' \in Nat /\ funds' \in Nat
    BY <2>1, <2>2 DEF AllGood, Fund
  <2> QED
    BY <2>1, <2>3 DEF AllGood, Fund
<1>5. CASE UNCHANGED splitVars
  BY <1>5 DEF splitVars, AllGood
<1> QED
  BY <1>1, <1>2, <1>3, <1>4, <1>5 DEF SplitNext

\* The invariant holds throughout.
LEMMA SplitInvariance == SplitSpec => []SplitInv
<1>1. SplitInit => SplitInv
  BY NoInvoices, InvIsGood
<1> QED
  BY <1>1, SplitStep, PTL DEF SplitSpec

\* For any invoices, recipients and deposits: whatever payouts fail, are retried
\* or are drained by other invoices, from the first release of an invoice until
\* it is released or created again each recipient was paid its share or has it
\* on record, and the contract pays out no more than it holds (release_payment,
\* retry_failed_payout).
THEOREM SharesArePaidOrOnRecord == SplitSpec => []PaidOrOnRecord
<1>1. SplitInv => PaidOrOnRecord
  BY DEF SplitInv
<1> QED
  BY <1>1, SplitInvariance, PTL

\* An invoice the contract calls FullyReleased paid every recipient its share,
\* also when the list names one twice and when some were skipped
\* (release_payment's comparison of the sum with the total).
THEOREM FullInvoicesArePaid == SplitSpec => []FullMeansPaid
<1>1. SplitInv => FullMeansPaid
  BY DEF SplitInv
<1> QED
  BY <1>1, SplitInvariance, PTL

----------------------------------------------------------------------------
(* The indexer: what a block and a step of the loop are *)

Block == [hash : 0 .. forks, tx : Txs \cup {NoTx}]

(* The network, or the process and the database beside it.                   *)
NetworkStep == Close \/ Reorg
LoopMoves ==
    \/ Boot \/ Poll \/ FetchLedgers \/ reconcileLedgerCursor \/ FetchEvents \/ processEvent
    \/ publishIndexerEvent \/ Commit \/ IngestionError \/ Restart \/ ResetCursor

----------------------------------------------------------------------------
(* The chain *)

\* A block that is appended, or a suffix that is replaced, leaves a chain.
LEMMA CloseKeepsChain ==
    ASSUME ChainOK, forks \in Nat, limits \in Scenarios, Close
    PROVE  /\ ChainOK' /\ Len(chain') = Len(chain) + 1 /\ forks' = forks
           /\ \A n \in DOMAIN chain : n \in DOMAIN chain' /\ chain'[n] = chain[n]
<1>1. chain \in Seq(Block) /\ chain # <<>>
  BY DEF ChainOK, Block
<1>2. PICK tx \in limits.txs \cup {NoTx} :
         /\ tx # NoTx => \A n \in DOMAIN chain : chain[n].tx # tx
         /\ chain' = Append(chain, [hash |-> forks, tx |-> tx])
  BY DEF Close
<1>3. tx \in Txs \cup {NoTx} /\ forks' = forks /\ limits' = limits
  BY <1>2, BoundsAssumption DEF Close, budget
<1> DEFINE b == [hash |-> forks, tx |-> tx]
<1>4. b \in Block
  BY <1>3 DEF Block
<1> HIDE DEF Block
<1>5. /\ chain' \in Seq(Block) /\ Len(chain') = Len(chain) + 1
      /\ \A n \in DOMAIN chain : n \in DOMAIN chain' /\ chain'[n] = chain[n]
      /\ chain'[Len(chain) + 1] = b
  BY <1>1, <1>2, <1>4
<1>6. chain' \in Seq([hash : 0 .. forks', tx : Txs \cup {NoTx}]) /\ chain' # <<>>
  BY <1>3, <1>5, <1>1 DEF Block
<1>10. limits.old \in Nat /\ limits.old <= Len(chain) /\ Len(chain) \in Nat
  BY <1>1, BoundsAssumption DEF ChainOK
<1>7. ASSUME forks' = 0, NEW n \in DOMAIN chain', n <= limits.old PROVE chain'[n].tx = NoTx
  <2>1. n \in DOMAIN chain
    BY <1>1, <1>5, <1>7, <1>10
  <2> QED
    BY <2>1, <1>3, <1>5, <1>7 DEF ChainOK
<1>8. ASSUME NEW m \in DOMAIN chain', NEW n \in DOMAIN chain',
             chain'[m].tx = chain'[n].tx, chain'[m].tx # NoTx
      PROVE  m = n
  <2>1. \A k \in DOMAIN chain' : k \in DOMAIN chain \/ k = Len(chain) + 1
    BY <1>1, <1>5
  <2>2. b.tx = tx
    OBVIOUS
  <2> HIDE DEF b
  <2>3. CASE m \in DOMAIN chain /\ n \in DOMAIN chain
    BY <2>3, <1>5, <1>8 DEF ChainOK
  <2>4. CASE m = Len(chain) + 1 /\ n \in DOMAIN chain
    BY <2>4, <2>2, <1>5, <1>8, <1>2
  <2>5. CASE m \in DOMAIN chain /\ n = Len(chain) + 1
    BY <2>5, <2>2, <1>5, <1>8, <1>2
  <2> QED
    BY <2>1, <2>3, <2>4, <2>5
<1>11. (limits.old <= Len(chain))'
  BY <1>3, <1>5, <1>10
<1>9. (forks = 0 => \A n \in DOMAIN chain : n <= limits.old => chain[n].tx = NoTx)'
  BY <1>3, <1>7
<1> QED
  BY <1>3, <1>5, <1>6, <1>8, <1>9, <1>11 DEF ChainOK

\* Blocks below the fork stay; the others get the new fork.
LEMMA ReorgKeepsChain ==
    ASSUME ChainOK, forks \in Nat, limits \in Scenarios, Reorg
    PROVE  /\ ChainOK' /\ Len(chain') = Len(chain) /\ forks' = forks + 1
           /\ \A n \in DOMAIN chain :
                n \in DOMAIN chain' /\ (chain'[n] = chain[n] \/ chain'[n].hash = forks + 1)
<1>1. chain \in Seq(Block) /\ chain # <<>>
  BY DEF ChainOK, Block
<1>2. PICK f \in DOMAIN chain : \E new \in [f .. Head0 -> limits.txs \cup {NoTx}] :
        /\ \A k \in f .. Head0 : new[k] # NoTx =>
            (\A m \in 1 .. f - 1 : chain[m].tx # new[k]) /\ (\A m \in f .. Head0 : new[m] = new[k] => m = k)
        /\ chain' = [k \in DOMAIN chain |->
                        IF k < f THEN chain[k] ELSE [hash |-> forks + 1, tx |-> new[k]]]
  BY DEF Reorg
<1>11. PICK new \in [f .. Head0 -> limits.txs \cup {NoTx}] :
        /\ \A k \in f .. Head0 : new[k] # NoTx =>
            (\A m \in 1 .. f - 1 : chain[m].tx # new[k]) /\ (\A m \in f .. Head0 : new[m] = new[k] => m = k)
        /\ chain' = [k \in DOMAIN chain |->
                        IF k < f THEN chain[k] ELSE [hash |-> forks + 1, tx |-> new[k]]]
  BY <1>2
<1>3. forks' = forks + 1 /\ limits.txs \subseteq Txs
  BY BoundsAssumption DEF Reorg
<1> DEFINE N == Len(chain)
           New == [hash : 0 .. forks', tx : Txs \cup {NoTx}]
<1>4. /\ N \in Nat /\ N > 0 /\ DOMAIN chain = 1 .. N /\ \A k \in 1 .. N : chain[k] \in Block
      /\ Head0 = N /\ f \in 1 .. N
  BY <1>1 DEF Head0
<1>5. DOMAIN chain' = 1 .. N
  BY <1>11, <1>4
<1>6. \A k \in 1 .. N : /\ k < f => chain'[k] = chain[k]
                        /\ ~(k < f) => /\ chain'[k] = [hash |-> forks + 1, tx |-> new[k]]
                                       /\ k \in f .. N /\ new[k] \in Txs \cup {NoTx}
  <2> SUFFICES ASSUME NEW k \in 1 .. N
               PROVE  /\ k < f => chain'[k] = chain[k]
                      /\ ~(k < f) => /\ chain'[k] = [hash |-> forks + 1, tx |-> new[k]]
                                     /\ k \in f .. N /\ new[k] \in Txs \cup {NoTx}
    OBVIOUS
  <2>1. chain'[k] = IF k < f THEN chain[k] ELSE [hash |-> forks + 1, tx |-> new[k]]
    BY <1>11, <1>4
  <2>2. ~(k < f) => k \in f .. N
    BY <1>4
  <2>3. k \in f .. N => new[k] \in Txs \cup {NoTx}
    BY <1>3, <1>4
  <2> QED
    BY <2>1, <2>2, <2>3
<1>12. \A k \in 1 .. N : (chain'[k] = chain[k] \/ chain'[k].hash = forks + 1) /\ chain'[k] \in New
  <2> SUFFICES ASSUME NEW k \in 1 .. N
               PROVE  (chain'[k] = chain[k] \/ chain'[k].hash = forks + 1) /\ chain'[k] \in New
    OBVIOUS
  <2>1. chain[k] \in Block
    BY <1>4
  <2>2. Block \subseteq New
    BY <1>3 DEF Block
  <2>3. CASE k < f
    BY <2>1, <2>2, <2>3, <1>6
  <2>4. CASE ~(k < f)
    <3>1. chain'[k] = [hash |-> forks + 1, tx |-> new[k]] /\ new[k] \in Txs \cup {NoTx}
      BY <2>4, <1>6
    <3>2. forks + 1 \in 0 .. forks'
      BY <1>3
    <3> QED
      BY <3>1, <3>2
  <2> QED
    BY <2>3, <2>4
<1> HIDE DEF New
<1>7. chain' \in [1 .. N -> New]
  BY <1>4, <1>5, <1>11, <1>12
<1>8. chain' \in Seq(New) /\ Len(chain') = N
  BY <1>4, <1>7
<1>9. chain' # <<>>
  BY <1>4, <1>8
<1>10. ASSUME NEW m \in 1 .. N, NEW n \in 1 .. N,
              chain'[m].tx = chain'[n].tx, chain'[m].tx # NoTx
       PROVE  m = n
  <2>1. CASE m < f /\ n < f
    <3>1. chain[m].tx = chain[n].tx /\ chain[m].tx # NoTx
      BY <2>1, <1>6, <1>10
    <3> QED
      BY <3>1, <1>4 DEF ChainOK
  <2>2. CASE m < f /\ ~(n < f)
    <3>3. chain'[m] = chain[m]
      BY <2>2, <1>6
    <3>4. chain'[n] = [hash |-> forks + 1, tx |-> new[n]] /\ n \in f .. N
      BY <2>2, <1>6
    <3>1. chain'[m].tx = chain[m].tx /\ chain'[n].tx = new[n] /\ n \in f .. N
      BY <3>3, <3>4
    <3>2. m \in 1 .. f - 1
      BY <2>2, <1>4
    <3> QED
      BY <3>1, <3>2, <1>4, <1>10, <1>11
  <2>3. CASE ~(m < f) /\ n < f
    <3>3. chain'[n] = chain[n]
      BY <2>3, <1>6
    <3>4. chain'[m] = [hash |-> forks + 1, tx |-> new[m]] /\ m \in f .. N
      BY <2>3, <1>6
    <3>1. chain'[n].tx = chain[n].tx /\ chain'[m].tx = new[m] /\ m \in f .. N
      BY <3>3, <3>4
    <3>2. n \in 1 .. f - 1
      BY <2>3, <1>4
    <3> QED
      BY <3>1, <3>2, <1>4, <1>10, <1>11
  <2>4. CASE ~(m < f) /\ ~(n < f)
    <3>3. chain'[n] = [hash |-> forks + 1, tx |-> new[n]] /\ n \in f .. N
      BY <2>4, <1>6
    <3>4. chain'[m] = [hash |-> forks + 1, tx |-> new[m]] /\ m \in f .. N
      BY <2>4, <1>6
    <3>1. chain'[n].tx = new[n] /\ chain'[m].tx = new[m] /\ m \in f .. N /\ n \in f .. N
      BY <3>3, <3>4
    <3> QED
      BY <3>1, <1>4, <1>10, <1>11
  <2> QED
    BY <2>1, <2>2, <2>3, <2>4
<1>13. forks' # 0 /\ (limits.old <= Len(chain))'
  BY <1>3, <1>8 DEF ChainOK, Reorg, budget
<1> QED
  BY <1>3, <1>4, <1>5, <1>8, <1>9, <1>10, <1>12, <1>13 DEF ChainOK, New

\* What a step of the network leaves of what was known: an answer stays one,
\* and if it is on the chain it was there before, with the same transaction.
LEMMA NetworkKeeps ==
    ASSUME ChainOK, forks \in Nat, limits \in Scenarios, NetworkStep
    PROVE  /\ ChainOK' /\ forks' \in Nat /\ Len(chain) \in Nat /\ Len(chain') \in Nat
           /\ Len(chain) <= Len(chain') /\ forks <= forks'
           /\ \A k : Answer(k) => Answer(k)'
           /\ \A k : Answer(k) /\ OnChain(k)' =>
                    OnChain(k) /\ chain'[k.ledger].tx = chain[k.ledger].tx
           /\ \A e : Seen(e) => Seen(e)'
<1> DEFINE N == Len(chain)
<1>1. N \in Nat /\ N > 0 /\ DOMAIN chain = 1 .. N /\ chain \in Seq(Block)
      /\ \A n \in 1 .. N : chain[n].hash \in 0 .. forks
  <2>1. chain \in Seq(Block) /\ chain # <<>>
    BY DEF ChainOK, Block
  <2>2. N \in Nat /\ N > 0 /\ DOMAIN chain = 1 .. N /\ \A n \in 1 .. N : chain[n] \in Block
    BY <2>1
  <2> QED
    BY <2>1, <2>2 DEF Block
<1>2. /\ ChainOK' /\ forks' \in Nat /\ forks <= forks'
      /\ Len(chain') \in Nat /\ N <= Len(chain') /\ DOMAIN chain' = 1 .. Len(chain')
      /\ \A n \in 1 .. N : chain'[n] = chain[n] \/ chain'[n].hash > forks
  <2>1. ASSUME Close
        PROVE  /\ ChainOK' /\ forks' = forks /\ Len(chain') = N + 1
               /\ \A n \in 1 .. N : chain'[n] = chain[n]
    BY <2>1, <1>1, CloseKeepsChain
  <2>2. ASSUME Reorg
        PROVE  /\ ChainOK' /\ forks' = forks + 1 /\ Len(chain') = N
               /\ \A n \in 1 .. N : chain'[n] = chain[n] \/ chain'[n].hash = forks + 1
    BY <2>2, <1>1, ReorgKeepsChain
  <2>3. ChainOK' /\ (Len(chain') = N \/ Len(chain') = N + 1)
    BY <2>1, <2>2 DEF NetworkStep
  <2>4. DOMAIN chain' = 1 .. Len(chain')
    BY <2>3 DEF ChainOK
  <2>5. ASSUME NEW n \in 1 .. N
        PROVE  chain'[n] = chain[n] \/ chain'[n].hash > forks
    <3>1. CASE Close
      BY <2>1, <3>1
    <3>2. CASE Reorg
      BY <2>2, <3>2
    <3> QED
      BY <3>1, <3>2 DEF NetworkStep
  <2>6. forks' \in Nat /\ forks <= forks'
    <3>1. CASE Close
      BY <2>1, <3>1
    <3>2. CASE Reorg
      BY <2>2, <3>2
    <3> QED
      BY <3>1, <3>2 DEF NetworkStep
  <2>7. Len(chain') \in Nat /\ N <= Len(chain')
    BY <2>3, <1>1
  <2> QED
    BY <2>3, <2>4, <2>5, <2>6, <2>7
<1>3. ASSUME NEW k, Answer(k) PROVE Answer(k)'
  <2>1. PICK n \in 1 .. N, f \in 0 .. forks, g \in 0 .. forks :
          k = [ledger |-> n, hash |-> <<n, f>>, parentHash |-> <<n - 1, g>>]
    BY <1>3 DEF Answer
  <2>2. n \in 1 .. Len(chain') /\ f \in 0 .. forks' /\ g \in 0 .. forks'
    BY <1>1, <1>2
  <2> QED
    BY <2>1, <2>2 DEF Answer
<1>4. ASSUME NEW k, Answer(k), OnChain(k)'
      PROVE  OnChain(k) /\ chain'[k.ledger].tx = chain[k.ledger].tx
  <2>1. PICK n \in 1 .. N, f \in 0 .. forks : k.ledger = n /\ k.hash = <<n, f>>
    BY <1>4 DEF Answer
  <2>2. n # 0 /\ HashAt(chain', n) = <<n, f>>
    BY <2>1, <1>4, <1>1 DEF OnChain
  <2>3. chain'[n].hash = f
    BY <2>1, <2>2, <1>1 DEF HashAt
  <2>4. chain'[n] = chain[n]
    BY <2>1, <2>3, <1>1, <1>2
  <2>5. HashAt(chain, n) = <<n, f>> /\ n <= Len(chain)
    BY <2>1, <2>2, <2>3, <2>4, <1>1 DEF HashAt
  <2> QED
    BY <2>1, <2>4, <2>5 DEF OnChain
<1>5. ASSUME NEW e, Seen(e) PROVE Seen(e)'
  BY <1>1, <1>2, <1>5 DEF Seen
<1> QED
  BY <1>1, <1>2, <1>3, <1>4, <1>5
----------------------------------------------------------------------------
(* The inductive invariant, under the network's steps *)

LoopInv == IndexerTypeOK /\ CheckpointedIsIndexed

Tabled == <<cursor, checkpoints, rows, pc, lastLedger, startLedger, endLedger, coordinates, events,
            pending, published, lost, rewound>>

\* What of the invariant speaks of types and bounds only.
LEMMA NetworkTypes ==
    ASSUME LoopInv, NetworkStep
    PROVE  IndexerTypeOK'
<1>1. /\ UNCHANGED <<limits, cursor, checkpoints, rows, holders, supply, pc, startLedger, endLedger, events,
                     pending, faults, restarts, reset>>
  BY DEF NetworkStep, Close, Reorg, database, local, history, budget
<1>2. limits \in Scenarios /\ limits.ledgers \in Nat /\ limits.reorgs \in Nat
  BY BoundsAssumption DEF LoopInv, IndexerTypeOK
<1>3. forks \in Nat /\ Len(chain) \in Nat /\ ChainOK
  BY <1>2 DEF LoopInv, IndexerTypeOK, CheckpointedIsIndexed
<1>4. Len(chain') \in 1 .. limits.ledgers /\ forks' \in 0 .. limits.reorgs
  <2>1. CASE Close
    <3>1. Len(chain) < limits.ledgers /\ Len(chain) \in 1 .. limits.ledgers /\ forks \in 0 .. limits.reorgs
      BY <2>1 DEF Close, Head0, LoopInv, IndexerTypeOK
    <3>2. Len(chain') = Len(chain) + 1 /\ forks' = forks
      BY <2>1, <1>2, <1>3, CloseKeepsChain
    <3> QED
      BY <3>1, <3>2, <1>2, <1>3
  <2>2. CASE Reorg
    <3>1. forks < limits.reorgs /\ Len(chain) \in 1 .. limits.ledgers
      BY <2>2 DEF Reorg, LoopInv, IndexerTypeOK
    <3>2. Len(chain') = Len(chain) /\ forks' = forks + 1
      BY <2>2, <1>2, <1>3, ReorgKeepsChain
    <3> QED
      BY <3>1, <3>2, <1>2, <1>3
  <2> QED
    BY <2>1, <2>2 DEF NetworkStep
<1> QED
  BY <1>1, <1>4 DEF LoopInv, IndexerTypeOK

\* The network disturbs nothing the indexer relies on.
LEMMA NetworkInv ==
    ASSUME LoopInv, NetworkStep
    PROVE  LoopInv'
<1>1. UNCHANGED Tabled /\ limits' = limits /\ reset' = reset
  BY DEF NetworkStep, Close, Reorg, database, local, history, budget, Tabled
<1>2. limits \in Scenarios /\ forks \in Nat /\ ChainOK
  BY DEF LoopInv, IndexerTypeOK, CheckpointedIsIndexed
<1>3. /\ ChainOK' /\ forks' \in Nat /\ Len(chain) \in Nat /\ Len(chain') \in Nat
      /\ Len(chain) <= Len(chain') /\ forks <= forks'
      /\ \A k : Answer(k) => Answer(k)'
      /\ \A k : Answer(k) /\ OnChain(k)' => OnChain(k) /\ chain'[k.ledger].tx = chain[k.ledger].tx
      /\ \A e : Seen(e) => Seen(e)'
  BY <1>2, NetworkKeeps
<1>4. \A tx, i : Done(tx, i) => Done(tx, i)'
  BY <1>1 DEF Done, Tabled
<1>5. \A n : Checkpointed(n)' = Checkpointed(n)
  BY <1>1 DEF Checkpointed, Tabled
<1>6. LedgersWereAnswered
  BY DEF LoopInv, CheckpointedIsIndexed
<1>7. NothingStepsOver'
  <2>1. NothingStepsOver /\ \A k \in checkpoints : Answer(k)
    BY <1>6 DEF LoopInv, CheckpointedIsIndexed, LedgersWereAnswered
  <2> QED
    BY <2>1, <1>1, <1>3, <1>4 DEF NothingStepsOver, Tabled
<1>8. CheckpointsReachDown'
  BY <1>1, <1>5 DEF LoopInv, CheckpointedIsIndexed, CheckpointsReachDown, Tabled
<1>9. LedgersWereAnswered'
  <2>1. \A k \in (checkpoints \cup coordinates)' : Answer(k)'
    BY <1>1, <1>3, <1>6 DEF LedgersWereAnswered, Tabled
  <2>2. \A c \in {cursor, lastLedger}' : /\ DOMAIN c = {"ledger", "hash", "parentHash"}
                                         /\ c.ledger \in -1 .. Len(chain)
                                         /\ c.hash = NoHash => c.ledger <= limits.old
    BY <1>1, <1>6 DEF LedgersWereAnswered, Tabled
  <2>3. \A x : x \in -1 .. Len(chain) => x \in -1 .. Len(chain')
    BY <1>3
  <2> QED
    BY <2>1, <2>2, <2>3, <1>1 DEF LedgersWereAnswered
<1>10. RangeIsFetched'
  <2>1. RangeIsFetched
    BY DEF LoopInv, CheckpointedIsIndexed
  <2>2. pc' = pc /\ startLedger' = startLedger /\ endLedger' = endLedger /\ coordinates' = coordinates
    BY <1>1 DEF Tabled
  <2>3. /\ \A x : x \in 1 .. Len(chain) + 1 => x \in 1 .. Len(chain') + 1
        /\ \A x : startLedger \in Int /\ x \in startLedger .. Len(chain) => x \in startLedger .. Len(chain')
    BY <1>3
  <2>4. pc # "boot" => startLedger \in Int
    BY <2>1 DEF RangeIsFetched
  <2> QED
    BY <2>1, <2>2, <2>3, <2>4 DEF RangeIsFetched
<1>11. EventsWereEmitted'
  <2>1. EventsWereEmitted
    BY DEF LoopInv, CheckpointedIsIndexed
  <2>2. /\ rows' = rows /\ events' = events /\ pc' = pc /\ pending' = pending /\ rewound' = rewound
        /\ published' = published
    BY <1>1 DEF Tabled
  <2>3. \A e : WasEmitted(e) => WasEmitted(e)'
    BY <1>3 DEF WasEmitted, EventOf
  <2> QED
    BY <2>1, <2>2, <2>3, <1>3 DEF EventsWereEmitted, EventOf, RowOf
<1>12. RangeIsUnderWay'
  <2>1. RangeIsUnderWay /\ \A k \in coordinates : Answer(k)
    BY <1>6 DEF LoopInv, CheckpointedIsIndexed, LedgersWereAnswered
  <2>2. coordinates' = coordinates /\ pc' = pc /\ events' = events
    BY <1>1 DEF Tabled
  <2>3. ASSUME pc \in {"process", "publish"}, NEW k \in coordinates, OnChain(k)',
               NEW tx, tx = chain'[k.ledger].tx, tx # NoTx, NEW i \in DOMAIN EventsOf[tx]
        PROVE  Done(tx, i)' \/ \E j \in DOMAIN events : events[j].tx = tx /\ events[j].index = i
    <3>1. OnChain(k) /\ tx = chain[k.ledger].tx
      BY <2>1, <2>3, <1>3
    <3>2. Done(tx, i) \/ \E j \in DOMAIN events : events[j].tx = tx /\ events[j].index = i
      BY <2>1, <2>3, <3>1 DEF RangeIsUnderWay
    <3> QED
      BY <3>2, <1>4
  <2> QED
    BY <2>2, <2>3 DEF RangeIsUnderWay
<1> QED
  BY <1>3, <1>7, <1>8, <1>9, <1>10, <1>11, <1>12, NetworkTypes DEF LoopInv, CheckpointedIsIndexed
----------------------------------------------------------------------------
(* The events of a range *)

\* The events of a ledger are those of its transaction, marked with their place
\* and with the supply reported after them.
Placed(ev, n) ==
    /\ ev.ledger = n /\ ev.tx = chain[n].tx /\ chain[n].tx # NoTx
    /\ WasEmitted(ev) /\ ev.newSupply = SupplyOf(SupplyEvents(n, ev.index))

\* The events of a ledger, as the node returns them: each in its place, in
\* order, and all of them.
LEMMA LedgerEvents ==
    ASSUME ChainOK, NEW n \in DOMAIN chain
    PROVE  /\ EventsAt(n) \in Seq(Range(EventsAt(n)))
           /\ \A i \in DOMAIN EventsAt(n) : Placed(EventsAt(n)[i], n) /\ EventsAt(n)[i].index = i
           /\ chain[n].tx # NoTx => DOMAIN EventsAt(n) = DOMAIN EventsOf[chain[n].tx]
<1>1. PICK tx : tx = chain[n].tx
  OBVIOUS
<1>2. chain \in Seq(Block) /\ n \in 1 .. Len(chain) /\ chain[n] \in Block
  <2>1. chain \in Seq(Block)
    BY DEF ChainOK, Block
  <2> QED
    BY <2>1
<1>3. tx \in Txs \cup {NoTx}
  BY <1>1, <1>2 DEF Block
<1>4. CASE tx = NoTx
  <2>1. EventsAt(n) = <<>>
    BY <1>1, <1>4 DEF EventsAt
  <2> QED
    BY <2>1, <1>1, <1>4
<1>5. CASE tx # NoTx
  <2>1. tx \in Txs /\ EventsOf[tx] \in Seq(Emitted)
    BY <1>3, <1>5, ChainAssumption
  <2>2. PICK L \in Nat : DOMAIN EventsOf[tx] = 1 .. L /\ \A i \in 1 .. L : EventsOf[tx][i] \in Emitted
    BY <2>1
  <2>3. EventsAt(n) = [i \in 1 .. L |->
                [topic |-> EventsOf[tx][i].topic, from |-> EventsOf[tx][i].from,
                 to |-> EventsOf[tx][i].to, amount |-> EventsOf[tx][i].amount,
                 tx |-> tx, index |-> i, ledger |-> n, newSupply |-> SupplyOf(SupplyEvents(n, i))]]
    BY <1>1, <1>5, <2>2 DEF EventsAt
  <2>4. PICK E : E = EventsAt(n)
    OBVIOUS
  <2>5. DOMAIN E = 1 .. L /\ E = [i \in 1 .. L |-> E[i]]
    BY <2>3, <2>4
  <2>6. E \in Seq(Range(E))
    BY <2>5 DEF Range
  <2>7. ASSUME NEW i \in 1 .. L
        PROVE  Placed(E[i], n) /\ E[i].index = i
    <3>1. E[i] = [topic |-> EventsOf[tx][i].topic, from |-> EventsOf[tx][i].from,
                  to |-> EventsOf[tx][i].to, amount |-> EventsOf[tx][i].amount,
                  tx |-> tx, index |-> i, ledger |-> n, newSupply |-> SupplyOf(SupplyEvents(n, i))]
      BY <2>3, <2>4
    <3>2. E[i].tx = tx /\ E[i].index = i /\ E[i].ledger = n /\ E[i].newSupply = SupplyOf(SupplyEvents(n, i))
      BY <3>1
    <3>3. /\ E[i].topic = EventsOf[tx][i].topic /\ E[i].from = EventsOf[tx][i].from
          /\ E[i].to = EventsOf[tx][i].to /\ E[i].amount = EventsOf[tx][i].amount
      BY <3>1
    <3>4. DOMAIN EventsOf[tx][i] = {"topic", "from", "to", "amount"}
      BY <2>2 DEF Emitted
    <3>5. \A x \in DOMAIN EventsOf[tx][i] : E[i][x] = EventsOf[tx][i][x]
      BY <3>3, <3>4
    <3>6. Seen(E[i])
      BY <3>2, <1>1, <1>2, <1>5, <2>1, <2>2 DEF Seen, ChainOK
    <3>7. WasEmitted(E[i])
      BY <3>2, <3>5, <3>6 DEF WasEmitted, EventOf
    <3> QED
      BY <3>2, <3>7, <1>1, <1>5 DEF Placed
  <2> QED
    BY <2>2, <2>4, <2>5, <2>6, <2>7, <1>1
<1> QED
  BY <1>4, <1>5

\* What the recursion of getEvents has gathered up to ledger n
IsUpTo(first, n, g) ==
    g = [k \in 0 .. n |-> IF k < first THEN <<>> ELSE g[k - 1] \o EventsAt(k)]

UpToFcn(first, last) == CHOOSE g : IsUpTo(first, last, g)

\* getEvents returns what the recursion has gathered at the last ledger.
LEMMA GetEventsIsUpTo ==
    ASSUME NEW first, NEW last
    PROVE  getEvents(first, last) = UpToFcn(first, last)[last]
BY DEF getEvents, UpToFcn, IsUpTo

\* The recursion has a solution, so it goes ledger by ledger.
LEMMA UpToSteps ==
    ASSUME NEW last \in Nat, NEW first \in 1 .. last
    PROVE  /\ UpToFcn(first, last)[0] = <<>>
           /\ \A k \in 0 .. last - 1 :
                 UpToFcn(first, last)[k + 1] =
                    IF k + 1 < first THEN <<>> ELSE UpToFcn(first, last)[k] \o EventsAt(k + 1)
<1> DEFINE G == {k \in 0 .. last : \E g : IsUpTo(first, k, g)}
<1>1. 0 \in G
  <2> DEFINE g == [k \in 0 .. 0 |-> <<>>]
  <2>1. \A k \in 0 .. 0 : k < first
    OBVIOUS
  <2>2. IsUpTo(first, 0, g)
    BY <2>1 DEF IsUpTo
  <2> QED
    BY <2>2
<1>2. ASSUME NEW k \in 0 .. last - 1, k \in G PROVE k + 1 \in G
  <2>1. PICK g : IsUpTo(first, k, g)
    BY <1>2
  <2> DEFINE h == [j \in 0 .. k + 1 |->
                      IF j = k + 1 THEN (IF j < first THEN <<>> ELSE g[k] \o EventsAt(k + 1)) ELSE g[j]]
  <2>2. \A j \in 0 .. k : g[j] = IF j < first THEN <<>> ELSE g[j - 1] \o EventsAt(j)
    BY <2>1 DEF IsUpTo
  <2>3. ASSUME NEW j \in 0 .. k + 1
        PROVE  h[j] = IF j < first THEN <<>> ELSE h[j - 1] \o EventsAt(j)
    <3>1. CASE j = k + 1
      <4>1. j - 1 = k /\ k \in 0 .. k + 1 /\ k # k + 1
        BY <3>1
      <4>2. h[j - 1] = g[k]
        BY <4>1
      <4>3. h[j] = IF j < first THEN <<>> ELSE g[k] \o EventsAt(k + 1)
        BY <3>1
      <4> QED
        BY <3>1, <4>2, <4>3
    <3>2. CASE j # k + 1
      <4>1. j \in 0 .. k /\ h[j] = g[j]
        BY <3>2
      <4>2. CASE j < first
        BY <2>2, <4>1, <4>2
      <4>3. CASE ~(j < first)
        <5>1. j - 1 \in 0 .. k + 1 /\ j - 1 # k + 1
          BY <4>1, <4>3
        <5>2. h[j - 1] = g[j - 1]
          BY <5>1
        <5> QED
          BY <2>2, <4>1, <4>3, <5>2
      <4> QED
        BY <4>2, <4>3
    <3> QED
      BY <3>1, <3>2
  <2>4. DOMAIN h = 0 .. k + 1 /\ h = [j \in 0 .. k + 1 |-> h[j]]
    OBVIOUS
  <2> HIDE DEF h
  <2>5. IsUpTo(first, k + 1, h)
    BY <2>3, <2>4 DEF IsUpTo
  <2> QED
    BY <2>5
<1>3. last \in G
  <2>1. \A k \in 0 .. last : k \in G
    <3> HIDE DEF G
    <3> QED
      BY <1>1, <1>2, UpToN
  <2> QED
    BY <2>1
<1>4. IsUpTo(first, last, UpToFcn(first, last))
  BY <1>3 DEF UpToFcn
<1> DEFINE U == UpToFcn(first, last)
<1> HIDE DEF U
<1>5. \A k \in 0 .. last : U[k] = IF k < first THEN <<>> ELSE U[k - 1] \o EventsAt(k)
  BY <1>4 DEF IsUpTo, U
<1>6. U[0] = <<>>
  BY <1>5
<1>7. ASSUME NEW k \in 0 .. last - 1
      PROVE  U[k + 1] = IF k + 1 < first THEN <<>> ELSE U[k] \o EventsAt(k + 1)
  <2>1. k + 1 \in 0 .. last /\ (k + 1) - 1 = k
    OBVIOUS
  <2> QED
    BY <1>5, <2>1
<1> QED
  BY <1>6, <1>7 DEF U
\* The events of the ledgers from first to n, each in its place, all of them and
\* in order.
Gathered(s, first, n) ==
    /\ s \in Seq(Range(s))
    /\ \A j \in DOMAIN s : \E m \in first .. n : Placed(s[j], m)
    /\ \A m \in first .. n : chain[m].tx # NoTx =>
          \A i \in DOMAIN EventsOf[chain[m].tx] :
             \E j \in DOMAIN s : s[j].tx = chain[m].tx /\ s[j].index = i
    /\ \A i, j \in DOMAIN s : i < j => Earlier(s[i], s[j])

\* Appending the next ledger's events keeps it so.
LEMMA GatherOne ==
    ASSUME ChainOK, NEW n \in Nat, n + 1 \in DOMAIN chain, NEW first \in 1 .. n + 1,
           NEW s, Gathered(s, first, n)
    PROVE  Gathered(s \o EventsAt(n + 1), first, n + 1)
<1>1. PICK t : t = EventsAt(n + 1)
  OBVIOUS
<1>2. /\ t \in Seq(Range(t)) /\ \A i \in DOMAIN t : Placed(t[i], n + 1) /\ t[i].index = i
      /\ chain[n + 1].tx # NoTx => DOMAIN t = DOMAIN EventsOf[chain[n + 1].tx]
  BY <1>1, LedgerEvents
<1>3. PICK a \in Nat, b \in Nat : Len(s) = a /\ DOMAIN s = 1 .. a /\ Len(t) = b /\ DOMAIN t = 1 .. b
  BY <1>2 DEF Gathered
<1>4. PICK u : u = s \o t
  OBVIOUS
<1>5. /\ DOMAIN u = 1 .. a + b /\ \A i \in 1 .. a : u[i] = s[i]
      /\ \A i \in a + 1 .. a + b : u[i] = t[i - a]
      /\ u \in Seq(Range(s) \cup Range(t))
  <2>1. PICK S : S = Range(s) \cup Range(t)
    OBVIOUS
  <2>2. s \in Seq(S) /\ t \in Seq(S)
    BY <2>1, <1>2 DEF Gathered
  <2>3. /\ u \in Seq(S) /\ Len(u) = a + b
        /\ \A i \in 1 .. a + b : u[i] = IF i <= a THEN s[i] ELSE t[i - a]
    BY <2>2, <1>3, <1>4, ConcatProperties
  <2>4. DOMAIN u = 1 .. a + b
    BY <2>3
  <2>5. \A i \in 1 .. a : u[i] = s[i]
    BY <2>3
  <2>6. \A i \in a + 1 .. a + b : u[i] = t[i - a]
    BY <2>3
  <2> QED
    BY <2>1, <2>3, <2>4, <2>5, <2>6
<1>6. u \in Seq(Range(u))
  BY <1>5 DEF Range
<1>7. \A i \in 1 .. a + b : i \in 1 .. a \/ (i \in a + 1 .. a + b /\ i - a \in 1 .. b)
  BY <1>3
<1>8. ASSUME NEW j \in 1 .. a + b PROVE \E m \in first .. n + 1 : Placed(u[j], m)
  <2>1. CASE j \in 1 .. a
    <3>1. PICK m \in first .. n : Placed(s[j], m)
      BY <2>1, <1>3 DEF Gathered
    <3>2. m \in first .. n + 1
      OBVIOUS
    <3> QED
      BY <3>1, <3>2, <2>1, <1>5
  <2>2. CASE j \in a + 1 .. a + b /\ j - a \in 1 .. b
    BY <2>2, <1>2, <1>3, <1>5
  <2> QED
    BY <2>1, <2>2, <1>7
<1>9. ASSUME NEW m \in first .. n + 1, chain[m].tx # NoTx, NEW i \in DOMAIN EventsOf[chain[m].tx]
      PROVE  \E j \in 1 .. a + b : u[j].tx = chain[m].tx /\ u[j].index = i
  <2>1. CASE m = n + 1
    <3>1. i \in 1 .. b /\ t[i].tx = chain[m].tx /\ t[i].index = i
      BY <2>1, <1>2, <1>3, <1>9 DEF Placed
    <3>2. a + i \in a + 1 .. a + b /\ a + i \in 1 .. a + b /\ (a + i) - a = i
      BY <3>1
    <3>3. u[a + i] = t[i]
      BY <3>2, <1>5
    <3> QED
      BY <3>1, <3>2, <3>3
  <2>2. CASE m # n + 1
    <3>1. m \in first .. n
      BY <2>2
    <3>2. PICK j \in 1 .. a : s[j].tx = chain[m].tx /\ s[j].index = i
      BY <3>1, <1>3, <1>9 DEF Gathered
    <3>3. j \in 1 .. a + b
      BY <1>3
    <3> QED
      BY <3>2, <3>3, <1>5
  <2> QED
    BY <2>1, <2>2
<1>10. ASSUME NEW i \in 1 .. a + b, NEW j \in 1 .. a + b, i < j PROVE Earlier(u[i], u[j])
  <2>1. CASE j \in 1 .. a
    <3>1. i \in 1 .. a
      BY <2>1, <1>10
    <3> QED
      BY <2>1, <3>1, <1>3, <1>5, <1>10 DEF Gathered
  <2>2. CASE i \in 1 .. a /\ j \in a + 1 .. a + b /\ j - a \in 1 .. b
    <3>1. PICK m \in first .. n : s[i].ledger = m
      BY <2>2, <1>3 DEF Gathered, Placed
    <3>2. t[j - a].ledger = n + 1
      BY <2>2, <1>2, <1>3 DEF Placed
    <3> QED
      BY <2>2, <3>1, <3>2, <1>5 DEF Earlier
  <2>3. CASE i \in a + 1 .. a + b /\ i - a \in 1 .. b /\ j \in a + 1 .. a + b /\ j - a \in 1 .. b
    <3>1. t[i - a].ledger = n + 1 /\ t[j - a].ledger = n + 1 /\ t[i - a].index = i - a /\ t[j - a].index = j - a
      BY <2>3, <1>2, <1>3 DEF Placed
    <3>2. i - a < j - a
      BY <1>10, <1>3
    <3> QED
      BY <2>3, <3>1, <3>2, <1>5 DEF Earlier
  <2> QED
    BY <2>1, <2>2, <2>3, <1>7
<1>11. Gathered(u, first, n + 1)
  <2>1. DOMAIN u = 1 .. a + b
    BY <1>5
  <2>2. \A m \in first .. n + 1 : chain[m].tx # NoTx =>
          \A i \in DOMAIN EventsOf[chain[m].tx] :
             \E j \in DOMAIN u : u[j].tx = chain[m].tx /\ u[j].index = i
    BY <2>1, <1>9
  <2>3. \A j \in DOMAIN u : \E m \in first .. n + 1 : Placed(u[j], m)
    BY <2>1, <1>8
  <2>4. \A i, j \in DOMAIN u : i < j => Earlier(u[i], u[j])
    BY <2>1, <1>10
  <2> QED
    BY <2>2, <2>3, <2>4, <1>6 DEF Gathered
<1> QED
  BY <1>1, <1>4, <1>11

\* getEvents answers with the events of its range.
LEMMA RangeEvents ==
    ASSUME ChainOK, NEW last \in DOMAIN chain, NEW first \in 1 .. last
    PROVE  Gathered(getEvents(first, last), first, last)
<1>1. last \in Nat /\ \A n \in 1 .. last : n \in DOMAIN chain
  BY DEF ChainOK
<1>2. PICK U : U = UpToFcn(first, last)
  OBVIOUS
<1>3. /\ U[0] = <<>>
      /\ \A k \in 0 .. last - 1 : U[k + 1] = IF k + 1 < first THEN <<>> ELSE U[k] \o EventsAt(k + 1)
  BY <1>1, <1>2, UpToSteps
<1> DEFINE G == {n \in 0 .. last : IF n < first THEN U[n] = <<>> ELSE Gathered(U[n], first, n)}
<1>4. 0 \in G
  BY <1>1, <1>3
<1>5. ASSUME NEW k \in 0 .. last - 1, k \in G PROVE k + 1 \in G
  <2>1. k \in Nat /\ k + 1 \in 0 .. last /\ k + 1 \in DOMAIN chain
    BY <1>1
  <2>2. CASE k + 1 < first
    BY <2>1, <2>2, <1>3
  <2>3. CASE ~(k + 1 < first)
    <3>1. U[k + 1] = U[k] \o EventsAt(k + 1)
      BY <2>3, <1>3
    <3>2. Gathered(U[k], first, k)
      <4>1. CASE k < first
        <5>1. U[k] = <<>> /\ first .. k = {}
          BY <1>5, <4>1
        <5>2. <<>> \in Seq(Range(<<>>)) /\ DOMAIN <<>> = {}
          OBVIOUS
        <5> QED
          BY <5>1, <5>2 DEF Gathered
      <4>2. CASE ~(k < first)
        BY <1>5, <4>2
      <4> QED
        BY <4>1, <4>2
    <3>3. first \in 1 .. k + 1
      BY <2>3
    <3> QED
      BY <2>1, <2>3, <3>1, <3>2, <3>3, GatherOne
  <2> QED
    BY <2>2, <2>3
<1>6. last \in G
  <2>1. \A k \in 0 .. last : k \in G
    <3> HIDE DEF G
    <3> QED
      BY <1>1, <1>4, <1>5, UpToN
  <2> QED
    BY <2>1, <1>1
<1> QED
  BY <1>1, <1>2, <1>6, GetEventsIsUpTo
----------------------------------------------------------------------------
(* The loop's steps leave the chain alone *)

\* A step that leaves the network alone leaves everything said of the chain.
LEMMA QuietChain ==
    ASSUME UNCHANGED network, UNCHANGED limits
    PROVE  /\ chain' = chain /\ forks' = forks /\ (ChainOK => ChainOK')
           /\ \A k : Answer(k)' = Answer(k) /\ OnChain(k)' = OnChain(k)
           /\ \A e : Seen(e)' = Seen(e) /\ WasEmitted(e)' = WasEmitted(e)
<1>1. chain' = chain /\ forks' = forks
  BY DEF network
<1>2. ASSUME NEW k PROVE Answer(k)' = Answer(k) /\ OnChain(k)' = OnChain(k)
  BY <1>1 DEF Answer, OnChain, HashAt
<1>3. ASSUME NEW e PROVE Seen(e)' = Seen(e) /\ WasEmitted(e)' = WasEmitted(e)
  BY <1>1 DEF Seen, WasEmitted, EventOf
<1> QED
  BY <1>1, <1>2, <1>3 DEF ChainOK

\* What the steps below need of the invariant and the constants.
LEMMA Facts ==
    ASSUME LoopInv
    PROVE  /\ limits \in Scenarios /\ limits.ledgers \in Nat /\ limits.reorgs \in Nat
           /\ limits.faults \in Nat /\ limits.restarts \in Nat /\ limits.resets \in Nat
           /\ limits.old \in Nat /\ limits.old <= Len(chain)
           /\ forks \in Nat /\ Len(chain) \in Nat /\ Len(chain) \in 1 .. limits.ledgers
           /\ DOMAIN chain = 1 .. Len(chain)
           /\ ChainOK /\ LedgersWereAnswered /\ RangeIsFetched /\ EventsWereEmitted /\ RangeIsUnderWay
           /\ NothingStepsOver /\ CheckpointsReachDown
<1>1. limits \in Scenarios
  BY DEF LoopInv, IndexerTypeOK
<1>2. /\ limits.ledgers \in Nat /\ limits.reorgs \in Nat
      /\ limits.faults \in Nat /\ limits.restarts \in Nat /\ limits.resets \in Nat
      /\ limits.old \in Nat
  BY <1>1, BoundsAssumption
<1>3. forks \in 0 .. limits.reorgs /\ Len(chain) \in 1 .. limits.ledgers
  BY DEF LoopInv, IndexerTypeOK
<1>4. /\ ChainOK /\ LedgersWereAnswered /\ RangeIsFetched /\ EventsWereEmitted /\ RangeIsUnderWay
      /\ NothingStepsOver /\ CheckpointsReachDown
  BY DEF LoopInv, CheckpointedIsIndexed
<1>5. DOMAIN chain = 1 .. Len(chain) /\ limits.old <= Len(chain)
  BY <1>4 DEF ChainOK
<1> QED
  BY <1>1, <1>2, <1>3, <1>4, <1>5

\* A ledger of the chain has coordinates the invariant knows.
LEMMA CoordinatesAnswer ==
    ASSUME LoopInv, NEW n \in 1 .. Len(chain)
    PROVE  /\ Answer(toLedgerCoordinate(n)) /\ toLedgerCoordinate(n).ledger = n
           /\ toLedgerCoordinate(n).hash # NoHash
           /\ DOMAIN toLedgerCoordinate(n) = {"ledger", "hash", "parentHash"}
<1>1. chain \in Seq(Block) /\ forks \in Nat /\ Len(chain) \in Nat
  BY Facts DEF ChainOK, Block
<1>2. \A m \in 1 .. Len(chain) : chain[m].hash \in 0 .. forks
  <2>1. \A m \in 1 .. Len(chain) : chain[m] \in Block
    BY <1>1
  <2> QED
    BY <2>1 DEF Block
<1>3. HashAt(chain, n) = <<n, chain[n].hash>>
  BY <1>1 DEF HashAt
<1>4. PICK g \in 0 .. forks : HashAt(chain, n - 1) = <<n - 1, g>>
  <2>1. CASE n - 1 = 0
    BY <2>1, <1>1 DEF HashAt
  <2>2. CASE n - 1 # 0
    <3>1. n - 1 \in 1 .. Len(chain)
      BY <2>2, <1>1
    <3> QED
      BY <2>2, <3>1, <1>2 DEF HashAt
  <2> QED
    BY <2>1, <2>2
<1>5. toLedgerCoordinate(n) = [ledger |-> n, hash |-> <<n, chain[n].hash>>, parentHash |-> <<n - 1, g>>]
  BY <1>3, <1>4 DEF toLedgerCoordinate
<1>6. <<n, chain[n].hash>> \in Nat \X Nat
  BY <1>1, <1>2
<1>7. Answer(toLedgerCoordinate(n))
  <2>1. PICK f \in 0 .. forks : f = chain[n].hash
    BY <1>2
  <2> QED
    BY <2>1, <1>5 DEF Answer
<1>8. /\ toLedgerCoordinate(n).ledger = n /\ toLedgerCoordinate(n).hash = <<n, chain[n].hash>>
      /\ DOMAIN toLedgerCoordinate(n) = {"ledger", "hash", "parentHash"}
  BY <1>5
<1> QED
  BY <1>6, <1>7, <1>8, ChainAssumption

\* What an answer looks like.
LEMMA AnswerShape ==
    ASSUME NEW k, Answer(k), forks \in Nat, Len(chain) \in Nat
    PROVE  /\ k.ledger \in 1 .. Len(chain) /\ k.hash # NoHash
           /\ DOMAIN k = {"ledger", "hash", "parentHash"}
           /\ \A o : Answer(o) /\ o.hash = k.hash => o.ledger = k.ledger
<1>1. PICK n \in 1 .. Len(chain), f \in 0 .. forks, g \in 0 .. forks :
        k = [ledger |-> n, hash |-> <<n, f>>, parentHash |-> <<n - 1, g>>]
  BY DEF Answer
<1>2. <<n, f>> \in Nat \X Nat
  OBVIOUS
<1>3. k.ledger = n /\ k.hash = <<n, f>> /\ DOMAIN k = {"ledger", "hash", "parentHash"}
  BY <1>1
<1>4. k.hash # NoHash
  BY <1>2, <1>3, ChainAssumption
<1>5. ASSUME NEW o, Answer(o), o.hash = k.hash PROVE o.ledger = k.ledger
  <2>1. PICK m \in 1 .. Len(chain), h \in 0 .. forks : o.ledger = m /\ o.hash = <<m, h>>
    BY <1>5 DEF Answer
  <2>2. m = n
    BY <2>1, <1>3, <1>5
  <2> QED
    BY <2>1, <2>2, <1>3
<1> QED
  BY <1>3, <1>4, <1>5

\* getLedgers answers with the coordinates of the ledgers asked for.
LEMMA LedgersInRange ==
    ASSUME LoopInv, NEW first \in Int, NEW last \in Int
    PROVE  \A k \in getLedgers(first, last) :
              /\ Answer(k) /\ k.ledger \in first .. last /\ k.ledger \in 1 .. Len(chain)
              /\ k = toLedgerCoordinate(k.ledger)
<1> SUFFICES ASSUME NEW k \in getLedgers(first, last)
             PROVE  /\ Answer(k) /\ k.ledger \in first .. last /\ k.ledger \in 1 .. Len(chain)
                    /\ k = toLedgerCoordinate(k.ledger)
  OBVIOUS
<1>1. PICK n \in first .. last : 1 <= n /\ n <= Len(chain) /\ k = toLedgerCoordinate(n)
  BY DEF getLedgers, Head0
<1>2. n \in 1 .. Len(chain)
  BY <1>1, Facts
<1>3. Answer(k) /\ k.ledger = n
  BY <1>1, <1>2, CoordinatesAnswer
<1> QED
  BY <1>1, <1>2, <1>3
----------------------------------------------------------------------------
(* Boot, poll and fetch *)

\* A fault is counted.
LEMMA PartlyType ==
    ASSUME LoopInv, NEW partial, Partly(partial)
    PROVE  faults' \in 0 .. limits.faults /\ (faults' = 0 => ~partial)
<1>1. faults \in 0 .. limits.faults /\ limits.faults \in Nat
  BY Facts DEF LoopInv, IndexerTypeOK
<1>2. CASE partial
  BY <1>1, <1>2 DEF Partly
<1>3. CASE ~partial
  BY <1>1, <1>3 DEF Partly
<1> QED
  BY <1>2, <1>3

\* Seeding changes something only for a database without hashes: its cursor
\* gets a hash and a checkpoint, and the checkpoints it adds are for ledgers
\* of the older version.
LEMMA Seeding ==
    ASSUME LoopInv, Boot
    PROVE  /\ \/ cursor' = cursor
              \/ /\ Answer(cursor') /\ cursor'.ledger = cursor.ledger
                 /\ Checkpointed(cursor.ledger)'
           /\ \E K : /\ checkpoints' = checkpoints \cup K
                    /\ \A k \in K : Answer(k) /\ k.ledger <= limits.old
           /\ faults' \in 0 .. limits.faults
<1>1. /\ cursor.ledger \in -1 .. Len(chain) /\ Len(chain) \in Nat /\ Lookback \in Nat
      /\ cursor.hash = NoHash => cursor.ledger <= limits.old
      /\ limits.old \in Nat
  BY Facts, BoundsAssumption DEF LedgersWereAnswered
<1>2. CASE UNCHANGED <<cursor, checkpoints, faults>>
  <2>1. checkpoints' = checkpoints \cup {} /\ faults' \in 0 .. limits.faults
    BY <1>2 DEF LoopInv, IndexerTypeOK
  <2>2. \E K : /\ checkpoints' = checkpoints \cup K
              /\ \A k \in K : Answer(k) /\ k.ledger <= limits.old
    <3>1. PICK L : L = {}
      OBVIOUS
    <3>2. checkpoints' = checkpoints \cup L /\ \A k \in L : Answer(k) /\ k.ledger <= limits.old
      BY <2>1, <3>1
    <3> QED
      BY <3>2
  <2> QED
    BY <1>2, <2>1, <2>2
<1>3. ASSUME cursor.ledger > 0, cursor.hash = NoHash, NEW partial \in BOOLEAN, Partly(partial),
             seedLedgerCheckpoints(cursor, partial)
      PROVE  /\ \/ cursor' = cursor
                \/ /\ Answer(cursor') /\ cursor'.ledger = cursor.ledger
                   /\ Checkpointed(cursor.ledger)'
             /\ \E K : /\ checkpoints' = checkpoints \cup K
                      /\ \A k \in K : Answer(k) /\ k.ledger <= limits.old
             /\ faults' \in 0 .. limits.faults
  <2> DEFINE full == getLedgers(cursor.ledger - Lookback + 1, cursor.ledger)
             found == {k \in full : partial => k.ledger < cursor.ledger}
             at == {k \in found : k.ledger = cursor.ledger}
             K == {k \in found : \A o \in checkpoints : o.ledger # k.ledger}
  <2>1. \A k \in full : Answer(k) /\ k.ledger \in (cursor.ledger - Lookback + 1) .. cursor.ledger
    <3>1. cursor.ledger - Lookback + 1 \in Int /\ cursor.ledger \in Int
      BY <1>1
    <3> QED
      BY <3>1, LedgersInRange
  <2>2. \A k \in found : Answer(k) /\ k.ledger <= limits.old
    BY <2>1, <1>1, <1>3
  <2>3. faults' \in 0 .. limits.faults
    BY <1>3, PartlyType
  <2>4. CASE at = {}
    <3>1. UNCHANGED <<cursor, checkpoints>>
      BY <1>3, <2>4 DEF seedLedgerCheckpoints
    <3>2. checkpoints' = checkpoints \cup {}
      BY <3>1
    <3>3. \E L : /\ checkpoints' = checkpoints \cup L
                /\ \A k \in L : Answer(k) /\ k.ledger <= limits.old
      <4>1. PICK M : M = {}
        OBVIOUS
      <4>2. checkpoints' = checkpoints \cup M /\ \A k \in M : Answer(k) /\ k.ledger <= limits.old
        BY <3>2, <4>1
      <4> QED
        BY <4>2
    <3> QED
      BY <2>3, <3>1, <3>3
  <2>5. CASE at # {}
    <3>1. cursor' = (CHOOSE k \in at : TRUE) /\ checkpoints' = checkpoints \cup K
      BY <1>3, <2>5 DEF seedLedgerCheckpoints
    <3>2. cursor' \in at
      BY <2>5, <3>1
    <3>3. cursor' \in found /\ cursor'.ledger = cursor.ledger /\ K \subseteq found
      BY <3>2
    <3>4. \E k \in checkpoints' : k.ledger = cursor.ledger
      BY <3>1, <3>3
    <3> HIDE DEF full, found, at, K
    <3> QED
      BY <2>2, <2>3, <3>1, <3>3, <3>4 DEF Checkpointed
  <2> QED
    BY <2>4, <2>5
<1>4. CASE cursor.ledger > 0 /\ cursor.hash = NoHash
  <2>1. PICK partial \in BOOLEAN : Partly(partial) /\ seedLedgerCheckpoints(cursor, partial)
    BY <1>4 DEF Boot
  <2> QED
    BY <1>3, <1>4, <2>1
<1> QED
  BY <1>2, <1>4 DEF Boot

\* Reading the cursor at a start keeps the invariant.
LEMMA BootInv ==
    ASSUME LoopInv, Boot
    PROVE  LoopInv'
<1>1. /\ pc = "boot" /\ pc' = "poll" /\ lastLedger' = cursor
      /\ startLedger' = IF HasCursor(cursor) THEN cursor.ledger + 1 ELSE 1
      /\ UNCHANGED <<network, rows, holders, supply, endLedger, coordinates, events, pending, published, lost,
                     rewound, reset, limits, restarts>>
  BY DEF Boot, history
<1>2. /\ chain' = chain /\ forks' = forks /\ ChainOK'
      /\ \A k : Answer(k)' = Answer(k) /\ OnChain(k)' = OnChain(k)
      /\ \A e : Seen(e)' = Seen(e) /\ WasEmitted(e)' = WasEmitted(e)
  BY <1>1, QuietChain, Facts
<1>3. /\ \/ cursor' = cursor
         \/ Answer(cursor') /\ cursor'.ledger = cursor.ledger /\ Checkpointed(cursor.ledger)'
      /\ faults' \in 0 .. limits.faults
  BY Seeding
<1>4. PICK K : /\ checkpoints' = checkpoints \cup K
               /\ \A k \in K : Answer(k) /\ k.ledger <= limits.old
  BY Seeding
<1>5. /\ Len(chain) \in Nat /\ Len(chain) >= 1 /\ limits.ledgers \in Nat /\ Len(chain) <= limits.ledgers
      /\ cursor.ledger \in -1 .. Len(chain) /\ forks \in Nat /\ limits.old \in Nat
  BY Facts DEF LedgersWereAnswered
<1>6. \A k \in K : k.ledger \in 1 .. Len(chain)
  BY <1>4, <1>5, AnswerShape
<1>7. /\ cursor'.ledger = cursor.ledger
      /\ DOMAIN cursor' = {"ledger", "hash", "parentHash"}
      /\ cursor'.hash = NoHash => cursor'.ledger <= limits.old
  <2>1. CASE cursor' = cursor
    BY <2>1, Facts DEF LedgersWereAnswered
  <2>2. CASE Answer(cursor') /\ cursor'.ledger = cursor.ledger
    BY <2>2, <1>5, AnswerShape
  <2> QED
    BY <2>1, <2>2, <1>3
<1>8. startLedger' \in 1 .. Len(chain) + 1 /\ (cursor.ledger >= 0 => startLedger' - 1 = cursor.ledger)
      /\ (cursor.ledger < 0 => startLedger' - 1 = 0)
  BY <1>1, <1>5 DEF HasCursor
<1>9. IndexerTypeOK'
  <2>1. \A k \in checkpoints' : k.ledger \in 1 .. limits.ledgers
    BY <1>4, <1>5, <1>6 DEF LoopInv, IndexerTypeOK
  <2>2. startLedger' \in 0 .. limits.ledgers + 1 /\ cursor'.ledger \in -1 .. limits.ledgers
    BY <1>5, <1>7, <1>8
  <2> QED
    BY <2>1, <2>2, <1>1, <1>2, <1>3 DEF LoopInv, IndexerTypeOK
<1>10. NothingStepsOver'
  <2>1. \A tx, i : Done(tx, i)' = Done(tx, i)
    BY <1>1 DEF Done
  <2>2. \A k \in checkpoints' : k \in checkpoints \/ ~(k.ledger > limits.old)
    BY <1>4, <1>5, <1>6
  <2> QED
    BY <2>1, <2>2, <1>1, <1>2, Facts DEF NothingStepsOver
<1>11. CheckpointsReachDown'
  <2>1. \A n : Checkpointed(n) => Checkpointed(n)'
    BY <1>4 DEF Checkpointed
  <2>2. ASSUME ~rewound, NEW n \in limits.old + 1 .. cursor.ledger PROVE Checkpointed(n)'
    BY <2>1, <2>2, Facts DEF CheckpointsReachDown
  <2>3. ASSUME NEW n \in limits.old + 1 .. startLedger' - 1 PROVE n \in limits.old + 1 .. cursor.ledger
    <3>1. CASE cursor.ledger >= 0
      BY <3>1, <1>5, <1>8
    <3>2. CASE cursor.ledger < 0
      <4>1. startLedger' - 1 = 0
        BY <3>2, <1>8
      <4>2. n \in limits.old + 1 .. 0
        BY <4>1
      <4> QED
        BY <4>2, <1>5
    <3> QED
      BY <3>1, <3>2, <1>5
  <2>6. PICK p : p = cursor.ledger
    OBVIOUS
  <2>7. ASSUME ~rewound, cursor.hash # NoHash PROVE Checkpointed(p)' \/ reset > 0
    <3>1. Checkpointed(p) \/ reset > 0
      BY <2>6, <2>7, Facts DEF CheckpointsReachDown
    <3> QED
      BY <3>1, <2>1
  <2>4. ASSUME ~rewound, cursor'.hash # NoHash PROVE Checkpointed(cursor.ledger)' \/ reset > 0
    <3>1. CASE cursor' = cursor
      <4>1. Checkpointed(p)' \/ reset > 0
        BY <2>4, <3>1, <2>7
      <4>2. p = cursor'.ledger
        BY <2>6, <3>1
      <4> QED
        BY <4>1, <4>2 DEF Checkpointed
    <3>2. CASE Checkpointed(cursor.ledger)'
      BY <3>2
    <3> QED
      BY <3>1, <3>2, <1>3
  <2>5. ASSUME ~rewound, lastLedger'.hash # NoHash PROVE Checkpointed(lastLedger.ledger)' \/ reset > 0
    <3>1. Checkpointed(p)' \/ reset > 0
      BY <2>5, <2>7, <1>1
    <3>2. p = lastLedger'.ledger
      BY <2>6, <1>1
    <3> QED
      BY <3>1, <3>2 DEF Checkpointed
  <2>8. \A n \in limits.old + 1 .. cursor'.ledger : ~rewound => Checkpointed(n)'
    BY <2>2, <1>7
  <2>9. \A n \in limits.old + 1 .. startLedger' - 1 : ~rewound => Checkpointed(n)'
    BY <2>2, <2>3
  <2>10. \A n \in limits.old + 1 .. lastLedger'.ledger : ~rewound => Checkpointed(n)'
    BY <2>2, <1>1
  <2> QED
    BY <2>4, <2>5, <2>8, <2>9, <2>10, <1>1 DEF CheckpointsReachDown
<1>12. LedgersWereAnswered'
  <2>1. \A k \in checkpoints' \cup coordinates' : Answer(k)'
    BY <1>1, <1>2, <1>4, Facts DEF LedgersWereAnswered
  <2>2. cursor'.ledger \in -1 .. Len(chain)
    BY <1>5, <1>7
  <2>3. /\ DOMAIN lastLedger' = {"ledger", "hash", "parentHash"} /\ lastLedger'.ledger \in -1 .. Len(chain)
        /\ lastLedger'.hash = NoHash => lastLedger'.ledger <= limits.old
    BY <1>1, Facts DEF LedgersWereAnswered
  <2> QED
    BY <2>1, <2>2, <2>3, <1>1, <1>2, <1>7 DEF LedgersWereAnswered
<1>13. RangeIsFetched' /\ RangeIsUnderWay'
  BY <1>1, <1>2, <1>8 DEF RangeIsFetched, RangeIsUnderWay
<1>14. EventsWereEmitted'
  BY <1>1, <1>2, Facts DEF EventsWereEmitted, EventOf
<1> QED
  BY <1>2, <1>9, <1>10, <1>11, <1>12, <1>13, <1>14 DEF LoopInv, CheckpointedIsIndexed

\* A step that leaves chain, tables and history alone keeps what is said of them.
LEMMA TablesFrame ==
    ASSUME LoopInv, UNCHANGED <<network, cursor, checkpoints, rows, published, lost, rewound, limits>>
    PROVE  /\ ChainOK' /\ NothingStepsOver'
           /\ \A n : Checkpointed(n)' = Checkpointed(n)
           /\ \A tx, i : Done(tx, i)' = Done(tx, i)
<1>1. /\ ChainOK' /\ chain' = chain /\ \A k : OnChain(k)' = OnChain(k)
  BY QuietChain, Facts
<1>2. \A tx, i : Done(tx, i)' = Done(tx, i)
  BY DEF Done
<1>3. \A n : Checkpointed(n)' = Checkpointed(n)
  BY DEF Checkpointed
<1> QED
  BY <1>1, <1>2, <1>3, Facts DEF NothingStepsOver

\* Choosing the next range, from the cursor in memory, keeps the invariant.
LEMMA PollInv ==
    ASSUME LoopInv, Poll
    PROVE  LoopInv'
<1>1. /\ pc = "poll"
      /\ UNCHANGED <<network, cursor, checkpoints, rows, holders, supply, lastLedger, startLedger, coordinates,
                     events, pending, published, lost, rewound, reset, limits, faults, restarts>>
  BY DEF Poll, database, history, budget
<1>2. /\ ChainOK' /\ NothingStepsOver' /\ \A n : Checkpointed(n)' = Checkpointed(n)
  BY <1>1, TablesFrame
<1>3. /\ chain' = chain /\ forks' = forks
      /\ \A k : Answer(k)' = Answer(k) /\ OnChain(k)' = OnChain(k)
      /\ \A e : Seen(e)' = Seen(e) /\ WasEmitted(e)' = WasEmitted(e)
  BY <1>1, QuietChain
<1>4. /\ Len(chain) \in Nat /\ limits.ledgers \in Nat /\ Len(chain) <= limits.ledgers
      /\ startLedger \in 1 .. Len(chain) + 1 /\ Batch \in Nat
  BY <1>1, Facts, BoundsAssumption DEF RangeIsFetched
<1>5. \/ pc' = "poll" /\ endLedger' = endLedger
      \/ pc' = "ledgers" /\ endLedger' \in startLedger .. Len(chain)
  <2>1. CASE startLedger > Len(chain)
    BY <2>1, <1>1 DEF Poll, Head0
  <2>2. CASE ~(startLedger > Len(chain))
    <3>1. /\ endLedger' = IF startLedger + Batch < Len(chain) THEN startLedger + Batch ELSE Len(chain)
          /\ pc' = "ledgers"
      BY <2>2 DEF Poll, Head0
    <3>2. endLedger' \in startLedger .. Len(chain)
      BY <3>1, <2>2, <1>4
    <3> QED
      BY <3>1, <3>2
  <2> QED
    BY <2>1, <2>2
<1>6. endLedger' \in 0 .. limits.ledgers
  <2>1. CASE endLedger' = endLedger
    BY <2>1 DEF LoopInv, IndexerTypeOK
  <2>2. CASE endLedger' \in startLedger .. Len(chain)
    BY <2>2, <1>4
  <2> QED
    BY <2>1, <2>2, <1>5
<1>7. IndexerTypeOK'
  BY <1>1, <1>3, <1>5, <1>6 DEF LoopInv, IndexerTypeOK
<1>8. CheckpointsReachDown'
  BY <1>1, <1>2, <1>5, Facts DEF CheckpointsReachDown
<1>9. LedgersWereAnswered'
  BY <1>1, <1>3, Facts DEF LedgersWereAnswered
<1>10. RangeIsFetched'
  BY <1>1, <1>3, <1>4, <1>5 DEF RangeIsFetched
<1>11. EventsWereEmitted' /\ RangeIsUnderWay'
  BY <1>1, <1>3, <1>5, Facts DEF EventsWereEmitted, EventOf, RangeIsUnderWay
<1> QED
  BY <1>2, <1>7, <1>8, <1>9, <1>10, <1>11 DEF LoopInv, CheckpointedIsIndexed

\* A range is taken on only with the coordinates of all its ledgers: a page
\* without the last one has one too few.
LEMMA FullPage ==
    ASSUME LoopInv, pc = "ledgers", NEW got,
           \/ got = getLedgers(startLedger, endLedger)
           \/ got = {k \in getLedgers(startLedger, endLedger) : k.ledger < endLedger},
           Cardinality(got) = endLedger - startLedger + 1
    PROVE  {k.ledger : k \in got} = startLedger .. endLedger
<1>1. /\ Len(chain) \in Nat /\ startLedger \in 1 .. Len(chain) + 1 /\ endLedger \in startLedger .. Len(chain)
  BY Facts DEF RangeIsFetched
<1>2. {n \in startLedger .. endLedger : 1 <= n /\ n <= Len(chain)} = startLedger .. endLedger
  BY <1>1
<1>3. getLedgers(startLedger, endLedger) = {toLedgerCoordinate(n) : n \in startLedger .. endLedger}
  BY <1>2 DEF getLedgers, Head0
<1>4. \A n \in startLedger .. endLedger : toLedgerCoordinate(n).ledger = n
  BY <1>1, CoordinatesAnswer
<1>5. CASE got = getLedgers(startLedger, endLedger)
  BY <1>3, <1>4, <1>5
<1>6. CASE got = {k \in getLedgers(startLedger, endLedger) : k.ledger < endLedger}
  <2> DEFINE Part == startLedger .. endLedger - 1
             f == [n \in Part |-> toLedgerCoordinate(n)]
  <2>1. got \subseteq {f[n] : n \in Part}
    <3> SUFFICES ASSUME NEW k \in got PROVE k \in {f[n] : n \in Part}
      OBVIOUS
    <3>1. PICK n \in startLedger .. endLedger : k = toLedgerCoordinate(n) /\ k.ledger < endLedger
      BY <1>3, <1>6
    <3>2. n \in Part
      BY <3>1, <1>1, <1>4
    <3> QED
      BY <3>1, <3>2
  <2>2. IsFiniteSet(Part) /\ Cardinality(Part) = endLedger - startLedger
    <3>1. startLedger \in Int /\ endLedger - 1 \in Int
      BY <1>1
    <3>2. IsFiniteSet(Part) /\ Cardinality(Part) = IF startLedger > endLedger - 1 THEN 0 ELSE (endLedger - 1) - startLedger + 1
      BY <3>1, FS_Interval
    <3> QED
      BY <3>2, <1>1
  <2>3. /\ IsFiniteSet({f[n] : n \in Part}) /\ Cardinality({f[n] : n \in Part}) <= Cardinality(Part)
    <3>1. f = [n \in Part |-> f[n]]
      OBVIOUS
    <3> HIDE DEF f, Part
    <3>2. PICK I : I = {f[n] : n \in Part}
      OBVIOUS
    <3>3. f \in Surjection(Part, I)
      BY <3>1, <3>2 DEF Surjection
    <3> QED
      BY <3>2, <3>3, <2>2, FS_Surjection
  <2>4. Cardinality(got) <= Cardinality({f[n] : n \in Part})
    <3> HIDE DEF f, Part
    <3> QED
      BY <2>1, <2>3, FS_Subset
  <2>5. Cardinality(got) \in Nat /\ Cardinality({f[n] : n \in Part}) \in Nat
    <3> HIDE DEF f, Part
    <3> QED
      BY <2>1, <2>3, FS_Subset, FS_CardinalityType
  <2> QED
    BY <2>2, <2>3, <2>4, <2>5, <1>1
<1> QED
  BY <1>5, <1>6

\* The answer of getLedgers, whole or partial, keeps the invariant.
LEMMA FetchLedgersInv ==
    ASSUME LoopInv, FetchLedgers
    PROVE  LoopInv'
<1>1. /\ pc = "ledgers"
      /\ UNCHANGED <<network, cursor, checkpoints, rows, holders, supply, lastLedger, startLedger, endLedger,
                     events, pending, published, lost, rewound, reset, limits, restarts>>
  BY DEF FetchLedgers, database, history
<1>2. /\ ChainOK' /\ NothingStepsOver' /\ \A n : Checkpointed(n)' = Checkpointed(n)
  BY <1>1, TablesFrame
<1>3. /\ chain' = chain /\ forks' = forks
      /\ \A k : Answer(k)' = Answer(k) /\ OnChain(k)' = OnChain(k)
      /\ \A e : Seen(e)' = Seen(e) /\ WasEmitted(e)' = WasEmitted(e)
  BY <1>1, QuietChain
<1>4. /\ Len(chain) \in Nat /\ startLedger \in 1 .. Len(chain) + 1 /\ endLedger \in startLedger .. Len(chain)
  BY <1>1, Facts DEF RangeIsFetched
<1>5. PICK missing, got :
        /\ missing \in BOOLEAN
        /\ got = IF missing THEN {k \in getLedgers(startLedger, endLedger) : k.ledger < endLedger}
                 ELSE getLedgers(startLedger, endLedger)
        /\ Partly(missing)
        /\ coordinates' = got
        /\ pc' = IF /\ Cardinality(got) = endLedger - startLedger + 1
                    /\ hasContinuousParentChain(PreviousHash, got)
                 THEN "events"
                 ELSE IF HasCursor(lastLedger) THEN "reconcile" ELSE "poll"
  BY DEF FetchLedgers
<1>6. \A k \in coordinates' : Answer(k)
  BY <1>4, <1>5, LedgersInRange
<1>7. pc' = "events" => {k.ledger : k \in coordinates'} = startLedger .. endLedger
  BY <1>1, <1>5, FullPage
<1>8. pc' \in {"events", "reconcile", "poll"}
  BY <1>5
<1>9. faults' \in 0 .. limits.faults
  BY <1>5, PartlyType
<1>10. IndexerTypeOK'
  BY <1>1, <1>3, <1>8, <1>9 DEF LoopInv, IndexerTypeOK
<1>11. CheckpointsReachDown'
  BY <1>1, <1>2, <1>8, Facts DEF CheckpointsReachDown
<1>12. LedgersWereAnswered'
  BY <1>1, <1>3, <1>6, Facts DEF LedgersWereAnswered
<1>13. RangeIsFetched'
  BY <1>1, <1>3, <1>4, <1>7, <1>8 DEF RangeIsFetched
<1>14. EventsWereEmitted' /\ RangeIsUnderWay'
  BY <1>1, <1>3, <1>8, Facts DEF EventsWereEmitted, EventOf, RangeIsUnderWay
<1> QED
  BY <1>2, <1>10, <1>11, <1>12, <1>13, <1>14 DEF LoopInv, CheckpointedIsIndexed
----------------------------------------------------------------------------
(* Reconciling *)

\* Among ledgers with bounded numbers there is a last one.
LEMMA LastLedger ==
    ASSUME NEW N \in Nat, NEW C, C # {}, \A k \in C : k.ledger \in 1 .. N
    PROVE  \E k \in C : \A o \in C : o.ledger <= k.ledger
<1> SUFFICES ASSUME \A k \in C : \E o \in C : ~(o.ledger <= k.ledger)
             PROVE  FALSE
  OBVIOUS
<1> DEFINE G == {n \in 0 .. N : \E k \in C : k.ledger >= n}
<1>1. 0 \in G
  <2>1. PICK k \in C : TRUE
    OBVIOUS
  <2>2. k.ledger >= 0
    BY <2>1
  <2> QED
    BY <2>2
<1>2. ASSUME NEW n \in 0 .. N - 1, n \in G PROVE n + 1 \in G
  <2>1. PICK k \in C : k.ledger >= n
    BY <1>2
  <2>2. PICK o \in C : ~(o.ledger <= k.ledger)
    OBVIOUS
  <2>3. o.ledger \in 1 .. N /\ k.ledger \in 1 .. N
    OBVIOUS
  <2>4. o.ledger >= n + 1 /\ n + 1 \in 0 .. N
    BY <2>1, <2>2, <2>3
  <2> QED
    BY <2>4
<1>3. N \in G
  <2>1. \A n \in 0 .. N : n \in G
    <3> HIDE DEF G
    <3> QED
      BY <1>1, <1>2, UpToN
  <2> QED
    BY <2>1
<1>4. PICK k \in C : k.ledger >= N
  BY <1>3
<1>5. PICK o \in C : ~(o.ledger <= k.ledger)
  OBVIOUS
<1>6. o.ledger \in 1 .. N /\ k.ledger \in 1 .. N
  OBVIOUS
<1> QED
  BY <1>4, <1>5, <1>6

\* The ledgers that are scanned are such that the RPC answers with.
LEMMA ScannedAnswers ==
    ASSUME LoopInv
    PROVE  \A k \in Scanned(lastLedger) : Answer(k)
<1>1. lastLedger.ledger \in Int /\ Lookback \in Nat
  BY Facts, BoundsAssumption DEF LedgersWereAnswered
<1>2. PICK first : first = scanStart(lastLedger)
  OBVIOUS
<1>3. first \in Int /\ first + Lookback - 1 \in Int
  BY <1>1, <1>2 DEF scanStart
<1> QED
  BY <1>2, <1>3, LedgersInRange DEF Scanned

\* The ledger a rewind goes back to is one the RPC has answered with.
LEMMA CommonWasAnswered ==
    ASSUME LoopInv, NEW remote, \A k \in remote : Answer(k)
    PROVE  \/ Reconciliation(lastLedger, remote).common = NoCursor
           \/ Answer(Reconciliation(lastLedger, remote).common)
<1>1. PICK c : c = lastLedger
  OBVIOUS
<1>2. c.ledger \in Int /\ Lookback \in Nat /\ forks \in Nat /\ Len(chain) \in Nat
  BY <1>1, Facts, BoundsAssumption DEF LedgersWereAnswered
<1> DEFINE persisted == {k \in checkpoints : scanStart(c) <= k.ledger /\ k.ledger <= c.ledger}
           wrong == persisted \ remote
           good == {k \in persisted : \A w \in wrong : k.ledger < w.ledger}
           cursorWrong == /\ c.hash # NoHash
                          /\ \A r \in remote : r.ledger = c.ledger =>
                               r.hash # c.hash \/ (c.parentHash # NoHash /\ r.parentHash # c.parentHash)
           parent == {r \in remote : r.ledger = c.ledger - 1 /\ r.hash = c.parentHash}
           common == IF persisted # {} THEN good ELSE IF cursorWrong THEN parent ELSE {}
<1>3. Reconciliation(lastLedger, remote).common =
        IF common = {} THEN NoCursor ELSE CHOOSE k \in common : \A o \in common : o.ledger <= k.ledger
  BY <1>1 DEF Reconciliation
<1>5. \A k \in remote : Answer(k)
  OBVIOUS
<1>6. \A k \in persisted : Answer(k)
  BY Facts DEF LedgersWereAnswered
<1>7. \A k \in common : Answer(k)
  <2>1. good \subseteq persisted /\ parent \subseteq remote
    OBVIOUS
  <2>2. common \in {good, parent, {}}
    OBVIOUS
  <2> HIDE DEF good, parent, common, persisted
  <2> QED
    BY <2>1, <2>2, <1>5, <1>6
<1> HIDE DEF common
<1>8. CASE common # {}
  <2>1. \A k \in common : k.ledger \in 1 .. Len(chain)
    BY <1>2, <1>7, AnswerShape
  <2>2. \E k \in common : \A o \in common : o.ledger <= k.ledger
    BY <1>2, <1>8, <2>1, LastLedger
  <2>3. (CHOOSE k \in common : \A o \in common : o.ledger <= k.ledger) \in common
    BY <2>2
  <2> QED
    BY <2>3, <1>3, <1>7, <1>8
<1> QED
  BY <1>3, <1>8

\* Comparing the hashes, pruning and rewinding keep the invariant.
LEMMA ReconcileInv ==
    ASSUME LoopInv, reconcileLedgerCursor
    PROVE  LoopInv'
<1>1. /\ pc = "reconcile" /\ pc' = "poll"
      /\ UNCHANGED <<network, holders, supply, lastLedger, startLedger, endLedger, coordinates, events, pending,
                     published, reset, limits, restarts>>
  BY DEF reconcileLedgerCursor, local
<1>2. /\ chain' = chain /\ forks' = forks /\ ChainOK'
      /\ \A k : Answer(k)' = Answer(k) /\ OnChain(k)' = OnChain(k)
      /\ \A e : Seen(e)' = Seen(e) /\ WasEmitted(e)' = WasEmitted(e)
  BY <1>1, QuietChain, Facts
<1>3. Len(chain) \in Nat /\ forks \in Nat /\ limits.ledgers \in Nat /\ Len(chain) \in 1 .. limits.ledgers
  BY Facts
<1>13. faults' \in 0 .. limits.faults
  <2>1. CASE faults' = faults
    BY <2>1, <1>1 DEF LoopInv, IndexerTypeOK
  <2>2. CASE \E partial : Partly(partial)
    BY <2>2, PartlyType
  <2> QED
    BY <2>1, <2>2 DEF reconcileLedgerCursor
<1>14. ASSUME NEW remote, \A k \in remote : Answer(k), Rewind(Reconciliation(lastLedger, remote).common)
       PROVE  \E n \in Int :
                /\ rows' = {r \in rows : r.family \notin TokenFamilies \/ r.ledger <= n}
                /\ checkpoints' = {k \in checkpoints : k.ledger <= n}
                /\ rewound' = TRUE
                /\ lost' = lost \cup {<<r.tx, r.index>> : r \in
                        {q \in rows \ rows' : \E m \in DOMAIN chain : m <= n /\ chain[m].tx = q.tx}}
                /\ \/ Answer(cursor')
                   \/ cursor' = [ledger |-> 0, hash |-> NoHash, parentHash |-> NoHash]
  <2>1. PICK common : common = Reconciliation(lastLedger, remote).common
    OBVIOUS
  <2>2. PICK n : n = IF HasCursor(common) THEN common.ledger ELSE 0
    OBVIOUS
  <2>3. common = NoCursor \/ Answer(common)
    BY <1>14, <2>1, CommonWasAnswered
  <2>4. ~HasCursor(NoCursor)
    BY DEF HasCursor, NoCursor
  <2>5. Answer(common) => common.ledger \in 1 .. Len(chain)
    BY <1>3, AnswerShape
  <2>6. n \in Int
    BY <2>2, <2>3, <2>4, <2>5
  <2>7. /\ rows' = {r \in rows : r.family \notin TokenFamilies \/ r.ledger <= n}
        /\ checkpoints' = {k \in checkpoints : k.ledger <= n}
        /\ cursor' = IF HasCursor(common) THEN common ELSE [NoCursor EXCEPT !.ledger = 0]
        /\ lost' = lost \cup {<<r.tx, r.index>> : r \in
                {q \in rows \ rows' : \E m \in DOMAIN chain : m <= n /\ chain[m].tx = q.tx}}
        /\ rewound' = TRUE
    BY <1>14, <2>1, <2>2 DEF Rewind
  <2>8. [NoCursor EXCEPT !.ledger = 0] = [ledger |-> 0, hash |-> NoHash, parentHash |-> NoHash]
    BY DEF NoCursor
  <2>9. Answer(cursor') \/ cursor' = [ledger |-> 0, hash |-> NoHash, parentHash |-> NoHash]
    BY <2>3, <2>4, <2>7, <2>8
  <2> QED
    BY <2>6, <2>7, <2>9
<1>4. PICK n \in Int :
        \/ UNCHANGED <<rows, checkpoints, cursor, lost, rewound>>
        \/ /\ rows' = {r \in rows : r.family \notin TokenFamilies \/ r.ledger <= n}
           /\ checkpoints' = {k \in checkpoints : k.ledger <= n}
           /\ rewound' = TRUE
           /\ lost' = lost \cup {<<r.tx, r.index>> : r \in
                   {q \in rows \ rows' : \E m \in DOMAIN chain : m <= n /\ chain[m].tx = q.tx}}
           /\ \/ Answer(cursor')
              \/ cursor' = [ledger |-> 0, hash |-> NoHash, parentHash |-> NoHash]
  <2>1. CASE UNCHANGED <<rows, checkpoints, cursor, lost, rewound>>
    BY <2>1
  <2>2. PICK last \in 0 .. Head0 :
          \/ UNCHANGED <<rows, checkpoints, cursor, lost, rewound>>
          \/ Rewind(Reconciliation(lastLedger, {k \in Scanned(lastLedger) : k.ledger <= last}).common)
    BY DEF reconcileLedgerCursor
  <2>3. PICK remote : remote = {k \in Scanned(lastLedger) : k.ledger <= last}
    OBVIOUS
  <2>4. \A k \in remote : Answer(k)
    BY <2>3, ScannedAnswers
  <2>5. CASE Rewind(Reconciliation(lastLedger, remote).common)
    BY <1>14, <2>4, <2>5
  <2> QED
    BY <2>1, <2>2, <2>3, <2>5
<1>5. rows' \subseteq rows /\ checkpoints' \subseteq checkpoints /\ lost \subseteq lost'
  BY <1>4
<1>6. /\ DOMAIN cursor' = {"ledger", "hash", "parentHash"} /\ cursor'.ledger \in -1 .. Len(chain)
      /\ cursor'.hash = NoHash => cursor'.ledger <= limits.old
  <2>1. CASE cursor' = cursor
    BY <2>1, Facts DEF LedgersWereAnswered
  <2>2. CASE Answer(cursor')
    <3>1. cursor'.ledger \in 1 .. Len(chain) /\ cursor'.hash # NoHash
          /\ DOMAIN cursor' = {"ledger", "hash", "parentHash"}
      BY <2>2, <1>3, AnswerShape
    <3> QED
      BY <3>1, <1>3
  <2>3. CASE cursor' = [ledger |-> 0, hash |-> NoHash, parentHash |-> NoHash]
    <3>1. cursor'.ledger = 0 /\ DOMAIN cursor' = {"ledger", "hash", "parentHash"}
      BY <2>3
    <3> QED
      BY <3>1, <1>3, Facts
  <2> QED
    BY <2>1, <2>2, <2>3, <1>4
<1>7. IndexerTypeOK'
  <2>1. IsFiniteSet(rows')
    BY <1>5, FS_Subset DEF LoopInv, IndexerTypeOK
  <2>2. cursor'.ledger \in -1 .. limits.ledgers
    BY <1>3, <1>6
  <2> QED
    BY <2>1, <2>2, <1>1, <1>2, <1>5, <1>13 DEF LoopInv, IndexerTypeOK
<1>8. NothingStepsOver'
  <2>1. ASSUME NEW k \in checkpoints', k.ledger > limits.old, OnChain(k),
               NEW tx, tx = chain[k.ledger].tx, tx # NoTx, NEW i \in DOMAIN EventsOf[tx]
        PROVE  Done(tx, i)'
    <3>1. Done(tx, i)
      BY <2>1, <1>5, Facts DEF NothingStepsOver
    <3>2. CASE Family(EventsOf[tx][i].topic) = "none" \/ <<tx, i>> \in lost
      BY <3>2, <1>5 DEF Done
    <3>3. CASE \E r \in rows : r.tx = tx /\ r.index = i
      <4>1. PICK r \in rows : r.tx = tx /\ r.index = i
        BY <3>3
      <4>2. CASE r \in rows'
        BY <4>1, <4>2 DEF Done
      <4>3. CASE r \notin rows'
        <5>1. Answer(k)
          BY <2>1, <1>5, Facts DEF LedgersWereAnswered
        <5>2. k.ledger \in DOMAIN chain
          BY <5>1, <1>3, AnswerShape, Facts
        <5>3. /\ checkpoints' = {q \in checkpoints : q.ledger <= n}
              /\ lost' = lost \cup {<<q.tx, q.index>> : q \in
                   {q \in rows \ rows' : \E m \in DOMAIN chain : m <= n /\ chain[m].tx = q.tx}}
          BY <4>3, <1>4
        <5>4. k.ledger <= n /\ chain[k.ledger].tx = r.tx
          BY <2>1, <4>1, <5>3
        <5>5. <<r.tx, r.index>> \in lost'
          BY <4>3, <5>2, <5>3, <5>4
        <5> QED
          BY <4>1, <5>5 DEF Done
      <4> QED
        BY <4>2, <4>3
    <3> QED
      BY <3>1, <3>2, <3>3 DEF Done
  <2> QED
    BY <2>1, <1>1, <1>2 DEF NothingStepsOver
<1>9. CheckpointsReachDown'
  <2>1. CASE UNCHANGED <<rows, checkpoints, cursor, lost, rewound>>
    <3>1. \A m : Checkpointed(m)' = Checkpointed(m)
      BY <2>1 DEF Checkpointed
    <3> QED
      BY <2>1, <3>1, <1>1, Facts DEF CheckpointsReachDown
  <2>2. CASE rewound' = TRUE
    BY <2>2 DEF CheckpointsReachDown
  <2> QED
    BY <2>1, <2>2, <1>4
<1>10. LedgersWereAnswered'
  <2>1. \A k \in checkpoints' \cup coordinates' : Answer(k)'
    BY <1>1, <1>2, <1>5, Facts DEF LedgersWereAnswered
  <2>2. /\ DOMAIN lastLedger' = {"ledger", "hash", "parentHash"} /\ lastLedger'.ledger \in -1 .. Len(chain)
        /\ lastLedger'.hash = NoHash => lastLedger'.ledger <= limits.old
    BY <1>1, Facts DEF LedgersWereAnswered
  <2> QED
    BY <2>1, <2>2, <1>1, <1>2, <1>6 DEF LedgersWereAnswered
<1>11. RangeIsFetched' /\ RangeIsUnderWay'
  BY <1>1, <1>2, Facts DEF RangeIsFetched, RangeIsUnderWay
<1>12. EventsWereEmitted'
  <2>1. ~rewound' => rows' = rows /\ ~rewound
    BY <1>4
  <2> QED
    BY <2>1, <1>1, <1>2, <1>5, Facts DEF EventsWereEmitted, EventOf
<1> QED
  BY <1>2, <1>7, <1>8, <1>9, <1>10, <1>11, <1>12 DEF LoopInv, CheckpointedIsIndexed
----------------------------------------------------------------------------
(* Fetching the events *)

\* The supply an event reports is a number: finitely many mints and burns
\* precede it.
LEMMA SupplyEventsFinite ==
    ASSUME ChainOK, NEW n \in DOMAIN chain, NEW i
    PROVE  /\ IsFiniteSet(SupplyEvents(n, i))
           /\ \A e \in SupplyEvents(n, i) :
                \E m \in 1 .. n : /\ chain[m].tx # NoTx /\ e[1] = chain[m].tx /\ e = <<e[1], e[2]>>
                                  /\ e[1] \in Txs /\ e[2] \in DOMAIN EventsOf[e[1]]
<1>1. chain \in Seq(Block)
  BY DEF ChainOK, Block
<1>2. n \in Nat /\ \A m \in 1 .. n : chain[m] \in Block
  BY <1>1
<1> DEFINE M == {m \in 1 .. n : chain[m].tx # NoTx}
           F == [m \in M |-> {chain[m].tx} \X DOMAIN EventsOf[chain[m].tx]]
<1>3. \A m \in M : chain[m].tx \in Txs
  BY <1>2 DEF Block
<1>4. SupplyEvents(n, i) \subseteq UNION {F[m] : m \in M}
  BY DEF SupplyEvents
<1>5. IsFiniteSet(M)
  <2>1. IsFiniteSet(1 .. n)
    BY <1>2, FS_Interval
  <2> QED
    BY <2>1, FS_Subset
<1>6. \A m \in M : IsFiniteSet(F[m])
  <2> SUFFICES ASSUME NEW m \in M PROVE IsFiniteSet(F[m])
    OBVIOUS
  <2>1. PICK tx \in Txs : tx = chain[m].tx
    BY <1>3
  <2>2. EventsOf[tx] \in Seq(Emitted)
    BY <2>1, ChainAssumption
  <2>3. PICK L \in Nat : DOMAIN EventsOf[tx] = 1 .. L
    BY <2>2
  <2>4. IsFiniteSet({tx}) /\ IsFiniteSet(1 .. L)
    <3>1. IsFiniteSet({tx})
      BY FS_Singleton
    <3>2. IsFiniteSet(1 .. L)
      BY FS_Interval
    <3> QED
      BY <3>1, <3>2
  <2>5. F[m] = {tx} \X (1 .. L)
    BY <2>1, <2>3
  <2> QED
    BY <2>4, <2>5, FS_Product
<1>7. IsFiniteSet({F[m] : m \in M})
  <2>1. F = [m \in M |-> F[m]]
    OBVIOUS
  <2> HIDE DEF F, M
  <2>2. PICK I : I = {F[m] : m \in M}
    OBVIOUS
  <2>3. F \in Surjection(M, I)
    BY <2>1, <2>2 DEF Surjection
  <2> QED
    BY <2>2, <2>3, <1>5, FS_Surjection
<1>8. IsFiniteSet(UNION {F[m] : m \in M})
  <2>1. PICK I : I = {F[m] : m \in M}
    OBVIOUS
  <2>2. \A T \in I : IsFiniteSet(T)
    BY <2>1, <1>6
  <2> HIDE DEF F, M
  <2> QED
    BY <2>1, <2>2, <1>7, FS_UNION
<1>9. IsFiniteSet(SupplyEvents(n, i))
  BY <1>4, <1>8, FS_Subset
<1>10. ASSUME NEW e \in SupplyEvents(n, i)
       PROVE  \E m \in 1 .. n : /\ chain[m].tx # NoTx /\ e[1] = chain[m].tx /\ e = <<e[1], e[2]>>
                                /\ e[1] \in Txs /\ e[2] \in DOMAIN EventsOf[e[1]]
  <2>1. PICK m \in M : e \in F[m]
    BY <1>4
  <2>2. PICK tx \in Txs : tx = chain[m].tx
    BY <1>3
  <2>3. e \in {tx} \X DOMAIN EventsOf[tx]
    BY <2>1, <2>2
  <2>4. e = <<e[1], e[2]>> /\ e[1] = tx /\ e[2] \in DOMAIN EventsOf[tx]
    BY <2>3
  <2>5. m \in 1 .. n /\ chain[m].tx # NoTx
    OBVIOUS
  <2> QED
    BY <2>2, <2>4, <2>5
<1> QED
  BY <1>9, <1>10

\* What a transaction's event carries.
LEMMA EventShape ==
    ASSUME NEW tx \in Txs, NEW i \in DOMAIN EventsOf[tx]
    PROVE  /\ EventsOf[tx][i] \in Emitted /\ i \in Nat
           /\ supplyDeltaFor(EventsOf[tx][i]) \in Int
<1>1. EventsOf[tx] \in Seq(Emitted)
  BY ChainAssumption
<1>2. EventsOf[tx][i] \in Emitted /\ i \in Nat
  BY <1>1
<1>3. EventsOf[tx][i].amount \in Int
  BY <1>2 DEF Emitted
<1>4. supplyDeltaFor(EventsOf[tx][i]) \in Int
  BY <1>3 DEF supplyDeltaFor
<1> QED
  BY <1>2, <1>4

\* The supply the token reports after an event is a number.
LEMMA SupplyIsNumber ==
    ASSUME ChainOK, NEW n \in DOMAIN chain, NEW i
    PROVE  SupplyOf(SupplyEvents(n, i)) \in Int
<1>1. PICK S : S = SupplyEvents(n, i)
  OBVIOUS
<1>2. IsFiniteSet(S) /\ \A e \in S : e[1] \in Txs /\ e[2] \in DOMAIN EventsOf[e[1]]
  BY <1>1, SupplyEventsFinite
<1> DEFINE f == [e \in S |-> supplyDeltaFor(EventsOf[e[1]][e[2]])]
<1>3. \A e \in S : f[e] \in Int
  BY <1>2, EventShape
<1>4. DOMAIN f = S /\ SupplyOf(S) = SumFunction(f)
  BY DEF SupplyOf
<1> HIDE DEF f
<1>5. SumFunction(f) = SumFunctionOnSet(f, S)
  BY <1>4 DEF SumFunction
<1> QED
  BY <1>1, <1>2, <1>3, <1>4, <1>5, SumType

\* The first page of an answer is the beginning of it, up to the limit.
LEMMA PageOfAnswer ==
    ASSUME NEW all, all \in Seq(Range(all))
    PROVE  /\ FirstPage(all) \in Seq(Range(FirstPage(all)))
           /\ DOMAIN FirstPage(all) \subseteq DOMAIN all
           /\ \A j \in DOMAIN FirstPage(all) : FirstPage(all)[j] = all[j]
           /\ \A j \in DOMAIN all : j \in DOMAIN FirstPage(all) \/ j > PageLimit
           /\ \E n \in Nat : DOMAIN FirstPage(all) = 1 .. n
<1>1. PICK n : n = IF Len(all) < PageLimit THEN Len(all) ELSE PageLimit
  OBVIOUS
<1>2. Len(all) \in Nat /\ DOMAIN all = 1 .. Len(all) /\ PageLimit \in Nat
  BY BoundsAssumption
<1>3. n \in Nat /\ n <= Len(all) /\ (n = Len(all) \/ n = PageLimit)
  BY <1>1, <1>2
<1>4. FirstPage(all) = [j \in 1 .. n |-> all[j]]
  BY <1>1 DEF FirstPage
<1>5. PICK page : page = FirstPage(all)
  OBVIOUS
<1>6. DOMAIN page = 1 .. n /\ \A j \in 1 .. n : page[j] = all[j]
  BY <1>4, <1>5
<1>7. page \in [1 .. n -> Range(page)]
  BY <1>4, <1>5 DEF Range
<1>8. page \in Seq(Range(page))
  BY <1>3, <1>7
<1>11. PICK len \in Nat : len = Len(all)
  BY <1>2
<1>12. DOMAIN all = 1 .. len /\ n \in Nat /\ n <= len /\ (n = len \/ n = PageLimit) /\ PageLimit \in Nat
  BY <1>2, <1>3, <1>11
<1>9. \A j \in DOMAIN all : j \in 1 .. n \/ j > PageLimit
  <2>1. \A j \in 1 .. len : j \in 1 .. n \/ j > PageLimit
    BY ONLY <1>11, <1>12
  <2> QED
    BY <2>1, <1>12
<1>10. 1 .. n \subseteq DOMAIN all
  <2>1. 1 .. n \subseteq 1 .. len
    BY ONLY <1>11, <1>12
  <2> QED
    BY <2>1, <1>12
<1> QED
  BY <1>3, <1>5, <1>6, <1>8, <1>9, <1>10

\* Fetching the events of exactly the range that is then committed keeps it.
LEMMA FetchEventsInv ==
    ASSUME LoopInv, FetchEvents
    PROVE  LoopInv'
<1>13. PICK all : all = getEvents(startLedger, endLedger)
  OBVIOUS
<1>1. /\ pc = "events" /\ pc' = "process" /\ events' = FirstPage(all) /\ lost' = lost \cup BeyondPage(all)
      /\ UNCHANGED <<network, cursor, checkpoints, rows, holders, supply, lastLedger, startLedger, endLedger,
                     coordinates, pending, published, rewound, reset, limits, faults, restarts>>
  BY <1>13 DEF FetchEvents, database, budget
<1>3. /\ chain' = chain /\ forks' = forks /\ ChainOK'
      /\ \A k : Answer(k)' = Answer(k) /\ OnChain(k)' = OnChain(k)
      /\ \A e : Seen(e)' = Seen(e) /\ WasEmitted(e)' = WasEmitted(e)
  BY <1>1, QuietChain, Facts
<1>2. /\ ChainOK' /\ NothingStepsOver' /\ \A n : Checkpointed(n)' = Checkpointed(n)
      /\ \A tx, i : Done(tx, i) => Done(tx, i)'
  <2>1. \A tx, i : Done(tx, i) => Done(tx, i)'
    BY <1>1 DEF Done
  <2>2. \A n : Checkpointed(n)' = Checkpointed(n)
    BY <1>1 DEF Checkpointed
  <2>3. NothingStepsOver'
    BY <2>1, <1>1, <1>3, Facts DEF NothingStepsOver
  <2> QED
    BY <2>1, <2>2, <2>3, <1>3
<1>4. /\ Len(chain) \in Nat /\ startLedger \in 1 .. Len(chain) + 1 /\ endLedger \in startLedger .. Len(chain)
      /\ {k.ledger : k \in coordinates} = startLedger .. endLedger
  BY <1>1, Facts DEF RangeIsFetched
<1>5. endLedger \in DOMAIN chain /\ startLedger \in 1 .. endLedger
  BY <1>4, Facts
<1>6. Gathered(all, startLedger, endLedger)
  BY <1>5, <1>13, RangeEvents, Facts
<1>14. all \in Seq(Range(all))
  BY <1>6 DEF Gathered
<1>15. /\ events' \in Seq(Range(events')) /\ DOMAIN events' \subseteq DOMAIN all
       /\ \A j \in DOMAIN events' : events'[j] = all[j]
       /\ \A j \in DOMAIN all : j \in DOMAIN events' \/ j > PageLimit
  BY <1>1, <1>14, PageOfAnswer
<1>16. ASSUME NEW j \in DOMAIN all PROVE WasEmitted(all[j]) /\ all[j].newSupply \in Int
  <2>1. PICK m \in startLedger .. endLedger : Placed(all[j], m)
    BY <1>6 DEF Gathered
  <2>2. m \in DOMAIN chain
    BY <1>4, Facts
  <2> QED
    BY <2>1, <2>2, SupplyIsNumber, Facts DEF Placed
<1>7. ASSUME NEW j \in DOMAIN events' PROVE WasEmitted(events'[j]) /\ events'[j].newSupply \in Int
  BY <1>15, <1>16
<1>8. IndexerTypeOK'
  BY <1>1, <1>3, <1>15 DEF LoopInv, IndexerTypeOK
<1>9. CheckpointsReachDown'
  BY <1>1, <1>2, Facts DEF CheckpointsReachDown
<1>10. LedgersWereAnswered' /\ RangeIsFetched'
  BY <1>1, <1>3, <1>4, Facts DEF LedgersWereAnswered, RangeIsFetched
<1>11. EventsWereEmitted'
  <2>1. (\A j \in DOMAIN events : WasEmitted(events[j]) /\ events[j].newSupply \in Int)'
    BY <1>3, <1>7
  <2> QED
    BY <2>1, <1>1, <1>3, Facts DEF EventsWereEmitted, EventOf
<1>12. RangeIsUnderWay'
  <2>1. ASSUME NEW k \in coordinates, NEW tx, tx = chain[k.ledger].tx, tx # NoTx, NEW i \in DOMAIN EventsOf[tx]
        PROVE  Done(tx, i)' \/ \E j \in DOMAIN events' : events'[j].tx = tx /\ events'[j].index = i
    <3>1. k.ledger \in startLedger .. endLedger
      BY <1>4
    <3>2. PICK j \in DOMAIN all : all[j].tx = tx /\ all[j].index = i
      BY <2>1, <3>1, <1>6 DEF Gathered
    <3>3. CASE j \in DOMAIN events'
      BY <3>2, <3>3, <1>15
    <3>4. CASE j > PageLimit
      <4>1. all[j].topic = EventsOf[tx][i].topic
        <5>1. WasEmitted(all[j]) /\ EventOf(all[j]) = EventsOf[tx][i]
          BY <3>2, <1>16 DEF EventOf
        <5>2. tx \in Txs /\ i \in DOMAIN EventsOf[tx]
          BY <3>2, <5>1 DEF WasEmitted, Seen
        <5>3. EventsOf[tx][i] \in Emitted
          BY <5>2, EventShape
        <5>4. "topic" \in DOMAIN EventsOf[tx][i]
          BY <5>3 DEF Emitted
        <5> QED
          BY <5>1, <5>4 DEF WasEmitted
      <4>2. CASE Family(all[j].topic) = "none"
        BY <4>1, <4>2 DEF Done
      <4>3. CASE SameEvent(all[j])
        BY <3>2, <4>3, <1>1 DEF SameEvent, Done
      <4>4. CASE Family(all[j].topic) # "none" /\ ~SameEvent(all[j])
        <5>1. <<all[j].tx, all[j].index>> \in BeyondPage(all)
          BY <3>4, <4>4 DEF BeyondPage
        <5> QED
          BY <3>2, <5>1, <1>1 DEF Done
      <4> QED
        BY <4>2, <4>3, <4>4
    <3> QED
      BY <3>3, <3>4, <1>15
  <2> QED
    BY <2>1, <1>1, <1>3 DEF RangeIsUnderWay
<1> QED
  BY <1>2, <1>8, <1>9, <1>10, <1>11, <1>12 DEF LoopInv, CheckpointedIsIndexed
----------------------------------------------------------------------------
(* Processing an event *)

\* The table of an event that some case handles.
LEMMA FamilyIsTable ==
    ASSUME NEW topic, Family(topic) # "none"
    PROVE  Family(topic) \in TokenFamilies \cup OtherFamilies
BY DEF Family, TokenFamilies, OtherFamilies, SupplyTopics, TransferTopics

\* The first event under way, and what is left after it.
LEMMA HeadAndTail ==
    ASSUME NEW s, s \in Seq(Range(s)), s # <<>>
    PROVE  /\ 1 \in DOMAIN s /\ Head(s) = s[1]
           /\ Tail(s) \in Seq(Range(Tail(s)))
           /\ \A j \in DOMAIN Tail(s) : j + 1 \in DOMAIN s /\ Tail(s)[j] = s[j + 1]
           /\ \A j \in DOMAIN s : j = 1 \/ (j - 1 \in DOMAIN Tail(s) /\ Tail(s)[j - 1] = s[j])
<1>1. PICK S : S = Range(s)
  OBVIOUS
<1>2. s \in Seq(S)
  BY <1>1
<1>3. PICK L \in Nat : Len(s) = L /\ L > 0 /\ DOMAIN s = 1 .. L
  BY <1>2
<1>4. PICK t : t = Tail(s)
  OBVIOUS
<1>5. Len(t) = L - 1 /\ t \in Seq(S) /\ \A j \in 1 .. L - 1 : t[j] = s[j + 1]
  BY <1>2, <1>3, <1>4
<1>6. DOMAIN t = 1 .. L - 1
  BY <1>3, <1>5
<1>7. t \in Seq(Range(t))
  <2>1. PICK K \in Nat : K = L - 1
    BY <1>3
  <2>2. t \in Seq(S) /\ DOMAIN t = 1 .. K
    BY <2>1, <1>5, <1>6
  <2> QED
    BY <2>2 DEF Range
<1>8. Head(s) = s[1] /\ 1 \in DOMAIN s
  BY <1>2, <1>3
<1>9. \A j \in DOMAIN t : j + 1 \in DOMAIN s /\ t[j] = s[j + 1]
  BY <1>3, <1>5, <1>6
<1>10. ASSUME NEW j \in DOMAIN s, j # 1 PROVE j - 1 \in DOMAIN t /\ t[j - 1] = s[j]
  <2>1. j - 1 \in 1 .. L - 1 /\ (j - 1) + 1 = j
    BY <1>3, <1>10
  <2> QED
    BY <2>1, <1>5, <1>6
<1> QED
  BY <1>4, <1>7, <1>8, <1>9, <1>10

\* What processEvent may do with an event.
Drops(ev) ==
    /\ UNCHANGED <<rows, holders, supply, pc, pending>>
    /\ lost' \in {lost, lost \cup {<<ev.tx, ev.index>>}} /\ faults' \in {faults, faults + 1}
    /\ faults' = faults + 1 => faults < limits.faults
    /\ Family(ev.topic) = "none" \/ SameEvent(ev) \/ <<ev.tx, ev.index>> \in lost'
Stores(ev) ==
    /\ Family(ev.topic) # "none" /\ ~Stored(ev) /\ Persist(ev)
    /\ pending' = <<ev>> /\ pc' = "publish" /\ UNCHANGED <<lost, faults>>

\* processEvent takes one event and either drops it, writing down that it was
\* lost if it was, or stores its row with the aggregates.
LEMMA ProcessStep ==
    ASSUME LoopInv, processEvent
    PROVE  /\ pc = "process" /\ events # <<>> /\ events' = Tail(events)
           /\ UNCHANGED <<network, cursor, checkpoints, lastLedger, startLedger, endLedger, coordinates,
                          published, rewound, reset, limits, restarts>>
           /\ 1 \in DOMAIN events /\ WasEmitted(events[1]) /\ events[1].newSupply \in Int
           /\ Drops(events[1]) \/ Stores(events[1])
<1>1. /\ pc = "process" /\ events # <<>> /\ events' = Tail(events)
      /\ UNCHANGED <<network, cursor, checkpoints, lastLedger, startLedger, endLedger, coordinates,
                     published, rewound, reset, limits, restarts>>
  BY DEF processEvent
<1>2. 1 \in DOMAIN events /\ Head(events) = events[1]
  BY <1>1, HeadAndTail DEF LoopInv, IndexerTypeOK
<1>3. WasEmitted(events[1]) /\ events[1].newSupply \in Int
  BY <1>2, Facts DEF EventsWereEmitted
<1>4. PICK ev : ev = events[1]
  OBVIOUS
<1>5. faults \in Int
  BY Facts DEF LoopInv, IndexerTypeOK
<1>6. \/ Family(ev.topic) = "none" /\ UNCHANGED <<rows, holders, supply, pc, pending, lost, faults>>
      \/ Family(ev.topic) # "none" /\ Stored(ev) /\ Skipped(ev)
      \/ /\ Family(ev.topic) # "none" /\ faults < limits.faults
         /\ faults' = faults + 1
         /\ lost' = lost \cup {<<ev.tx, ev.index>>}
         /\ UNCHANGED <<rows, holders, supply, pc, pending>>
      \/ /\ Family(ev.topic) # "none" /\ ~Stored(ev)
         /\ Persist(ev)
         /\ pending' = <<ev>>
         /\ pc' = "publish"
         /\ UNCHANGED <<lost, faults>>
  BY <1>2, <1>4 DEF processEvent
<1>7. Drops(ev) \/ Stores(ev)
  <2>1. CASE Family(ev.topic) = "none" /\ UNCHANGED <<rows, holders, supply, pc, pending, lost, faults>>
    BY <2>1, <1>5 DEF Drops
  <2>2. CASE Family(ev.topic) # "none" /\ Stored(ev) /\ Skipped(ev)
    BY <2>2, <1>5 DEF Drops, Skipped
  <2>3. CASE /\ Family(ev.topic) # "none" /\ faults < limits.faults
             /\ faults' = faults + 1
             /\ lost' = lost \cup {<<ev.tx, ev.index>>}
             /\ UNCHANGED <<rows, holders, supply, pc, pending>>
    BY <2>3 DEF Drops
  <2>4. CASE /\ Family(ev.topic) # "none" /\ ~Stored(ev)
             /\ Persist(ev)
             /\ pending' = <<ev>>
             /\ pc' = "publish"
             /\ UNCHANGED <<lost, faults>>
    BY <2>4 DEF Stores
  <2> QED
    BY <1>6, <2>1, <2>2, <2>3, <2>4
<1> QED
  BY <1>1, <1>2, <1>3, <1>4, <1>7

\* The row of an emitted event says where it came from.
LEMMA RowShape ==
    ASSUME NEW ev, WasEmitted(ev)
    PROVE  /\ RowOf(ev) = [family |-> Family(ev.topic), tx |-> ev.tx, index |-> ev.index, ledger |-> ev.ledger]
           /\ DOMAIN RowOf(ev) = {"family", "tx", "index", "ledger"}
           /\ RowOf(ev).family = Family(ev.topic) /\ RowOf(ev).tx = ev.tx
           /\ RowOf(ev).index = ev.index /\ RowOf(ev).ledger = ev.ledger
           /\ Seen(RowOf(ev)) /\ EventOf(RowOf(ev)) = EventsOf[ev.tx][ev.index]
           /\ ev.tx \in Txs /\ ev.index \in DOMAIN EventsOf[ev.tx]
           /\ EventsOf[ev.tx][ev.index] \in Emitted
           /\ ev.topic = EventsOf[ev.tx][ev.index].topic /\ ev.from = EventsOf[ev.tx][ev.index].from
           /\ ev.to = EventsOf[ev.tx][ev.index].to /\ ev.amount = EventsOf[ev.tx][ev.index].amount
<1>1. Seen(ev) /\ ev.tx \in Txs /\ ev.index \in DOMAIN EventsOf[ev.tx]
  BY DEF WasEmitted, Seen
<1>2. PICK e : e = EventsOf[ev.tx][ev.index]
  OBVIOUS
<1>3. e \in Emitted
  BY <1>1, <1>2, EventShape
<1>4. DOMAIN e = {"topic", "from", "to", "amount"}
  BY <1>3 DEF Emitted
<1>5. \A x \in DOMAIN e : ev[x] = e[x]
  BY <1>2 DEF WasEmitted, EventOf
<1>6. ev.topic = e.topic /\ ev.from = e.from /\ ev.to = e.to /\ ev.amount = e.amount
  BY <1>4, <1>5
<1>7. PICK r : r = RowOf(ev)
  OBVIOUS
<1>8. r = [family |-> Family(ev.topic), tx |-> ev.tx, index |-> ev.index, ledger |-> ev.ledger]
  BY <1>7 DEF RowOf
<1>9. /\ DOMAIN r = {"family", "tx", "index", "ledger"}
      /\ r.family = Family(ev.topic) /\ r.tx = ev.tx /\ r.index = ev.index /\ r.ledger = ev.ledger
  BY <1>8
<1>10. Seen(r) /\ EventOf(r) = e
  BY <1>1, <1>2, <1>9 DEF Seen, EventOf
<1> QED
  BY <1>1, <1>2, <1>3, <1>6, <1>7, <1>8, <1>9, <1>10
\* The aggregates stay numbers.
LEMMA DeltasTyped ==
    ASSUME NEW ev, WasEmitted(ev)
    PROVE  \A a \in Accounts : deltasFor(ev)[a] \in Int
<1>1. ev.amount \in Int
  BY RowShape DEF Emitted
<1> QED
  BY <1>1 DEF deltasFor

\* Storing or dropping an event keeps the invariant.
LEMMA ProcessInv ==
    ASSUME LoopInv, processEvent
    PROVE  LoopInv'
<1>1. /\ pc = "process" /\ events # <<>> /\ events' = Tail(events)
      /\ UNCHANGED <<network, cursor, checkpoints, lastLedger, startLedger, endLedger, coordinates,
                     published, rewound, reset, limits, restarts>>
      /\ 1 \in DOMAIN events /\ WasEmitted(events[1]) /\ events[1].newSupply \in Int
      /\ Drops(events[1]) \/ Stores(events[1])
  BY ProcessStep
<1>2. /\ chain' = chain /\ forks' = forks /\ ChainOK'
      /\ \A k : Answer(k)' = Answer(k) /\ OnChain(k)' = OnChain(k)
      /\ \A e : Seen(e)' = Seen(e) /\ WasEmitted(e)' = WasEmitted(e)
  BY <1>1, QuietChain, Facts
<1>3. PICK ev : ev = events[1]
  OBVIOUS
<1>4. /\ WasEmitted(ev) /\ ev.newSupply \in Int
      /\ Drops(ev) \/ Stores(ev)
  BY <1>1, <1>3
<1>5. /\ events' \in Seq(Range(events'))
      /\ \A j \in DOMAIN events' : j + 1 \in DOMAIN events /\ events'[j] = events[j + 1]
      /\ \A j \in DOMAIN events : j = 1 \/ (j - 1 \in DOMAIN events' /\ events'[j - 1] = events[j])
  BY <1>1, HeadAndTail DEF LoopInv, IndexerTypeOK
<1>6. /\ rows \subseteq rows' /\ lost \subseteq lost'
      /\ \A r \in rows' : r \in rows \/ (r = RowOf(ev) /\ Family(ev.topic) # "none")
      /\ pc' = "publish" => pending' = <<ev>> /\ RowOf(ev) \in rows'
      /\ pc' \in {"process", "publish"} /\ (pc' = "publish" <=> pending' # <<>>)
  <2>1. CASE Drops(ev)
    <3>1. pending = <<>>
      BY <1>1 DEF LoopInv, IndexerTypeOK
    <3> QED
      BY <2>1, <3>1, <1>1 DEF Drops
  <2>2. CASE Stores(ev)
    <3>1. rows' = rows \cup {RowOf(ev)}
      BY <2>2 DEF Stores, Persist
    <3>2. <<ev>> # <<>>
      OBVIOUS
    <3> QED
      BY <2>2, <3>1, <3>2 DEF Stores
  <2> QED
    BY <2>1, <2>2, <1>4
<1>7. \A tx, i : Done(tx, i) => Done(tx, i)'
  BY <1>6 DEF Done
<1>8. ASSUME NEW tx, NEW i, tx = ev.tx, i = ev.index PROVE Done(tx, i)'
  <2>1. /\ RowOf(ev).tx = ev.tx /\ RowOf(ev).index = ev.index
        /\ ev.topic = EventsOf[ev.tx][ev.index].topic
    BY <1>4, RowShape
  <2>2. CASE Drops(ev)
    <3>1. CASE Family(ev.topic) = "none" \/ <<ev.tx, ev.index>> \in lost'
      BY <3>1, <2>1, <1>8 DEF Done
    <3>2. CASE SameEvent(ev)
      <4>1. PICK r \in rows : r.tx = ev.tx /\ r.index = ev.index
        BY <3>2 DEF SameEvent
      <4> QED
        BY <4>1, <1>6, <1>8 DEF Done
    <3> QED
      BY <2>2, <3>1, <3>2 DEF Drops
  <2>3. CASE Stores(ev)
    <3>1. RowOf(ev) \in rows'
      BY <2>3, <1>6 DEF Stores
    <3> QED
      BY <3>1, <2>1, <1>8 DEF Done
  <2> QED
    BY <2>2, <2>3, <1>4
<1>9. IndexerTypeOK'
  <2>1. \A r \in rows' : r.family \in TokenFamilies \cup OtherFamilies /\ r.tx \in Txs
    <3>1. \A r \in rows : r.family \in TokenFamilies \cup OtherFamilies /\ r.tx \in Txs
      BY DEF LoopInv, IndexerTypeOK
    <3>2. RowOf(ev).family = Family(ev.topic) /\ RowOf(ev).tx \in Txs
      BY <1>4, RowShape
    <3> QED
      BY <3>1, <3>2, <1>6, FamilyIsTable
  <2>2. IsFiniteSet(rows')
    <3>1. IsFiniteSet(rows)
      BY DEF LoopInv, IndexerTypeOK
    <3>2. rows' = rows \/ rows' = rows \cup {RowOf(ev)}
      BY <1>4 DEF Drops, Stores, Persist
    <3> QED
      BY <3>1, <3>2, FS_AddElement
  <2>3. holders' \in [Accounts -> Int] /\ supply' \in Int
    <3>1. holders \in [Accounts -> Int] /\ supply \in Int
      BY DEF LoopInv, IndexerTypeOK
    <3>2. CASE UNCHANGED <<holders, supply>>
      BY <3>1, <3>2
    <3>3. CASE holders' = applyDeltas(holders, ev) /\ supply' = resolveSupply(ev)
      <4>1. \A a \in Accounts : holders[a] + deltasFor(ev)[a] \in Int
        BY <3>1, <1>4, DeltasTyped
      <4>2. holders' \in [Accounts -> Int]
        BY <3>3, <4>1 DEF applyDeltas
      <4> QED
        BY <3>1, <3>3, <4>2, <1>4 DEF resolveSupply
    <3> QED
      BY <3>2, <3>3, <1>4 DEF Drops, Stores, Persist
  <2>4. faults' \in 0 .. limits.faults
    <3>1. faults \in 0 .. limits.faults /\ limits.faults \in Nat
      BY Facts DEF LoopInv, IndexerTypeOK
    <3>2. faults' = faults \/ (faults' = faults + 1 /\ faults < limits.faults)
      BY <1>4 DEF Drops, Stores
    <3> QED
      BY <3>1, <3>2
  <2> QED
    BY <2>1, <2>2, <2>3, <2>4, <1>1, <1>2, <1>5, <1>6 DEF LoopInv, IndexerTypeOK
<1>10. NothingStepsOver'
  BY <1>1, <1>2, <1>7, Facts DEF NothingStepsOver
<1>11. CheckpointsReachDown'
  <2>1. \A n : Checkpointed(n)' = Checkpointed(n)
    BY <1>1 DEF Checkpointed
  <2> QED
    BY <2>1, <1>1, <1>6, Facts DEF CheckpointsReachDown
<1>12. LedgersWereAnswered' /\ RangeIsFetched'
  BY <1>1, <1>2, <1>6, Facts DEF LedgersWereAnswered, RangeIsFetched
<1>13. EventsWereEmitted'
  <2>1. (\A j \in DOMAIN events : WasEmitted(events[j]) /\ events[j].newSupply \in Int)'
    <3>1. \A j \in DOMAIN events : WasEmitted(events[j]) /\ events[j].newSupply \in Int
      BY Facts DEF EventsWereEmitted
    <3>2. \A j \in DOMAIN events' : WasEmitted(events'[j]) /\ events'[j].newSupply \in Int
      BY <3>1, <1>5
    <3> QED
      BY <3>2, <1>2
  <2>2. ASSUME NEW r \in rows'
        PROVE  /\ DOMAIN r = {"family", "tx", "index", "ledger"}
               /\ Seen(r) /\ r.family = Family(EventOf(r).topic) /\ r.family # "none"
    <3>1. CASE r \in rows
      BY <3>1, Facts DEF EventsWereEmitted
    <3>2. CASE r = RowOf(ev) /\ Family(ev.topic) # "none"
      BY <3>2, <1>4, RowShape
    <3> QED
      BY <3>1, <3>2, <1>6
  <2>3. ~rewound' => published' \subseteq rows'
    BY <1>1, <1>6, Facts DEF EventsWereEmitted
  <2>4. pc' = "publish" => RowOf(pending'[1]) \in rows'
    BY <1>6
  <2>5. (pc = "publish" => RowOf(pending[1]) \in rows)'
    BY <2>4 DEF RowOf
  <2> QED
    BY <2>1, <2>2, <2>3, <2>5, <1>2 DEF EventsWereEmitted, EventOf
<1>14. RangeIsUnderWay'
  <2>1. ASSUME NEW k \in coordinates', OnChain(k)', NEW tx, tx = chain'[k.ledger].tx, tx # NoTx,
               NEW i \in DOMAIN EventsOf[tx]
        PROVE  Done(tx, i)' \/ \E j \in DOMAIN events' : events'[j].tx = tx /\ events'[j].index = i
    <3>1. Done(tx, i) \/ \E j \in DOMAIN events : events[j].tx = tx /\ events[j].index = i
      BY <2>1, <1>1, <1>2, Facts DEF RangeIsUnderWay
    <3>2. ASSUME NEW j \in DOMAIN events, events[j].tx = tx, events[j].index = i
          PROVE  Done(tx, i)' \/ \E l \in DOMAIN events' : events'[l].tx = tx /\ events'[l].index = i
      <4>1. CASE j = 1
        BY <4>1, <3>2, <1>3, <1>8
      <4>2. CASE j - 1 \in DOMAIN events' /\ events'[j - 1] = events[j]
        BY <4>2, <3>2
      <4> QED
        BY <4>1, <4>2, <1>5
    <3> QED
      BY <3>1, <3>2, <1>7
  <2> QED
    BY <2>1 DEF RangeIsUnderWay
<1> QED
  BY <1>2, <1>9, <1>10, <1>11, <1>12, <1>13, <1>14 DEF LoopInv, CheckpointedIsIndexed
----------------------------------------------------------------------------
(* Publishing, the commit of a range, and what interrupts the loop *)

\* Handing a stored event to the subscribers and webhooks keeps it.
LEMMA PublishInv ==
    ASSUME LoopInv, publishIndexerEvent
    PROVE  LoopInv'
<1>1. /\ pc = "publish" /\ pc' = "process" /\ pending' = <<>>
      /\ published' = published \cup {RowOf(pending[1])}
      /\ UNCHANGED <<network, cursor, checkpoints, rows, holders, supply, lastLedger, startLedger, endLedger,
                     coordinates, events, lost, rewound, reset, limits, faults, restarts>>
  BY DEF publishIndexerEvent, database, budget
<1>2. /\ chain' = chain /\ forks' = forks /\ ChainOK'
      /\ \A k : Answer(k)' = Answer(k) /\ OnChain(k)' = OnChain(k)
      /\ \A e : Seen(e)' = Seen(e) /\ WasEmitted(e)' = WasEmitted(e)
  BY <1>1, QuietChain, Facts
<1>3. /\ \A tx, i : Done(tx, i)' = Done(tx, i)
      /\ \A n : Checkpointed(n)' = Checkpointed(n)
  BY <1>1 DEF Done, Checkpointed
<1>4. IndexerTypeOK'
  BY <1>1, <1>2 DEF LoopInv, IndexerTypeOK
<1>5. NothingStepsOver'
  BY <1>1, <1>2, <1>3, Facts DEF NothingStepsOver
<1>6. CheckpointsReachDown'
  BY <1>1, <1>3, Facts DEF CheckpointsReachDown
<1>7. LedgersWereAnswered' /\ RangeIsFetched'
  BY <1>1, <1>2, Facts DEF LedgersWereAnswered, RangeIsFetched
<1>8. EventsWereEmitted'
  BY <1>1, <1>2, Facts DEF EventsWereEmitted, EventOf
<1>9. RangeIsUnderWay'
  BY <1>1, <1>2, <1>3, Facts DEF RangeIsUnderWay
<1> QED
  BY <1>2, <1>4, <1>5, <1>6, <1>7, <1>8, <1>9 DEF LoopInv, CheckpointedIsIndexed

\* The commit adds the coordinates of the ledgers that have no checkpoint yet,
\* and moves the cursor to the last of the range.
LEMMA CommitStep ==
    ASSUME LoopInv, Commit
    PROVE  /\ checkpoints \subseteq checkpoints' /\ checkpoints' \subseteq checkpoints \cup coordinates
           /\ cursor' \in coordinates /\ cursor'.ledger = endLedger /\ startLedger' = endLedger + 1
           /\ \A n \in startLedger .. endLedger : Checkpointed(n)'
<1>1. /\ pc = "process" /\ startLedger' = endLedger + 1
      /\ checkpoints' = checkpoints \cup
            {k \in coordinates : \A o \in checkpoints : o.ledger # k.ledger /\ o.hash # k.hash}
      /\ cursor' = CHOOSE k \in coordinates : k.ledger = endLedger
  BY DEF Commit
<1>2. /\ Len(chain) \in Nat /\ forks \in Nat /\ startLedger \in 1 .. Len(chain) + 1
      /\ endLedger \in startLedger .. Len(chain)
      /\ {k.ledger : k \in coordinates} = startLedger .. endLedger
  BY <1>1, Facts DEF RangeIsFetched
<1>3. \A n \in startLedger .. endLedger : \E k \in coordinates : k.ledger = n
  BY <1>2
<1>4. endLedger \in startLedger .. endLedger
  BY <1>2
<1>5. cursor' \in coordinates /\ cursor'.ledger = endLedger
  <2>1. \E k \in coordinates : k.ledger = endLedger
    BY <1>3, <1>4
  <2> QED
    BY <2>1, <1>1
<1>6. ASSUME NEW n \in startLedger .. endLedger PROVE \E k \in checkpoints' : k.ledger = n
  <2>1. PICK k \in coordinates : k.ledger = n
    BY <1>3
  <2>2. CASE \E o \in checkpoints : o.ledger = n
    BY <2>2, <1>1
  <2>3. CASE \A o \in checkpoints : o.ledger # n
    <3>1. \A o \in checkpoints : Answer(o)
      BY Facts DEF LedgersWereAnswered
    <3>2. Answer(k)
      BY Facts DEF LedgersWereAnswered
    <3>3. \A o \in checkpoints : o.hash # k.hash
      BY <3>1, <3>2, <2>1, <2>3, <1>2, AnswerShape
    <3>4. k \in checkpoints'
      BY <2>1, <2>3, <3>3, <1>1
    <3> QED
      BY <2>1, <3>4
  <2> QED
    BY <2>2, <2>3
<1> QED
  BY <1>1, <1>5, <1>6 DEF Checkpointed

\* Writing the checkpoints of a range and the cursor, together or not at all,
\* keeps it: the events of the range have all been processed.
LEMMA CommitInv ==
    ASSUME LoopInv, Commit
    PROVE  LoopInv'
<1>1. /\ pc = "process" /\ pc' = "poll" /\ events = <<>>
      /\ UNCHANGED <<network, rows, holders, supply, lastLedger, endLedger, coordinates, events, pending,
                     published, lost, rewound, reset, limits, faults, restarts>>
  BY DEF Commit, history, budget
<1>2. /\ chain' = chain /\ forks' = forks /\ ChainOK'
      /\ \A k : Answer(k)' = Answer(k) /\ OnChain(k)' = OnChain(k)
      /\ \A e : Seen(e)' = Seen(e) /\ WasEmitted(e)' = WasEmitted(e)
  BY <1>1, QuietChain, Facts
<1>3. /\ checkpoints \subseteq checkpoints' /\ checkpoints' \subseteq checkpoints \cup coordinates
      /\ cursor' \in coordinates /\ cursor'.ledger = endLedger /\ startLedger' = endLedger + 1
      /\ \A n \in startLedger .. endLedger : Checkpointed(n)'
  BY CommitStep
<1>4. \A tx, i : Done(tx, i)' = Done(tx, i)
  BY <1>1 DEF Done
<1>5. /\ Len(chain) \in Nat /\ forks \in Nat /\ startLedger \in 1 .. Len(chain) + 1
      /\ endLedger \in startLedger .. Len(chain)
      /\ limits.ledgers \in Nat /\ Len(chain) <= limits.ledgers
  BY <1>1, Facts DEF RangeIsFetched
<1>6. \A k \in coordinates : /\ Answer(k) /\ k.ledger \in 1 .. Len(chain) /\ k.hash # NoHash
                             /\ DOMAIN k = {"ledger", "hash", "parentHash"}
  <2>1. \A k \in coordinates : Answer(k)
    BY Facts DEF LedgersWereAnswered
  <2> QED
    BY <2>1, <1>5, AnswerShape
<1>7. IndexerTypeOK'
  <2>1. \A k \in checkpoints' : k.ledger \in 1 .. limits.ledgers
    <3>1. \A k \in coordinates : k.ledger \in 1 .. limits.ledgers
      BY <1>5, <1>6
    <3> QED
      BY <3>1, <1>3 DEF LoopInv, IndexerTypeOK
  <2>2. cursor'.ledger \in -1 .. limits.ledgers /\ startLedger' \in 0 .. limits.ledgers + 1
    BY <1>3, <1>5
  <2> QED
    BY <2>1, <2>2, <1>1, <1>2 DEF LoopInv, IndexerTypeOK
<1>8. NothingStepsOver'
  <2>1. ASSUME NEW k \in checkpoints', k.ledger > limits.old, OnChain(k)', NEW tx, tx = chain'[k.ledger].tx,
               tx # NoTx, NEW i \in DOMAIN EventsOf[tx]
        PROVE  Done(tx, i)'
    <3>1. OnChain(k) /\ tx = chain[k.ledger].tx
      BY <2>1, <1>2
    <3>2. CASE k \in checkpoints
      BY <3>1, <3>2, <2>1, <1>4, Facts DEF NothingStepsOver
    <3>3. CASE k \in coordinates
      <4>0. RangeIsUnderWay /\ pc \in {"process", "publish"}
        BY <1>1, Facts
      <4>1. Done(tx, i) \/ \E j \in DOMAIN events : events[j].tx = tx /\ events[j].index = i
        <5>1. k \in coordinates /\ OnChain(k) /\ chain[k.ledger].tx # NoTx
          BY <3>1, <3>3, <2>1
        <5>2. \A q \in coordinates : OnChain(q) /\ chain[q.ledger].tx # NoTx =>
                \A h \in DOMAIN EventsOf[chain[q.ledger].tx] :
                    \/ Done(chain[q.ledger].tx, h)
                    \/ \E j \in DOMAIN events : events[j].tx = chain[q.ledger].tx /\ events[j].index = h
          BY <4>0 DEF RangeIsUnderWay
        <5>3. \A h \in DOMAIN EventsOf[chain[k.ledger].tx] :
                    \/ Done(chain[k.ledger].tx, h)
                    \/ \E j \in DOMAIN events : events[j].tx = chain[k.ledger].tx /\ events[j].index = h
          BY <5>1, <5>2
        <5> QED
          BY <5>3, <3>1, <2>1
      <4>2. DOMAIN events = {}
        BY <1>1
      <4> QED
        BY <4>1, <4>2, <1>4
    <3> QED
      BY <3>2, <3>3, <1>3
  <2> QED
    BY <2>1, <1>1 DEF NothingStepsOver
<1>9. CheckpointsReachDown'
  <2>1. \A n : Checkpointed(n) => Checkpointed(n)'
    BY <1>3 DEF Checkpointed
  <2>2. ASSUME ~rewound, NEW n \in limits.old + 1 .. endLedger PROVE Checkpointed(n)'
    <3>1. CASE n \in startLedger .. endLedger
      BY <3>1, <1>3
    <3>2. CASE n \notin startLedger .. endLedger
      <4>1. n \in limits.old + 1 .. startLedger - 1
        BY <3>2, <1>5, Facts
      <4>2. Checkpointed(n)
        BY <4>1, <2>2, <1>1, Facts DEF CheckpointsReachDown
      <4> QED
        BY <4>2, <2>1
    <3> QED
      BY <3>1, <3>2
  <2>3. startLedger' - 1 = endLedger
    BY <1>3, <1>5
  <2>7. cursor'.ledger = endLedger /\ endLedger \in startLedger .. endLedger
    BY <1>3, <1>5
  <2>4. Checkpointed(cursor.ledger)'
    <3>1. PICK e : e = endLedger
      OBVIOUS
    <3>2. Checkpointed(e)' /\ e = cursor'.ledger
      BY <3>1, <2>7, <1>3
    <3> QED
      BY <3>2 DEF Checkpointed
  <2>5. \A n \in limits.old + 1 .. cursor'.ledger : ~rewound => Checkpointed(n)'
    BY <2>2, <2>7
  <2>6. \A n \in limits.old + 1 .. startLedger' - 1 : ~rewound => Checkpointed(n)'
    BY <2>2, <2>3
  <2>8. ASSUME ~rewound
        PROVE  /\ \A n \in limits.old + 1 .. lastLedger'.ledger : Checkpointed(n)'
               /\ lastLedger'.hash # NoHash => Checkpointed(lastLedger.ledger)' \/ reset' > 0
    <3>1. PICK p : p = lastLedger.ledger
      OBVIOUS
    <3>2. /\ \A n \in limits.old + 1 .. p : Checkpointed(n)
          /\ lastLedger.hash # NoHash => Checkpointed(p) \/ reset > 0
      BY <3>1, <2>8, Facts DEF CheckpointsReachDown
    <3>3. /\ \A n \in limits.old + 1 .. p : Checkpointed(n)'
          /\ lastLedger.hash # NoHash => Checkpointed(p)' \/ reset > 0
      BY <3>2, <2>1
    <3>4. p = lastLedger'.ledger /\ lastLedger' = lastLedger /\ reset' = reset
      BY <3>1, <1>1
    <3> QED
      BY <3>3, <3>4 DEF Checkpointed
  <2> QED
    BY <2>4, <2>5, <2>6, <2>8, <1>1 DEF CheckpointsReachDown
<1>10. LedgersWereAnswered'
  <2>1. \A k \in checkpoints' \cup coordinates' : Answer(k)'
    BY <1>1, <1>2, <1>3, <1>6, Facts DEF LedgersWereAnswered
  <2>2. /\ DOMAIN cursor' = {"ledger", "hash", "parentHash"} /\ cursor'.ledger \in -1 .. Len(chain)
        /\ cursor'.hash = NoHash => cursor'.ledger <= limits.old
    BY <1>3, <1>5, <1>6
  <2>3. /\ DOMAIN lastLedger' = {"ledger", "hash", "parentHash"} /\ lastLedger'.ledger \in -1 .. Len(chain)
        /\ lastLedger'.hash = NoHash => lastLedger'.ledger <= limits.old
    BY <1>1, Facts DEF LedgersWereAnswered
  <2> QED
    BY <2>1, <2>2, <2>3, <1>1, <1>2 DEF LedgersWereAnswered
<1>11. RangeIsFetched' /\ RangeIsUnderWay'
  BY <1>1, <1>2, <1>3, <1>5 DEF RangeIsFetched, RangeIsUnderWay
<1>12. EventsWereEmitted'
  BY <1>1, <1>2, Facts DEF EventsWereEmitted, EventOf
<1> QED
  BY <1>2, <1>7, <1>8, <1>9, <1>10, <1>11, <1>12 DEF LoopInv, CheckpointedIsIndexed

\* A poll that throws keeps the invariant.
LEMMA ErrorInv ==
    ASSUME LoopInv, IngestionError
    PROVE  LoopInv'
<1>1. /\ pc \in {"poll", "ledgers", "reconcile", "events", "process"} /\ pc' = "poll"
      /\ faults < limits.faults /\ faults' = faults + 1
      /\ UNCHANGED <<network, cursor, checkpoints, rows, holders, supply, lastLedger, startLedger, endLedger,
                     coordinates, events, pending, published, lost, rewound, reset, limits, restarts>>
  BY DEF IngestionError, database, local, history
<1>2. /\ ChainOK' /\ NothingStepsOver' /\ \A n : Checkpointed(n)' = Checkpointed(n)
  BY <1>1, TablesFrame
<1>3. /\ chain' = chain /\ forks' = forks
      /\ \A k : Answer(k)' = Answer(k) /\ OnChain(k)' = OnChain(k)
      /\ \A e : Seen(e)' = Seen(e) /\ WasEmitted(e)' = WasEmitted(e)
  BY <1>1, QuietChain
<1>4. faults' \in 0 .. limits.faults
  BY <1>1, Facts DEF LoopInv, IndexerTypeOK
<1>5. IndexerTypeOK'
  BY <1>1, <1>3, <1>4 DEF LoopInv, IndexerTypeOK
<1>6. CheckpointsReachDown'
  BY <1>1, <1>2, Facts DEF CheckpointsReachDown
<1>7. LedgersWereAnswered' /\ RangeIsFetched'
  BY <1>1, <1>3, Facts DEF LedgersWereAnswered, RangeIsFetched
<1>8. EventsWereEmitted' /\ RangeIsUnderWay'
  BY <1>1, <1>3, Facts DEF EventsWereEmitted, EventOf, RangeIsUnderWay
<1> QED
  BY <1>2, <1>5, <1>6, <1>7, <1>8 DEF LoopInv, CheckpointedIsIndexed

\* A process that is killed, between any two writes, keeps the invariant.
LEMMA RestartInv ==
    ASSUME LoopInv, Restart
    PROVE  LoopInv'
<1>1. /\ pc' = "boot" /\ lastLedger' = NoCursor /\ startLedger' = 0 /\ endLedger' = 0
      /\ coordinates' = {} /\ events' = <<>> /\ pending' = <<>>
      /\ restarts < limits.restarts /\ restarts' = restarts + 1
      /\ UNCHANGED <<network, cursor, checkpoints, rows, holders, supply, published, lost, rewound, reset,
                     limits, faults>>
  BY DEF Restart, database, history
<1>2. /\ ChainOK' /\ NothingStepsOver' /\ \A n : Checkpointed(n)' = Checkpointed(n)
  BY <1>1, TablesFrame
<1>3. /\ chain' = chain /\ forks' = forks
      /\ \A k : Answer(k)' = Answer(k) /\ OnChain(k)' = OnChain(k)
      /\ \A e : Seen(e)' = Seen(e) /\ WasEmitted(e)' = WasEmitted(e)
  BY <1>1, QuietChain
<1>4. restarts' \in 0 .. limits.restarts
  BY <1>1, Facts DEF LoopInv, IndexerTypeOK
<1>5. <<>> \in Seq(Range(<<>>)) /\ DOMAIN events' = {}
  BY <1>1
<1>6. IndexerTypeOK'
  <2>1. 0 \in 0 .. limits.ledgers + 1 /\ 0 \in 0 .. limits.ledgers
    BY Facts
  <2> QED
    BY <2>1, <1>1, <1>3, <1>4, <1>5 DEF LoopInv, IndexerTypeOK
<1>7. lastLedger'.ledger = -1 /\ lastLedger'.hash = NoHash /\ DOMAIN lastLedger' = {"ledger", "hash", "parentHash"}
  BY <1>1 DEF NoCursor
<1>8. CheckpointsReachDown'
  <2>1. limits.old + 1 .. lastLedger'.ledger = {}
    BY <1>7, Facts
  <2> QED
    BY <2>1, <1>1, <1>2, <1>7, Facts DEF CheckpointsReachDown
<1>9. LedgersWereAnswered'
  <2>1. -1 \in -1 .. Len(chain)
    BY Facts
  <2> QED
    BY <2>1, <1>1, <1>3, <1>7, Facts DEF LedgersWereAnswered
<1>10. RangeIsFetched' /\ RangeIsUnderWay'
  BY <1>1 DEF RangeIsFetched, RangeIsUnderWay
<1>11. EventsWereEmitted'
  BY <1>1, <1>3, <1>5, Facts DEF EventsWereEmitted, EventOf
<1> QED
  BY <1>2, <1>6, <1>8, <1>9, <1>10, <1>11 DEF LoopInv, CheckpointedIsIndexed

\* A cursor set back by the admin route keeps the invariant.
LEMMA ResetInv ==
    ASSUME LoopInv, ResetCursor
    PROVE  LoopInv'
<1>1. /\ pc = "boot" /\ reset < limits.resets /\ reset' = reset + 1
      /\ \E n \in 1 .. cursor.ledger - 1 : cursor' = [cursor EXCEPT !.ledger = n]
      /\ UNCHANGED <<network, checkpoints, rows, holders, supply, pc, lastLedger, startLedger, endLedger,
                     coordinates, events, pending, published, lost, rewound, limits, faults, restarts>>
  BY DEF ResetCursor, local, budget
<1>2. /\ chain' = chain /\ forks' = forks /\ ChainOK'
      /\ \A k : Answer(k)' = Answer(k) /\ OnChain(k)' = OnChain(k)
      /\ \A e : Seen(e)' = Seen(e) /\ WasEmitted(e)' = WasEmitted(e)
  BY <1>1, QuietChain, Facts
<1>3. PICK n \in 1 .. cursor.ledger - 1 : cursor' = [cursor EXCEPT !.ledger = n]
  BY <1>1
<1>4. /\ DOMAIN cursor = {"ledger", "hash", "parentHash"} /\ cursor.ledger \in -1 .. Len(chain)
      /\ Len(chain) \in Nat /\ (cursor.hash = NoHash => cursor.ledger <= limits.old) /\ limits.old \in Nat
      /\ limits.ledgers \in Nat /\ Len(chain) <= limits.ledgers
  BY Facts DEF LedgersWereAnswered
<1>5. n \in 1 .. Len(chain) /\ n < cursor.ledger
  BY <1>3, <1>4
<1>6. cursor'.ledger = n /\ cursor'.hash = cursor.hash /\ DOMAIN cursor' = {"ledger", "hash", "parentHash"}
  BY <1>3, <1>4
<1>7. reset' \in 0 .. limits.resets
  <2>1. reset \in 0 .. limits.resets /\ limits.resets \in Nat
    BY Facts, BoundsAssumption DEF LoopInv, IndexerTypeOK
  <2> QED
    BY <2>1, <1>1
<1>8. IndexerTypeOK'
  <2>1. n \in -1 .. limits.ledgers
    BY <1>4, <1>5
  <2> QED
    BY <2>1, <1>1, <1>2, <1>6, <1>7 DEF LoopInv, IndexerTypeOK
<1>9. \A m : Checkpointed(m)' = Checkpointed(m)
  BY <1>1 DEF Checkpointed
<1>10. \A tx, i : Done(tx, i)' = Done(tx, i)
  BY <1>1 DEF Done
<1>11. NothingStepsOver'
  BY <1>1, <1>2, <1>10, Facts DEF NothingStepsOver
<1>12. CheckpointsReachDown'
  <2>1. ~rewound => \A m \in limits.old + 1 .. cursor.ledger : Checkpointed(m)
    BY Facts DEF CheckpointsReachDown
  <2>2. \A m \in limits.old + 1 .. n : m \in limits.old + 1 .. cursor.ledger
    BY <1>4, <1>5
  <2>3. reset' > 0
    BY <1>1, Facts DEF LoopInv, IndexerTypeOK
  <2> QED
    BY <2>1, <2>2, <2>3, <1>1, <1>6, <1>9, Facts DEF CheckpointsReachDown
<1>13. LedgersWereAnswered'
  <2>1. n \in -1 .. Len(chain) /\ (cursor.hash = NoHash => n <= limits.old)
    BY <1>4, <1>5
  <2> QED
    BY <2>1, <1>1, <1>2, <1>5, <1>6, Facts DEF LedgersWereAnswered
<1>14. RangeIsFetched' /\ RangeIsUnderWay'
  BY <1>1, <1>2 DEF RangeIsFetched, RangeIsUnderWay
<1>15. EventsWereEmitted'
  BY <1>1, <1>2, Facts DEF EventsWereEmitted, EventOf, RowOf
<1> QED
  BY <1>2, <1>8, <1>11, <1>12, <1>13, <1>14, <1>15 DEF LoopInv, CheckpointedIsIndexed

----------------------------------------------------------------------------
(* The service: the indexer beside its API *)

(* The database found at the first start, empty or an older version's, and   *)
(* the first ledger satisfy the invariant.                                   *)
LEMMA InitInv ==
    ASSUME IndexerInit
    PROVE  LoopInv
<1>1. /\ limits \in Scenarios /\ forks = 0
      /\ chain = [n \in 1 .. IF limits.old = 0 THEN 1 ELSE limits.old |-> [hash |-> 0, tx |-> NoTx]]
      /\ checkpoints = {} /\ rows = {} /\ holders = [a \in Accounts |-> 0] /\ supply = 0
      /\ pc = "boot" /\ lastLedger = NoCursor /\ startLedger = 0 /\ endLedger = 0
      /\ coordinates = {} /\ events = <<>> /\ pending = <<>>
      /\ published = {} /\ lost = {} /\ rewound = FALSE /\ reset = 0 /\ faults = 0 /\ restarts = 0
  BY DEF IndexerInit, Idle
<1>2. /\ limits.ledgers \in Nat /\ limits.ledgers > 0 /\ limits.reorgs \in Nat /\ limits.faults \in Nat
      /\ limits.restarts \in Nat /\ limits.resets \in Nat /\ limits.old \in 0 .. limits.ledgers
  BY <1>1, BoundsAssumption
<1>3. /\ DOMAIN cursor = {"ledger", "hash", "parentHash"} /\ cursor.hash = NoHash
      /\ cursor.ledger = IF limits.old = 0 THEN -1 ELSE limits.old
  BY <1>2 DEF IndexerInit, NoCursor
<1>13. PICK N : N = IF limits.old = 0 THEN 1 ELSE limits.old
  OBVIOUS
<1>14. N \in 1 .. limits.ledgers /\ limits.old <= N /\ cursor.ledger \in -1 .. N /\ cursor.ledger <= limits.old
  BY <1>2, <1>3, <1>13
<1>4. /\ Len(chain) = N /\ DOMAIN chain = 1 .. N /\ \A n \in 1 .. N : chain[n] = [hash |-> 0, tx |-> NoTx]
      /\ chain \in Seq([hash : 0 .. forks, tx : Txs \cup {NoTx}]) /\ chain # <<>>
  <2>1. [hash |-> 0, tx |-> NoTx] \in [hash : 0 .. forks, tx : Txs \cup {NoTx}]
    BY <1>1
  <2>2. chain = [n \in 1 .. N |-> [hash |-> 0, tx |-> NoTx]]
    BY <1>1, <1>13
  <2>6. PICK S : S = [hash : 0 .. forks, tx : Txs \cup {NoTx}]
    OBVIOUS
  <2>3. chain \in [1 .. N -> S]
    BY <2>1, <2>2, <2>6
  <2>4. N \in Nat /\ N >= 1
    BY <1>2, <1>14
  <2>7. chain \in Seq(S) /\ Len(chain) = N
    BY ONLY <2>3, <2>4
  <2>5. chain \in Seq([hash : 0 .. forks, tx : Txs \cup {NoTx}]) /\ Len(chain) = N
    BY <2>6, <2>7
  <2> QED
    BY <2>2, <2>4, <2>5
<1>5. /\ DOMAIN lastLedger = {"ledger", "hash", "parentHash"} /\ lastLedger.hash = NoHash /\ lastLedger.ledger = -1
  BY <1>1 DEF NoCursor
<1>6. <<>> \in Seq(Range(<<>>)) /\ DOMAIN events = {}
  BY <1>1
<1>7. IndexerTypeOK
  <2>1. /\ Len(chain) \in 1 .. limits.ledgers /\ forks \in 0 .. limits.reorgs
        /\ cursor.ledger \in -1 .. limits.ledgers
        /\ startLedger \in 0 .. limits.ledgers + 1 /\ endLedger \in 0 .. limits.ledgers
        /\ faults \in 0 .. limits.faults /\ restarts \in 0 .. limits.restarts /\ reset \in 0 .. limits.resets
    BY <1>1, <1>2, <1>4, <1>14
  <2>2. IsFiniteSet(rows) /\ holders \in [Accounts -> Int] /\ supply \in Int
    BY <1>1, FS_EmptySet
  <2> QED
    BY <2>1, <2>2, <1>1, <1>6 DEF IndexerTypeOK
<1>8. NothingStepsOver /\ CheckpointsReachDown
  <2>1. limits.old + 1 .. cursor.ledger = {} /\ limits.old + 1 .. lastLedger.ledger = {}
    BY <1>2, <1>5, <1>14
  <2> QED
    BY <2>1, <1>1, <1>3, <1>5 DEF NothingStepsOver, CheckpointsReachDown
<1>9. ChainOK
  <2>1. \A n \in 1 .. N : chain[n].tx = NoTx
    BY <1>4
  <2> QED
    BY <2>1, <1>1, <1>4, <1>14 DEF ChainOK
<1>10. LedgersWereAnswered
  <2>1. cursor.ledger \in -1 .. Len(chain) /\ lastLedger.ledger \in -1 .. Len(chain)
        /\ lastLedger.ledger <= limits.old
    BY <1>2, <1>4, <1>5, <1>14
  <2> QED
    BY <2>1, <1>1, <1>3, <1>5, <1>14 DEF LedgersWereAnswered
<1>11. RangeIsFetched /\ RangeIsUnderWay
  BY <1>1 DEF RangeIsFetched, RangeIsUnderWay
<1>12. EventsWereEmitted
  BY <1>1, <1>6 DEF EventsWereEmitted
<1> QED
  BY <1>7, <1>8, <1>9, <1>10, <1>11, <1>12 DEF LoopInv, CheckpointedIsIndexed

(* Steps of the API, and of nobody, leave the indexer's state alone.         *)
LEMMA StillInv ==
    ASSUME LoopInv, UNCHANGED indexerVars
    PROVE  LoopInv'
<1>1. UNCHANGED <<chain, forks, cursor, checkpoints, rows, holders, supply, pc, lastLedger, startLedger, endLedger,
                  coordinates, events, pending, published, lost, rewound, reset, limits, faults, restarts>>
  BY DEF indexerVars, network, database, local, history, budget
<1>2. /\ ChainOK' /\ NothingStepsOver' /\ \A n : Checkpointed(n)' = Checkpointed(n)
  BY <1>1, TablesFrame DEF network
<1>3. /\ \A k : Answer(k)' = Answer(k) /\ OnChain(k)' = OnChain(k)
      /\ \A e : Seen(e)' = Seen(e) /\ WasEmitted(e)' = WasEmitted(e)
  BY <1>1, QuietChain DEF network
<1>4. \A tx, i : Done(tx, i)' = Done(tx, i)
  BY <1>1 DEF Done
<1>5. IndexerTypeOK'
  BY <1>1 DEF LoopInv, IndexerTypeOK
<1>6. CheckpointsReachDown' /\ LedgersWereAnswered' /\ RangeIsFetched'
  BY <1>1, <1>2, <1>3, Facts DEF CheckpointsReachDown, LedgersWereAnswered, RangeIsFetched
<1>7. EventsWereEmitted'
  BY <1>1, <1>3, Facts DEF EventsWereEmitted, EventOf, RowOf
<1>8. RangeIsUnderWay'
  <2>1. RangeIsUnderWay
    BY Facts
  <2> QED
    BY <2>1, <1>1, <1>3, <1>4 DEF RangeIsUnderWay
<1> QED
  BY <1>2, <1>5, <1>6, <1>7, <1>8 DEF LoopInv, CheckpointedIsIndexed

(* What a step of the service can be, for the indexer's own state.           *)
LEMMA ServiceSteps ==
    ASSUME [ServiceNext]_serviceVars
    PROVE  \/ Close \/ Reorg \/ IngestionError \/ ResetCursor \/ Restart
           \/ Boot \/ Poll \/ FetchLedgers \/ reconcileLedgerCursor \/ FetchEvents
           \/ processEvent \/ publishIndexerEvent \/ Commit
           \/ UNCHANGED indexerVars
  BY DEF ServiceNext, LoopStep, Outside, serviceVars

(* Every step keeps the invariant.                                           *)
LEMMA ServiceInv ==
    ASSUME LoopInv, [ServiceNext]_serviceVars
    PROVE  LoopInv'
<1>1. CASE Close \/ Reorg
  BY <1>1, NetworkInv DEF NetworkStep
<1>2. CASE Boot
  BY <1>2, BootInv
<1>3. CASE Poll
  BY <1>3, PollInv
<1>4. CASE FetchLedgers
  BY <1>4, FetchLedgersInv
<1>5. CASE reconcileLedgerCursor
  BY <1>5, ReconcileInv
<1>6. CASE FetchEvents
  BY <1>6, FetchEventsInv
<1>7. CASE processEvent
  BY <1>7, ProcessInv
<1>8. CASE publishIndexerEvent
  BY <1>8, PublishInv
<1>9. CASE Commit
  BY <1>9, CommitInv
<1>10. CASE IngestionError
  BY <1>10, ErrorInv
<1>11. CASE Restart
  BY <1>11, RestartInv
<1>12. CASE ResetCursor
  BY <1>12, ResetInv
<1>13. CASE UNCHANGED indexerVars
  BY <1>13, StillInv
<1> QED
  BY <1>1, <1>2, <1>3, <1>4, <1>5, <1>6, <1>7, <1>8, <1>9, <1>10, <1>11, <1>12, <1>13, ServiceSteps

(* The indexer's invariant holds in every state of the service.              *)
LEMMA AlwaysInv == ServiceSpec => []LoopInv
<1>1. ServiceInit => LoopInv
  BY InitInv DEF ServiceInit
<1>2. LoopInv /\ [ServiceNext]_serviceVars => LoopInv'
  BY ServiceInv
<1> QED
  BY <1>1, <1>2, PTL DEF ServiceSpec

(* A kill between the rows and the cursor never makes the loop step over an  *)
(* event: a checkpointed ledger that is still on the chain has each of its   *)
(* events stored, through restarts, partial answers, failed writes,          *)
(* reorganisations and resets, for any batch size, page and lookback         *)
(* (indexer.ts:108-122). The exceptions are the events in lost - beyond a    *)
(* full page of getEvents, which is not followed by a second one             *)
(* (indexer.ts:97-106); with a failed write; beside another event of the     *)
(* same transaction that has the table's only row; pruned by a rewind after  *)
(* their transaction moved below it - and the ledgers that an older version  *)
(* indexed without checkpoints.                                              *)
THEOREM CheckpointsAreIndexed == ServiceSpec => []CheckpointedIsIndexed
<1>1. LoopInv => CheckpointedIsIndexed
  BY DEF LoopInv
<1> QED
  BY <1>1, AlwaysInv, PTL

(* An event is handed out only when it has no row yet, and until a rewind    *)
(* everything handed out has one.                                            *)
LEMMA PublishStep ==
    ASSUME LoopInv, [ServiceNext]_serviceVars,
           pending' # pending, pending' # <<>>, ~rewound,
           NEW r \in published
    PROVE  <<r.tx, r.index>> # <<pending'[1].tx, pending'[1].index>>
<1>1. processEvent
  BY ServiceSteps DEF Close, Reorg, IngestionError, ResetCursor, Restart, Boot, Poll, FetchLedgers,
     reconcileLedgerCursor, FetchEvents, publishIndexerEvent, Commit, indexerVars, local
<1>2. PICK ev : ev = Head(events)
  OBVIOUS
<1>3. pending' = <<ev>> /\ ~Stored(ev) /\ events # <<>>
  BY <1>1, <1>2 DEF processEvent, Skipped, Persist
<1>4. EventsWereEmitted /\ events \in Seq(Range(events))
  BY Facts DEF LoopInv, IndexerTypeOK
<1>5. WasEmitted(ev)
  <2>1. 1 \in DOMAIN events /\ ev = events[1]
    BY <1>2, <1>3, <1>4
  <2> QED
    BY <2>1, <1>4 DEF EventsWereEmitted
<1>6. r \in rows /\ r.family = Family(EventOf(r).topic)
  BY <1>4 DEF EventsWereEmitted
<1>7. SUFFICES ASSUME r.tx = ev.tx, r.index = ev.index PROVE FALSE
  BY <1>3
<1>8. ev.topic = EventOf(r).topic
  <2>1. EventOf(r) = EventOf(ev)
    BY <1>7 DEF EventOf
  <2>2. EventOf(ev) \in Emitted
    BY <1>5, ChainAssumption DEF WasEmitted, Seen, EventOf
  <2>3. "topic" \in DOMAIN EventOf(ev)
    BY <2>2 DEF Emitted
  <2> QED
    BY <2>1, <2>3, <1>5 DEF WasEmitted
<1> QED
  BY <1>3, <1>6, <1>7, <1>8 DEF Stored

(* Until a rewind no event is handed to subscribers and webhooks a second    *)
(* time, however often the process is restarted, writes fail or the cursor   *)
(* is set back by hand.                                                      *)
THEOREM EventsArePublishedOnce == ServiceSpec => PublishedOnce
<1>1. LoopInv /\ [ServiceNext]_serviceVars =>
        [(pending' # pending /\ pending' # <<>> /\ ~rewound)
            => \A r \in published : <<r.tx, r.index>> # <<pending'[1].tx, pending'[1].index>>]_indexerVars
  BY PublishStep
<1> QED
  BY <1>1, AlwaysInv, PTL DEF ServiceSpec, PublishedOnce

----------------------------------------------------------------------------
(* Sums over the stored rows *)

\* One more element adds its value to a sum.
LEMMA SumExtend ==
    ASSUME NEW S, IsFiniteSet(S), NEW x, x \notin S, NEW f \in [S -> Int], NEW g \in [S \cup {x} -> Int],
           \A y \in S : g[y] = f[y]
    PROVE  SumFunction(f) \in Int /\ SumFunction(g) = SumFunction(f) + g[x]
<1>1. IsFiniteSet(S \cup {x}) /\ (S \cup {x}) \ {x} = S
  BY FS_AddElement
<1>2. SumFunctionOnSet(g, S \cup {x}) = g[x] + SumFunctionOnSet(g, S)
  <2>1. \A y \in S \cup {x} : g[y] \in Int
    OBVIOUS
  <2>2. SumFunctionOnSet(g, S \cup {x}) = g[x] + SumFunctionOnSet(g, (S \cup {x}) \ {x})
    BY <1>1, <2>1, SumRemove
  <2> QED
    BY <2>2, <1>1
<1>3. SumFunctionOnSet(g, S) = SumFunctionOnSet(f, S)
  BY SumCongruent
<1>4. SumFunctionOnSet(f, S) \in Int
  <2>1. \A y \in S : f[y] \in Int
    OBVIOUS
  <2> QED
    BY <2>1, SumType
<1>5. SumFunction(f) = SumFunctionOnSet(f, S) /\ SumFunction(g) = SumFunctionOnSet(g, S \cup {x})
  <2>1. DOMAIN f = S /\ DOMAIN g = S \cup {x}
    OBVIOUS
  <2> QED
    BY <2>1 DEF SumFunction
<1>6. g[x] \in Int
  OBVIOUS
<1> QED
  BY <1>2, <1>3, <1>4, <1>5, <1>6

\* The changes an event makes to the balances add up to its change of the supply.
LEMMA DeltasAddUp ==
    ASSUME NEW ev, WasEmitted(ev), Family(ev.topic) \in TokenFamilies,
           NEW h \in [Accounts -> Int]
    PROVE  /\ SumFunction(h) \in Int /\ supplyDeltaFor(ev) \in Int
           /\ SumFunction(applyDeltas(h, ev)) = SumFunction(h) + supplyDeltaFor(ev)
<1>1. IsFiniteSet(Accounts) /\ ev.amount \in Int /\ ev.from \in Accounts /\ ev.to \in Accounts
  BY RowShape, ChainAssumption DEF Emitted
<1>2. PICK n \in Int, m \in Int : /\ n = IF ev.topic # "burn" THEN ev.amount ELSE 0
                                  /\ m = IF ev.topic # "mint" THEN -ev.amount ELSE 0
  BY <1>1
<1>3. PICK g : g = Added(h, ev.to, n)
  OBVIOUS
<1>4. /\ SumFunction(h) \in Int /\ g \in [Accounts -> Int] /\ SumFunction(g) = SumFunction(h) + n
  BY <1>1, <1>3, SumAdd
<1>5. PICK k : k = Added(g, ev.from, m)
  OBVIOUS
<1>6. k \in [Accounts -> Int] /\ SumFunction(k) = SumFunction(g) + m
  <2>1. PICK A, f, s : A = Accounts /\ f = g /\ s = ev.from
    OBVIOUS
  <2>2. IsFiniteSet(A) /\ f \in [A -> Int] /\ s \in A /\ m \in Int
    BY <1>1, <1>4, <2>1
  <2>3. Added(f, s, m) \in [A -> Int] /\ SumFunction(Added(f, s, m)) = SumFunction(f) + m
    BY ONLY <2>2, SumAdd
  <2> QED
    BY ONLY <1>5, <2>1, <2>3
<1>7. k = applyDeltas(h, ev)
  <2>1. ASSUME NEW a \in Accounts
        PROVE  k[a] = h[a] + deltasFor(ev)[a]
    <3>1. deltasFor(ev)[a] = (IF ev.topic # "burn" /\ ev.to = a THEN ev.amount ELSE 0)
                             - (IF ev.topic # "mint" /\ ev.from = a THEN ev.amount ELSE 0)
      BY DEF deltasFor
    <3>2. g[a] = IF a = ev.to THEN h[a] + n ELSE h[a]
      BY <1>1, <1>3 DEF Added
    <3>3. k[a] = IF a = ev.from THEN g[a] + m ELSE g[a]
      BY <1>1, <1>4, <1>5 DEF Added
    <3>4. h[a] \in Int /\ g[a] \in Int
      BY <1>4
    <3> QED
      BY <3>1, <3>2, <3>3, <3>4, <1>1, <1>2
  <2> QED
    BY <2>1, <1>6 DEF applyDeltas
<1>8. n + m = supplyDeltaFor(ev) /\ supplyDeltaFor(ev) \in Int
  <2>1. CASE ev.topic = "mint"
    BY <2>1, <1>1, <1>2 DEF supplyDeltaFor
  <2>2. CASE ev.topic = "burn"
    BY <2>2, <1>1, <1>2 DEF supplyDeltaFor
  <2>3. CASE ev.topic # "mint" /\ ev.topic # "burn"
    BY <2>3, <1>1, <1>2 DEF supplyDeltaFor
  <2> QED
    BY <2>1, <2>2, <2>3
<1> QED
  BY <1>2, <1>4, <1>6, <1>7, <1>8

\* The row of an event that is stored is new, and with it the pair of its
\* transaction and place.
LEMMA StoredRowIsNew ==
    ASSUME LoopInv, NEW ev, WasEmitted(ev), ~Stored(ev)
    PROVE  /\ RowOf(ev) \notin rows
           /\ \A r \in rows : <<r.tx, r.index>> # <<ev.tx, ev.index>>
<1>1. ASSUME NEW r \in rows, r.tx = ev.tx, r.index = ev.index PROVE FALSE
  <2>1. r.family = Family(EventOf(r).topic)
    BY Facts DEF EventsWereEmitted
  <2>2. EventOf(r) = EventsOf[ev.tx][ev.index]
    BY <1>1 DEF EventOf
  <2>3. r.family = Family(ev.topic)
    BY <2>1, <2>2, RowShape
  <2> QED
    BY <2>3, <1>1 DEF Stored
<1>2. RowOf(ev).tx = ev.tx /\ RowOf(ev).index = ev.index
  BY RowShape
<1> QED
  BY <1>1, <1>2

\* The supply family of an event is its topic.
LEMMA SupplyFamilies ==
    ASSUME NEW topic
    PROVE  /\ Family(topic) \in SupplyTopics <=> topic \in SupplyTopics
           /\ Family(topic) \in SupplyTopics => Family(topic) \in TokenFamilies
BY DEF Family, SupplyTopics, TransferTopics, TokenFamilies

\* A row has the deltas of its event.
LEMMA RowDeltas ==
    ASSUME LoopInv, NEW r \in rows
    PROVE  /\ r.tx \in Txs /\ r.index \in DOMAIN EventsOf[r.tx] /\ EventOf(r) \in Emitted
           /\ r.family = Family(EventOf(r).topic) /\ r.family # "none"
           /\ \A a \in Accounts : deltasFor(EventOf(r))[a] \in Int
<1>1. Seen(r) /\ r.family = Family(EventOf(r).topic) /\ r.family # "none"
  BY Facts DEF EventsWereEmitted
<1>2. r.tx \in Txs /\ r.index \in DOMAIN EventsOf[r.tx]
  BY <1>1 DEF Seen
<1>3. EventOf(r) \in Emitted
  BY <1>2, EventShape DEF EventOf
<1>4. EventOf(r).amount \in Int
  BY <1>3 DEF Emitted
<1> QED
  BY <1>1, <1>2, <1>3, <1>4 DEF deltasFor

\* Storing a token event keeps the balances the sum of the rows.
LEMMA StoreMatches ==
    ASSUME LoopInv, NEW ev, WasEmitted(ev), Stores(ev), holders = FoldedBalances
    PROVE  holders' = FoldedBalances'
<1>1. rows' = rows \cup {RowOf(ev)} /\ ~Stored(ev) /\ Family(ev.topic) # "none"
  BY DEF Stores, Persist
<1>2. RowOf(ev) \notin rows /\ RowOf(ev).family = Family(ev.topic)
  BY <1>1, StoredRowIsNew, RowShape
<1>3. \A a \in Accounts : deltasFor(EventOf(RowOf(ev)))[a] = deltasFor(ev)[a]
  BY RowShape DEF deltasFor
<1>4. CASE Family(ev.topic) \notin TokenFamilies
  <2>1. holders' = holders
    BY <1>4 DEF Stores, Persist
  <2>2. TokenRows' = TokenRows
    BY <1>1, <1>2, <1>4 DEF TokenRows
  <2> QED
    BY <2>1, <2>2 DEF FoldedBalances, EventOf
<1>5. CASE Family(ev.topic) \in TokenFamilies
  <2>1. holders' = applyDeltas(holders, ev)
    BY <1>5 DEF Stores, Persist
  <2>2. PICK S : S = TokenRows
    OBVIOUS
  <2>3. PICK x : x = RowOf(ev)
    OBVIOUS
  <2>4. TokenRows' = S \cup {x} /\ x \notin S /\ IsFiniteSet(S) /\ S \subseteq rows
    <3>1. IsFiniteSet(rows)
      BY DEF LoopInv, IndexerTypeOK
    <3>2. S \subseteq rows
      BY <2>2 DEF TokenRows
    <3>3. IsFiniteSet(S)
      BY <3>1, <3>2, FS_Subset
    <3>4. TokenRows' = S \cup {x}
      BY <2>2, <2>3, <1>1, <1>2, <1>5 DEF TokenRows
    <3> QED
      BY <3>2, <3>3, <3>4, <2>3, <1>2
  <2>5. ASSUME NEW a \in Accounts
        PROVE  FoldedBalances'[a] = FoldedBalances[a] + deltasFor(ev)[a]
    <3> DEFINE f == [r \in S |-> deltasFor(EventOf(r))[a]]
               g == [r \in S \cup {x} |-> deltasFor(EventOf(r))[a]]
    <3>1. f \in [S -> Int]
      BY <2>4, RowDeltas
    <3>2. deltasFor(EventOf(x))[a] = deltasFor(ev)[a] /\ deltasFor(ev)[a] \in Int
      BY <2>3, <1>3, DeltasTyped
    <3>3. g \in [S \cup {x} -> Int] /\ g[x] = deltasFor(ev)[a] /\ \A y \in S : g[y] = f[y]
      <4>1. \A y \in S : deltasFor(EventOf(y))[a] \in Int
        BY <2>4, RowDeltas
      <4> QED
        BY <4>1, <3>2
    <3>4. FoldedBalances[a] = SumFunction(f)
      BY <2>2 DEF FoldedBalances
    <3>5. FoldedBalances'[a] = SumFunction(g)
      BY <2>4 DEF FoldedBalances, EventOf
    <3> HIDE DEF f, g
    <3>6. SumFunction(g) = SumFunction(f) + g[x]
      BY <3>1, <3>3, <2>4, SumExtend
    <3> QED
      BY <3>3, <3>4, <3>5, <3>6
  <2>6. FoldedBalances' = [a \in Accounts |-> FoldedBalances'[a]]
    BY DEF FoldedBalances
  <2> QED
    BY <2>1, <2>5, <2>6 DEF applyDeltas
<1> QED
  BY <1>4, <1>5

\* The places of the mints and burns that have rows.
SupplyRows == {<<r.tx, r.index>> : r \in {q \in rows : q.family \in SupplyTopics}}

\* They are finitely many, and each moves the supply by a number.
LEMMA SupplyRowsFinite ==
    ASSUME LoopInv
    PROVE  /\ IsFiniteSet(SupplyRows)
           /\ \A e \in SupplyRows : supplyDeltaFor(EventsOf[e[1]][e[2]]) \in Int
           /\ \A tx, i : <<tx, i>> \in SupplyRows <=>
                \E r \in rows : r.family \in SupplyTopics /\ r.tx = tx /\ r.index = i
<1>1. PICK Q : Q = {q \in rows : q.family \in SupplyTopics}
  OBVIOUS
<1>2. PICK P : P = SupplyRows
  OBVIOUS
<1>3. P = {<<r.tx, r.index>> : r \in Q}
  BY <1>1, <1>2 DEF SupplyRows
<1>4. IsFiniteSet(Q)
  <2>1. IsFiniteSet(rows) /\ Q \subseteq rows
    BY <1>1 DEF LoopInv, IndexerTypeOK
  <2> QED
    BY <2>1, FS_Subset
<1>5. IsFiniteSet(P)
  <2> DEFINE F == [r \in Q |-> <<r.tx, r.index>>]
  <2>1. F \in [Q -> P] /\ \A e \in P : \E r \in Q : F[r] = e
    BY <1>3
  <2> HIDE DEF F
  <2>2. F \in Surjection(Q, P)
    BY <2>1 DEF Surjection
  <2> QED
    BY <2>2, <1>4, FS_Surjection
<1>6. ASSUME NEW e \in P PROVE supplyDeltaFor(EventsOf[e[1]][e[2]]) \in Int
  <2>1. PICK r \in Q : e = <<r.tx, r.index>>
    BY <1>3
  <2>2. r \in rows /\ e[1] = r.tx /\ e[2] = r.index
    BY <1>1, <2>1
  <2>3. e[1] \in Txs /\ e[2] \in DOMAIN EventsOf[e[1]]
    BY <2>2, RowDeltas
  <2> QED
    BY <2>3, EventShape
<1>7. \A tx, i : <<tx, i>> \in P <=> \E r \in rows : r.family \in SupplyTopics /\ r.tx = tx /\ r.index = i
  BY <1>1, <1>3
<1> QED
  BY <1>2, <1>5, <1>6, <1>7

\* One more mint or burn moves the supply by its amount.
LEMMA SupplyExtend ==
    ASSUME NEW S, IsFiniteSet(S), NEW tx, NEW i, <<tx, i>> \notin S,
           \A e \in S : supplyDeltaFor(EventsOf[e[1]][e[2]]) \in Int,
           supplyDeltaFor(EventsOf[tx][i]) \in Int
    PROVE  SupplyOf(S \cup {<<tx, i>>}) = SupplyOf(S) + supplyDeltaFor(EventsOf[tx][i])
<1>1. PICK x : x = <<tx, i>>
  OBVIOUS
<1>2. x[1] = tx /\ x[2] = i /\ x \notin S
  BY <1>1
<1> DEFINE f == [e \in S |-> supplyDeltaFor(EventsOf[e[1]][e[2]])]
           g == [e \in S \cup {x} |-> supplyDeltaFor(EventsOf[e[1]][e[2]])]
<1>3. f \in [S -> Int]
  OBVIOUS
<1>4. \A e \in S \cup {x} : supplyDeltaFor(EventsOf[e[1]][e[2]]) \in Int
  BY <1>2
<1>5. g \in [S \cup {x} -> Int] /\ g[x] = supplyDeltaFor(EventsOf[tx][i]) /\ \A y \in S : g[y] = f[y]
  BY <1>2, <1>4
<1>6. SupplyOf(S) = SumFunction(f) /\ SupplyOf(S \cup {x}) = SumFunction(g)
  BY DEF SupplyOf
<1> HIDE DEF f, g
<1>7. SumFunction(g) = SumFunction(f) + g[x]
  <2>1. IsFiniteSet(S) /\ x \notin S /\ f \in [S -> Int] /\ g \in [S \cup {x} -> Int] /\ \A y \in S : g[y] = f[y]
    BY <1>2, <1>3, <1>5
  <2> QED
    BY ONLY <2>1, SumExtend
<1> QED
  BY <1>1, <1>5, <1>6, <1>7

\* Storing an event keeps the balances adding up to the mints less the burns.
LEMMA StoreAddsUp ==
    ASSUME LoopInv, NEW ev, WasEmitted(ev), Stores(ev), SumFunction(holders) = SupplyOf(SupplyRows)
    PROVE  /\ SumFunction(holders') = SupplyOf(SupplyRows')
           /\ Family(ev.topic) \notin SupplyTopics => SumFunction(holders') = SumFunction(holders)
<1>1. rows' = rows \cup {RowOf(ev)} /\ ~Stored(ev) /\ Family(ev.topic) # "none"
  BY DEF Stores, Persist
<1>2. RowOf(ev).family = Family(ev.topic) /\ RowOf(ev).tx = ev.tx /\ RowOf(ev).index = ev.index
  BY RowShape
<1>3. <<ev.tx, ev.index>> \notin SupplyRows
  BY <1>1, StoredRowIsNew DEF SupplyRows
<1>4. holders \in [Accounts -> Int]
  BY DEF LoopInv, IndexerTypeOK
<1>5. supplyDeltaFor(ev) = supplyDeltaFor(EventsOf[ev.tx][ev.index])
  BY RowShape DEF supplyDeltaFor
<1>6. CASE Family(ev.topic) \in SupplyTopics
  <2>1. holders' = applyDeltas(holders, ev) /\ Family(ev.topic) \in TokenFamilies
    BY <1>6, SupplyFamilies DEF Stores, Persist
  <2>2. SumFunction(holders') = SumFunction(holders) + supplyDeltaFor(ev) /\ supplyDeltaFor(ev) \in Int
    BY <2>1, <1>4, DeltasAddUp
  <2>3. SupplyRows' = SupplyRows \cup {<<ev.tx, ev.index>>}
    BY <1>1, <1>2, <1>6 DEF SupplyRows
  <2>4. SupplyOf(SupplyRows \cup {<<ev.tx, ev.index>>}) =
            SupplyOf(SupplyRows) + supplyDeltaFor(EventsOf[ev.tx][ev.index])
    BY <1>3, <1>5, <2>2, SupplyRowsFinite, SupplyExtend
  <2>5. SupplyOf(SupplyRows)' = SupplyOf(SupplyRows \cup {<<ev.tx, ev.index>>})
    BY <2>3 DEF SupplyOf
  <2> QED
    BY <2>2, <2>4, <2>5, <1>5, <1>6
<1>7. CASE Family(ev.topic) \notin SupplyTopics
  <2>1. SupplyRows' = SupplyRows
    BY <1>1, <1>2, <1>7 DEF SupplyRows
  <2>2. SumFunction(holders') = SumFunction(holders)
    <3>1. CASE Family(ev.topic) \notin TokenFamilies
      BY <3>1 DEF Stores, Persist
    <3>2. CASE Family(ev.topic) \in TokenFamilies
      <4>1. holders' = applyDeltas(holders, ev)
        BY <3>2 DEF Stores, Persist
      <4>2. SumFunction(holders') = SumFunction(holders) + supplyDeltaFor(ev) /\ SumFunction(holders) \in Int
        BY <4>1, <3>2, <1>4, DeltasAddUp
      <4>3. supplyDeltaFor(ev) = 0
        BY <1>7, SupplyFamilies DEF supplyDeltaFor, SupplyTopics
      <4> QED
        BY <4>2, <4>3
    <3> QED
      BY <3>1, <3>2
  <2>3. SupplyOf(SupplyRows)' = SupplyOf(SupplyRows)
    BY <2>1 DEF SupplyOf
  <2> QED
    BY <2>2, <2>3
<1> QED
  BY <1>6, <1>7

----------------------------------------------------------------------------
(* A chain that is never reorganised *)

\* Everything the RPC has ever answered is still so.
LEMMA UndisturbedAnswers ==
    ASSUME LoopInv, forks = 0
    PROVE  /\ \A n \in 0 .. Len(chain) : HashAt(chain, n) = <<n, 0>>
           /\ \A k : Answer(k) => OnChain(k) /\ k = toLedgerCoordinate(k.ledger)
<1>1. Len(chain) \in Nat /\ chain \in Seq(Block)
  BY Facts DEF ChainOK, Block
<1>2. \A n \in 1 .. Len(chain) : chain[n].hash = 0
  <2>1. \A n \in 1 .. Len(chain) : chain[n] \in Block
    BY <1>1
  <2> QED
    BY <2>1 DEF Block
<1>3. \A n \in 0 .. Len(chain) : HashAt(chain, n) = <<n, 0>>
  BY <1>1, <1>2 DEF HashAt
<1>4. ASSUME NEW k, Answer(k) PROVE OnChain(k) /\ k = toLedgerCoordinate(k.ledger)
  <2>1. PICK n \in 1 .. Len(chain), f \in 0 .. forks, g \in 0 .. forks :
            k = [ledger |-> n, hash |-> <<n, f>>, parentHash |-> <<n - 1, g>>]
    BY <1>4 DEF Answer
  <2>2. f = 0 /\ g = 0 /\ n \in 0 .. Len(chain) /\ n - 1 \in 0 .. Len(chain)
    BY <1>1
  <2>3. k = [ledger |-> n, hash |-> <<n, 0>>, parentHash |-> <<n - 1, 0>>]
    BY <2>1, <2>2
  <2>4. k.ledger = n /\ k.hash = <<n, 0>>
    BY <2>3
  <2>5. HashAt(chain, n) = <<n, 0>> /\ HashAt(chain, n - 1) = <<n - 1, 0>>
    BY <2>2, <1>3
  <2>6. k = toLedgerCoordinate(n)
    BY <2>3, <2>5 DEF toLedgerCoordinate
  <2>7. OnChain(k)
    BY <2>4, <2>5, <1>1 DEF OnChain
  <2> QED
    BY <2>4, <2>6, <2>7
<1> QED
  BY <1>3, <1>4

\* So in a whole answer nothing is found to differ.
LEMMA NoMismatch ==
    ASSUME LoopInv, forks = 0, ~rewound, lastLedger.ledger > 0, reset = 0 \/ limits.old = 0
    PROVE  ~Reconciliation(lastLedger, Scanned(lastLedger)).mismatch
<1>1. PICK c : c = lastLedger
  OBVIOUS
<1>2. /\ c.ledger \in Int /\ c.ledger > 0 /\ Lookback \in Nat /\ Lookback > 0 /\ Len(chain) \in Nat
      /\ c.ledger <= Len(chain)
  BY <1>1, Facts, BoundsAssumption DEF LedgersWereAnswered
<1> DEFINE first == scanStart(c)
           persisted == {k \in checkpoints : first <= k.ledger /\ k.ledger <= c.ledger}
           remote == Scanned(c)
           wrong == persisted \ remote
           cursorWrong == /\ c.hash # NoHash
                          /\ \A r \in remote : r.ledger = c.ledger =>
                               r.hash # c.hash \/ (c.parentHash # NoHash /\ r.parentHash # c.parentHash)
<1>3. Reconciliation(lastLedger, Scanned(lastLedger)).mismatch =
        (\/ wrong # {}
         \/ /\ \A k \in persisted : k.ledger # c.ledger
            /\ cursorWrong)
  BY <1>1 DEF Reconciliation
<1>4. /\ first \in Int /\ first >= 1 /\ first <= c.ledger /\ c.ledger <= first + Lookback - 1
  BY <1>2 DEF scanStart
<1>7. remote = getLedgers(first, first + Lookback - 1)
  BY DEF Scanned
<1> HIDE DEF first
<1>5. wrong = {}
  <2>1. ASSUME NEW k \in persisted PROVE k \in remote
    <3>1. Answer(k) /\ first <= k.ledger /\ k.ledger <= c.ledger
      BY Facts DEF LedgersWereAnswered
    <3>2. k = toLedgerCoordinate(k.ledger)
      BY <3>1, UndisturbedAnswers
    <3>3. k.ledger \in 1 .. Len(chain)
      BY <3>1, <1>2, Facts, AnswerShape
    <3>4. k.ledger \in {m \in first .. first + Lookback - 1 : 1 <= m /\ m <= Head0}
      BY <3>1, <3>3, <1>2, <1>4 DEF Head0
    <3> HIDE DEF remote
    <3> QED
      BY <3>2, <3>4, <1>7 DEF getLedgers
  <2> QED
    BY <2>1
<1>6. c.hash # NoHash => \E k \in persisted : k.ledger = c.ledger
  <2>1. ASSUME c.hash # NoHash PROVE \E k \in persisted : k.ledger = c.ledger
    <3>1. c.ledger \in 1 .. c.ledger
      BY <1>2
    <3>5. /\ \A n \in limits.old + 1 .. c.ledger : Checkpointed(n)
          /\ Checkpointed(c.ledger) \/ reset > 0
      BY <1>1, <2>1, Facts DEF CheckpointsReachDown
    <3>2. Checkpointed(c.ledger)
      <4>1. CASE reset = 0
        BY <4>1, <3>5
      <4>2. CASE limits.old = 0
        <5>1. c.ledger \in limits.old + 1 .. c.ledger
          BY <4>2, <3>1
        <5> QED
          BY <5>1, <3>5
      <4> QED
        BY <4>1, <4>2
    <3>3. PICK k \in checkpoints : k.ledger = c.ledger
      BY <3>2 DEF Checkpointed
    <3>4. k \in persisted
      BY <3>3, <1>2, <1>4
    <3> QED
      BY <3>3, <3>4
  <2> QED
    BY <2>1
<1> QED
  BY <1>3, <1>5, <1>6

\* What holds of the events under way and of the rows then.
RowsInPlace == \A r \in rows : InPlace(r)
EventsInPlace ==
    /\ \A i \in DOMAIN events : /\ InPlace(events[i])
                                /\ pc \in {"process", "publish"} => events[i].ledger <= endLedger
                                /\ events[i].newSupply = SupplyOf(SupplyEvents(events[i].ledger, events[i].index))
    /\ \A i, j \in DOMAIN events : i < j => Earlier(events[i], events[j])

\* No fault has been met, and no cursor been set into an older version's ledgers.
Calm == faults = 0 /\ (reset = 0 \/ limits.old = 0)

\* The conjuncts by name.
LEMMA UndisturbedParts ==
    /\ UndisturbedChain <=> (forks = 0 => (Calm => ~rewound) /\ RowsInPlace /\ EventsInPlace)
    /\ UndisturbedChain' <=> (forks' = 0 => (Calm' => ~rewound') /\ RowsInPlace' /\ EventsInPlace')
BY DEF UndisturbedChain, RowsInPlace, EventsInPlace, Calm

\* The events up to some event of the chain stay when the chain grows.
LEMMA CloseKeepsSupply ==
    ASSUME LoopInv, Close, NEW n \in 1 .. Len(chain), NEW i
    PROVE  SupplyOf(SupplyEvents(n, i))' = SupplyOf(SupplyEvents(n, i)) /\ chain'[n] = chain[n]
<1>1. Len(chain) \in Nat /\ chain \in Seq([hash : 0 .. forks, tx : Txs \cup {NoTx}])
  BY Facts DEF ChainOK
<1>2. PICK b : chain' = Append(chain, b)
  BY DEF Close
<1>3. \A m \in 1 .. Len(chain) : chain'[m] = chain[m]
  BY <1>1, <1>2
<1>4. \A m \in 1 .. n : chain'[m] = chain[m]
  BY <1>1, <1>3
<1>5. chain'[n] = chain[n]
  BY <1>3
<1>6. SupplyEvents(n, i)' = SupplyEvents(n, i)
  BY <1>4, <1>5 DEF SupplyEvents
<1>7. SupplyOf(SupplyEvents(n, i))' = SupplyOf(SupplyEvents(n, i))
  BY <1>6 DEF SupplyOf
<1> QED
  BY <1>5, <1>7

----------------------------------------------------------------------------
(* The aggregates *)

\* What the steps keep of the aggregates.
Agg == /\ HoldersMatchRowsUntilRewind /\ SupplyMatchesHolders
       /\ HoldersAddUp /\ UndisturbedChain /\ RowsAreAPrefix

\* The balances and the rows, spelled out.
LEMMA AggParts ==
    ASSUME Agg
    PROVE  /\ ~rewound => holders = FoldedBalances /\ SumFunction(holders) = SupplyOf(SupplyRows)
           /\ forks = 0 => (Calm => ~rewound) /\ RowsInPlace /\ EventsInPlace
           /\ forks = 0 /\ ~rewound /\ lost = {} => supply = SumFunction(holders)
           /\ RowsAreAPrefix
<1>1. ~rewound => holders = FoldedBalances /\ SumFunction(holders) = SupplyOf(SupplyRows)
  BY DEF Agg, HoldersMatchRowsUntilRewind, HoldersAddUp, SupplyRows
<1>2. forks = 0 => (Calm => ~rewound) /\ RowsInPlace /\ EventsInPlace
  BY UndisturbedParts DEF Agg
<1> QED
  BY <1>1, <1>2 DEF Agg, SupplyMatchesHolders

\* On the same chain the same supply is reported.
LEMMA SameSupply ==
    ASSUME UNCHANGED chain
    PROVE  /\ \A n, i : SupplyOf(SupplyEvents(n, i))' = SupplyOf(SupplyEvents(n, i))
           /\ \A e : InPlace(e)' = InPlace(e)
<1>1. ASSUME NEW n, NEW i PROVE SupplyOf(SupplyEvents(n, i))' = SupplyOf(SupplyEvents(n, i))
  <2>1. SupplyEvents(n, i)' = SupplyEvents(n, i)
    BY DEF SupplyEvents
  <2> QED
    BY <2>1 DEF SupplyOf
<1> QED
  BY <1>1 DEF InPlace

\* What has disturbed the loop stays on record.
LEMMA FaultsAreCounted ==
    ASSUME LoopInv,
           \/ Boot \/ Poll \/ FetchLedgers \/ Commit \/ IngestionError \/ processEvent
           \/ publishIndexerEvent \/ Restart \/ ResetCursor \/ UNCHANGED indexerVars
    PROVE  Calm' => Calm
<1>1. faults \in Nat /\ reset \in Nat
  <2>1. limits.faults \in Nat /\ limits.resets \in Nat
    BY BoundsAssumption DEF LoopInv, IndexerTypeOK
  <2> QED
    BY <2>1 DEF LoopInv, IndexerTypeOK
<1>2. limits' = limits /\ faults' \in {faults, faults + 1} /\ reset' \in {reset, reset + 1}
  <2>1. CASE Boot \/ FetchLedgers
    BY <2>1 DEF Boot, FetchLedgers, Partly, history
  <2>2. CASE Poll \/ Commit \/ publishIndexerEvent
    BY <2>2 DEF Poll, Commit, publishIndexerEvent, history, budget
  <2>3. CASE IngestionError \/ Restart
    BY <2>3 DEF IngestionError, Restart, history
  <2>4. CASE processEvent
    BY <2>4 DEF processEvent, Skipped
  <2>5. CASE ResetCursor \/ UNCHANGED indexerVars
    BY <2>5 DEF ResetCursor, indexerVars, history, budget
  <2> QED
    BY <2>1, <2>2, <2>3, <2>4, <2>5
<1> QED
  BY <1>1, <1>2 DEF Calm

\* Steps that touch neither the tables nor the chain.
LEMMA QuietAgg ==
    ASSUME LoopInv, Agg, UNCHANGED <<chain, forks, rows, holders, supply, lost, rewound>>, Calm' => Calm,
           \/ events' = <<>>
           \/ /\ events' = events
              /\ pc' \in {"process", "publish"} => pc \in {"process", "publish"} /\ endLedger' = endLedger
    PROVE  Agg'
<1>1. HoldersMatchRowsUntilRewind'
  <2>1. FoldedBalances' = FoldedBalances
    BY DEF FoldedBalances, TokenRows, EventOf
  <2> QED
    BY <2>1 DEF Agg, HoldersMatchRowsUntilRewind
<1>2. SupplyMatchesHolders' /\ HoldersAddUp'
  BY DEF Agg, SupplyMatchesHolders, HoldersAddUp, SupplyOf
<1>3. RowsAreAPrefix'
  <2>1. \A tx, i : Done(tx, i)' = Done(tx, i)
    BY DEF Done
  <2> QED
    BY <2>1 DEF Agg, RowsAreAPrefix
<1>4. ASSUME forks = 0 PROVE (Calm' => ~rewound') /\ RowsInPlace' /\ EventsInPlace'
  <2>1. (Calm' => ~rewound') /\ RowsInPlace /\ EventsInPlace
    BY <1>4, AggParts
  <2>2. /\ \A n, i : SupplyOf(SupplyEvents(n, i))' = SupplyOf(SupplyEvents(n, i))
        /\ \A e : InPlace(e)' = InPlace(e)
    BY SameSupply
  <2>3. RowsInPlace'
    BY <2>1, <2>2 DEF RowsInPlace
  <2>4. CASE events' = <<>>
    <3>1. DOMAIN events' = {}
      BY <2>4
    <3> QED
      BY <3>1, <2>1, <2>3 DEF EventsInPlace
  <2>5. CASE /\ events' = events
             /\ pc' \in {"process", "publish"} => pc \in {"process", "publish"} /\ endLedger' = endLedger
    <3>1. \A i \in DOMAIN events :
            /\ InPlace(events[i]) /\ (pc \in {"process", "publish"} => events[i].ledger <= endLedger)
            /\ events[i].newSupply = SupplyOf(SupplyEvents(events[i].ledger, events[i].index))
      BY <2>1 DEF EventsInPlace
    <3>2. ASSUME NEW i \in DOMAIN events'
          PROVE  (/\ InPlace(events[i]) /\ (pc \in {"process", "publish"} => events[i].ledger <= endLedger)
                  /\ events[i].newSupply = SupplyOf(SupplyEvents(events[i].ledger, events[i].index)))'
      BY <2>5, <3>1, <2>2
    <3>3. \A i, j \in DOMAIN events' : i < j => Earlier(events'[i], events'[j])
      BY <2>1, <2>5 DEF EventsInPlace
    <3>4. EventsInPlace'
      BY <3>2, <3>3 DEF EventsInPlace, Earlier
    <3> QED
      BY <3>4, <2>1, <2>3
  <2> QED
    BY <2>4, <2>5
<1>5. UndisturbedChain'
  BY <1>4, UndisturbedParts
<1> QED
  BY <1>1, <1>2, <1>3, <1>5 DEF Agg

\* The network: a reorganisation ends what is said of an undisturbed chain, and
\* a ledger that is closed is above everything stored.
LEMMA NetworkAgg ==
    ASSUME LoopInv, Agg, Close \/ Reorg
    PROVE  Agg'
<1>1. UNCHANGED <<rows, holders, supply, lost, rewound, events, pc, endLedger>>
  BY DEF Close, Reorg, database, local, history
<1>2. HoldersMatchRowsUntilRewind'
  <2>1. FoldedBalances' = FoldedBalances
    BY <1>1 DEF FoldedBalances, TokenRows, EventOf
  <2> QED
    BY <2>1, <1>1 DEF Agg, HoldersMatchRowsUntilRewind
<1>3. HoldersAddUp'
  BY <1>1 DEF Agg, HoldersAddUp, SupplyOf
<1>4. CASE Reorg
  <2>1. forks' # 0
    <3>1. forks \in Nat /\ forks' = forks + 1
      BY <1>4, Facts DEF Reorg
    <3> QED
      BY <3>1
  <2> QED
    BY <2>1, <1>2, <1>3 DEF Agg, SupplyMatchesHolders, UndisturbedChain, RowsAreAPrefix
<1>5. CASE Close
  <2>1. forks' = forks
    BY <1>5 DEF Close
  <2>2. SupplyMatchesHolders'
    BY <2>1, <1>1 DEF Agg, SupplyMatchesHolders
  <2>3. /\ Len(chain) \in Nat /\ DOMAIN chain = 1 .. Len(chain)
        /\ \A r \in rows : r.ledger \in 1 .. Len(chain)
        /\ \A i \in DOMAIN events : events[i].ledger \in 1 .. Len(chain)
    BY Facts DEF EventsWereEmitted, WasEmitted, Seen
  <2>4. \A n \in 1 .. Len(chain) : chain'[n] = chain[n]
    BY <1>5, CloseKeepsSupply
  <2>5. \A n \in 1 .. Len(chain) : \A i : SupplyOf(SupplyEvents(n, i))' = SupplyOf(SupplyEvents(n, i))
    BY <1>5, CloseKeepsSupply
  <2>6. ASSUME forks' = 0 PROVE (Calm' => ~rewound') /\ RowsInPlace' /\ EventsInPlace'
    <3>6. Calm' <=> Calm
      BY <1>5 DEF Close, Calm, history, budget
    <3>1. (Calm' => ~rewound') /\ RowsInPlace /\ EventsInPlace
      BY <2>1, <2>6, <3>6, <1>1, AggParts
    <3>2. RowsInPlace'
      BY <3>1, <2>3, <2>4, <1>1 DEF RowsInPlace, InPlace
    <3>3. ASSUME NEW i \in DOMAIN events'
          PROVE  (/\ InPlace(events[i]) /\ (pc \in {"process", "publish"} => events[i].ledger <= endLedger)
                  /\ events[i].newSupply = SupplyOf(SupplyEvents(events[i].ledger, events[i].index)))'
      <4>1. /\ InPlace(events[i]) /\ (pc \in {"process", "publish"} => events[i].ledger <= endLedger)
            /\ events[i].newSupply = SupplyOf(SupplyEvents(events[i].ledger, events[i].index))
            /\ events[i].ledger \in 1 .. Len(chain)
        BY <3>1, <3>3, <2>3, <1>1 DEF EventsInPlace
      <4>2. InPlace(events[i])'
        BY <4>1, <2>4, <1>1 DEF InPlace
      <4>3. (pc \in {"process", "publish"} => events[i].ledger <= endLedger)'
        BY <4>1, <1>1
      <4>4. PICK n, h : n \in 1 .. Len(chain) /\ n = events[i].ledger /\ h = events[i].index
        BY <4>1
      <4>5. events[i].newSupply = SupplyOf(SupplyEvents(n, h))'
        BY <4>1, <4>4, <2>5
      <4>6. (events[i].newSupply = SupplyOf(SupplyEvents(events[i].ledger, events[i].index)))'
        BY <4>4, <4>5, <1>1
      <4> QED
        BY <4>2, <4>3, <4>6
    <3>4. \A i, j \in DOMAIN events' : i < j => Earlier(events'[i], events'[j])
      BY <3>1, <1>1 DEF EventsInPlace
    <3>5. EventsInPlace'
      BY <3>3, <3>4 DEF EventsInPlace, Earlier
    <3> QED
      BY <3>1, <3>2, <3>5, <1>1
  <2>7. UndisturbedChain'
    BY <2>6, UndisturbedParts
  <2>8. RowsAreAPrefix'
    <3>1. ASSUME forks = 0, ~rewound, lost = {}, NEW r \in rows, NEW n \in DOMAIN chain', n <= r.ledger,
                 NEW tx, tx = chain'[n].tx, tx # NoTx, NEW i \in DOMAIN EventsOf[tx], n < r.ledger \/ i < r.index
          PROVE  Done(tx, i)'
      <4>1. n \in Nat /\ n >= 1
        <5>1. ChainOK'
          BY NetworkKeeps, Facts, <1>5 DEF NetworkStep
        <5> QED
          BY <5>1 DEF ChainOK
      <4>2. n \in 1 .. Len(chain)
        BY <3>1, <4>1, <2>3
      <4>3. n \in DOMAIN chain /\ tx = chain[n].tx
        BY <4>2, <3>1, <2>3, <2>4
      <4>4. Done(tx, i)
        BY <4>3, <3>1 DEF Agg, RowsAreAPrefix
      <4> QED
        BY <4>4, <1>1 DEF Done
    <3> QED
      BY <3>1, <2>1, <1>1 DEF RowsAreAPrefix
  <2> QED
    BY <1>2, <1>3, <2>2, <2>7, <2>8 DEF Agg
<1> QED
  BY <1>4, <1>5

\* The events that are fetched are those of the range, in the chain's order.
LEMMA FetchEventsAgg ==
    ASSUME LoopInv, Agg, FetchEvents
    PROVE  Agg'
<1>14. PICK all : all = getEvents(startLedger, endLedger)
  OBVIOUS
<1>1. /\ pc = "events" /\ events' = FirstPage(all) /\ lost' = lost \cup BeyondPage(all)
      /\ UNCHANGED <<chain, forks, rows, holders, supply, rewound, endLedger, faults, reset, limits>>
  BY <1>14 DEF FetchEvents, database, network, budget
<1>2. /\ Len(chain) \in Nat /\ startLedger \in 1 .. Len(chain) + 1 /\ endLedger \in startLedger .. Len(chain)
  BY <1>1, Facts DEF RangeIsFetched
<1>3. endLedger \in DOMAIN chain /\ startLedger \in 1 .. endLedger
  BY <1>2, Facts
<1>15. Gathered(all, startLedger, endLedger)
  BY <1>3, <1>14, RangeEvents, Facts
<1>4. /\ \A j \in DOMAIN events' : j \in DOMAIN all /\ events'[j] = all[j]
      /\ lost' = {} => lost = {}
  <2>1. all \in Seq(Range(all))
    BY <1>15 DEF Gathered
  <2>2. DOMAIN FirstPage(all) \subseteq DOMAIN all /\ \A j \in DOMAIN FirstPage(all) : FirstPage(all)[j] = all[j]
    BY <2>1, PageOfAnswer
  <2> QED
    BY <2>2, <1>1
<1>5. HoldersMatchRowsUntilRewind'
  <2>1. FoldedBalances' = FoldedBalances
    BY <1>1 DEF FoldedBalances, TokenRows, EventOf
  <2> QED
    BY <2>1, <1>1 DEF Agg, HoldersMatchRowsUntilRewind
<1>6. SupplyMatchesHolders' /\ HoldersAddUp'
  BY <1>1, <1>4 DEF Agg, SupplyMatchesHolders, HoldersAddUp, SupplyOf
<1>7. RowsAreAPrefix'
  <2>1. \A tx, i : Done(tx, i) => Done(tx, i)'
    BY <1>1 DEF Done
  <2> QED
    BY <2>1, <1>1, <1>4 DEF Agg, RowsAreAPrefix
<1>8. /\ \A n, i : SupplyOf(SupplyEvents(n, i))' = SupplyOf(SupplyEvents(n, i))
      /\ \A e : InPlace(e)' = InPlace(e)
  BY <1>1, SameSupply
<1>9. ASSUME NEW i \in DOMAIN events'
      PROVE  (/\ InPlace(events[i]) /\ (pc \in {"process", "publish"} => events[i].ledger <= endLedger)
              /\ events[i].newSupply = SupplyOf(SupplyEvents(events[i].ledger, events[i].index)))'
  <2>1. PICK ev : ev = events'[i]
    OBVIOUS
  <2>2. PICK m \in startLedger .. endLedger : Placed(ev, m)
    BY <2>1, <1>4, <1>15 DEF Gathered
  <2>3. ev.ledger = m /\ ev.tx = chain[m].tx /\ ev.newSupply = SupplyOf(SupplyEvents(m, ev.index))
    BY <2>2 DEF Placed
  <2>4. InPlace(ev) /\ ev.ledger <= endLedger
    BY <2>3, <1>2 DEF InPlace
  <2>5. ev.newSupply = SupplyOf(SupplyEvents(ev.ledger, ev.index))
    BY <2>3
  <2> QED
    BY <2>1, <2>4, <2>5, <1>1, <1>8
<1>10. \A i, j \in DOMAIN events' : i < j => Earlier(events'[i], events'[j])
  BY <1>4, <1>15 DEF Gathered
<1>11. EventsInPlace'
  BY <1>9, <1>10 DEF EventsInPlace, Earlier
<1>12. ASSUME forks' = 0 PROVE (Calm' => ~rewound') /\ RowsInPlace' /\ EventsInPlace'
  <2>1. (Calm' => ~rewound') /\ RowsInPlace
    BY <1>12, <1>1, AggParts DEF Calm
  <2> QED
    BY <2>1, <1>1, <1>8, <1>11 DEF RowsInPlace
<1>13. UndisturbedChain'
  BY <1>12, UndisturbedParts
<1> QED
  BY <1>5, <1>6, <1>7, <1>13 DEF Agg

\* A reconciliation with a whole answer prunes only after a reorganisation or a
\* reset, and after a rewind nothing more is said of the balances.
LEMMA ReconcileAgg ==
    ASSUME LoopInv, Agg, reconcileLedgerCursor
    PROVE  Agg'
<1>1. /\ pc' = "poll"
      /\ UNCHANGED <<chain, forks, holders, supply, events, endLedger, reset, limits>>
  BY DEF reconcileLedgerCursor, local, network
<1>2. PICK last \in 0 .. Head0 :
        LET remote == {k \in Scanned(lastLedger) : k.ledger <= last}
            found == Reconciliation(lastLedger, remote)
        IN  IF lastLedger.ledger > 0
            THEN /\ Partly(remote # Scanned(lastLedger))
                 /\ IF found.mismatch THEN Rewind(found.common)
                    ELSE UNCHANGED <<rows, checkpoints, cursor, lost, rewound>>
            ELSE UNCHANGED <<rows, checkpoints, cursor, lost, rewound, faults>>
  BY DEF reconcileLedgerCursor
<1>3. PICK remote : remote = {k \in Scanned(lastLedger) : k.ledger <= last}
  OBVIOUS
<1>4. IF lastLedger.ledger > 0
      THEN /\ Partly(remote # Scanned(lastLedger))
           /\ IF Reconciliation(lastLedger, remote).mismatch THEN Rewind(Reconciliation(lastLedger, remote).common)
              ELSE UNCHANGED <<rows, checkpoints, cursor, lost, rewound>>
      ELSE UNCHANGED <<rows, checkpoints, cursor, lost, rewound, faults>>
  BY <1>2, <1>3
<1>5. Calm' => Calm /\ (lastLedger.ledger > 0 => remote = Scanned(lastLedger))
  <2>1. CASE lastLedger.ledger > 0
    <3>1. PICK partial : partial = (remote # Scanned(lastLedger))
      OBVIOUS
    <3>2. Partly(partial)
      BY <3>1, <2>1, <1>4
    <3>3. faults' = 0 => ~partial /\ faults = 0
      BY <3>2, PartlyType DEF Partly
    <3> QED
      BY <3>1, <3>3, <1>1 DEF Calm
  <2>2. CASE ~(lastLedger.ledger > 0)
    BY <2>2, <1>1, <1>4 DEF Calm
  <2> QED
    BY <2>1, <2>2
<1>6. CASE lastLedger.ledger > 0 /\ Reconciliation(lastLedger, remote).mismatch
  <2>1. rewound' /\ rows' \subseteq rows
    BY <1>4, <1>6 DEF Rewind
  <2>2. forks = 0 => ~Calm'
    <3>1. ASSUME forks = 0, Calm' PROVE FALSE
      <4>1. Calm /\ remote = Scanned(lastLedger)
        BY <3>1, <1>5, <1>6
      <4>2. ~rewound
        BY <4>1, <3>1, AggParts
      <4>3. ~Reconciliation(lastLedger, Scanned(lastLedger)).mismatch
        BY <4>1, <4>2, <3>1, <1>6, NoMismatch DEF Calm
      <4> QED
        BY <4>1, <4>3, <1>6
    <3> QED
      BY <3>1
  <2>3. ASSUME forks' = 0 PROVE (Calm' => ~rewound') /\ RowsInPlace' /\ EventsInPlace'
    <3>1. RowsInPlace /\ EventsInPlace
      BY <2>3, <1>1, AggParts
    <3>2. /\ \A n, i : SupplyOf(SupplyEvents(n, i))' = SupplyOf(SupplyEvents(n, i))
          /\ \A e : InPlace(e)' = InPlace(e)
      BY <1>1, SameSupply
    <3>3. RowsInPlace'
      BY <3>1, <3>2, <2>1 DEF RowsInPlace
    <3>4. \A i \in DOMAIN events :
            /\ InPlace(events[i])
            /\ events[i].newSupply = SupplyOf(SupplyEvents(events[i].ledger, events[i].index))
      BY <3>1 DEF EventsInPlace
    <3>5. ASSUME NEW i \in DOMAIN events'
          PROVE  (/\ InPlace(events[i]) /\ (pc \in {"process", "publish"} => events[i].ledger <= endLedger)
                  /\ events[i].newSupply = SupplyOf(SupplyEvents(events[i].ledger, events[i].index)))'
      BY <3>4, <3>2, <1>1
    <3>6. \A i, j \in DOMAIN events' : i < j => Earlier(events'[i], events'[j])
      BY <3>1, <1>1 DEF EventsInPlace
    <3>7. EventsInPlace'
      BY <3>5, <3>6 DEF EventsInPlace, Earlier
    <3> QED
      BY <3>3, <3>7, <2>2, <2>3, <1>1
  <2>4. UndisturbedChain'
    BY <2>3, UndisturbedParts
  <2> QED
    BY <2>1, <2>4 DEF Agg, HoldersMatchRowsUntilRewind, HoldersAddUp, SupplyMatchesHolders, RowsAreAPrefix
<1>7. CASE ~(lastLedger.ledger > 0 /\ Reconciliation(lastLedger, remote).mismatch)
  <2>1. UNCHANGED <<rows, rewound, lost>>
    BY <1>4, <1>7
  <2>2. Calm' => Calm
    BY <1>5
  <2> QED
    BY <2>1, <2>2, <1>1, QuietAgg
<1> QED
  BY <1>6, <1>7

\* When an event of an undisturbed chain is at the head, what precedes it is
\* done with: it is in a ledger that has a checkpoint, or was fetched before it.
LEMMA EarlierIsDone ==
    ASSUME LoopInv, Agg, forks = 0, ~rewound, pc = "process", 1 \in DOMAIN events,
           NEW n \in DOMAIN chain, n <= events[1].ledger, NEW tx, tx = chain[n].tx, tx # NoTx,
           NEW i \in DOMAIN EventsOf[tx], n < events[1].ledger \/ i < events[1].index
    PROVE  Done(tx, i)
<1>1. ~rewound /\ RowsInPlace /\ EventsInPlace
  BY AggParts
<1>2. /\ Len(chain) \in Nat /\ DOMAIN chain = 1 .. Len(chain) /\ n \in Nat /\ n >= 1
      /\ startLedger \in 1 .. Len(chain) + 1 /\ endLedger \in startLedger .. Len(chain)
      /\ {k.ledger : k \in coordinates} = startLedger .. endLedger
  BY Facts DEF RangeIsFetched
<1>3. events[1].ledger <= endLedger /\ InPlace(events[1])
  BY <1>1 DEF EventsInPlace
<1>4. WasEmitted(events[1])
  BY Facts DEF EventsWereEmitted
<1>5. events[1].ledger \in Nat /\ events[1].index \in Nat /\ i \in Nat
  <2>1. tx \in Txs
    <3>1. chain \in Seq(Block) /\ n \in 1 .. Len(chain)
      BY <1>2, Facts DEF ChainOK, Block
    <3>2. chain[n] \in Block
      BY <3>1
    <3> QED
      BY <3>2 DEF Block
  <2>2. i \in Nat
    BY <2>1, EventShape
  <2>3. events[1].tx \in Txs /\ events[1].index \in DOMAIN EventsOf[events[1].tx] /\ events[1].ledger \in 1 .. Len(chain)
    BY <1>4 DEF WasEmitted, Seen
  <2>4. events[1].index \in Nat
    BY <2>3, EventShape
  <2> QED
    BY <2>2, <2>3, <2>4, <1>2
<1>6. CASE n < startLedger
  <2>6. n > limits.old
    <3>1. n <= limits.old => chain[n].tx = NoTx
      BY Facts DEF ChainOK
    <3> QED
      BY <3>1, <1>2, Facts
  <2>1. n \in limits.old + 1 .. startLedger - 1
    BY <1>2, <1>6, <2>6, Facts
  <2>2. Checkpointed(n)
    BY <2>1, <1>1, Facts DEF CheckpointsReachDown
  <2>3. PICK k \in checkpoints : k.ledger = n
    BY <2>2 DEF Checkpointed
  <2>4. OnChain(k)
    <3>1. Answer(k)
      BY <2>3, Facts DEF LedgersWereAnswered
    <3> QED
      BY <3>1, UndisturbedAnswers
  <2>5. \A h \in DOMAIN EventsOf[chain[k.ledger].tx] : Done(chain[k.ledger].tx, h)
    BY <2>3, <2>4, <2>6, Facts DEF NothingStepsOver
  <2> QED
    BY <2>3, <2>5
<1>7. CASE ~(n < startLedger)
  <2>1. n \in startLedger .. endLedger
    BY <1>2, <1>3, <1>5, <1>7
  <2>2. PICK k \in coordinates : k.ledger = n
    BY <2>1, <1>2
  <2>3. OnChain(k)
    <3>1. Answer(k)
      BY <2>2, Facts DEF LedgersWereAnswered
    <3> QED
      BY <3>1, UndisturbedAnswers
  <2>4. \A h \in DOMAIN EventsOf[chain[k.ledger].tx] :
            \/ Done(chain[k.ledger].tx, h)
            \/ \E j \in DOMAIN events : events[j].tx = chain[k.ledger].tx /\ events[j].index = h
    <3>1. RangeIsUnderWay /\ pc \in {"process", "publish"}
      BY Facts
    <3>2. \A q \in coordinates : OnChain(q) /\ chain[q.ledger].tx # NoTx =>
            \A h \in DOMAIN EventsOf[chain[q.ledger].tx] :
                \/ Done(chain[q.ledger].tx, h)
                \/ \E j \in DOMAIN events : events[j].tx = chain[q.ledger].tx /\ events[j].index = h
      BY <3>1 DEF RangeIsUnderWay
    <3>3. chain[k.ledger].tx # NoTx
      BY <2>2
    <3> QED
      BY <3>2, <3>3, <2>2, <2>3
  <2>5. ASSUME NEW j \in DOMAIN events, events[j].tx = tx, events[j].index = i PROVE FALSE
    <3>1. events[j].ledger = n
      <4>1. chain[events[j].ledger].tx = tx /\ events[j].ledger \in DOMAIN chain
        <5>1. InPlace(events[j]) /\ WasEmitted(events[j])
          BY <2>5, <1>1, Facts DEF EventsInPlace, EventsWereEmitted
        <5> QED
          BY <5>1, <2>5, <1>2 DEF InPlace, WasEmitted, Seen
      <4> QED
        BY <4>1, Facts DEF ChainOK
    <3>2. j # 1
      BY <3>1, <2>5, <1>5
    <3>3. 1 < j
      <4>1. events \in Seq(Range(events))
        BY DEF LoopInv, IndexerTypeOK
      <4>2. DOMAIN events = 1 .. Len(events) /\ Len(events) \in Nat
        BY <4>1
      <4> QED
        BY <4>2, <3>2
    <3>4. Earlier(events[1], events[j])
      BY <3>3, <1>1 DEF EventsInPlace
    <3>5. events[1].ledger < n \/ (events[1].ledger = n /\ events[1].index < i)
      BY <3>1, <3>4, <2>5 DEF Earlier
    <3> QED
      BY <3>5, <1>2, <1>5
  <2> QED
    BY <2>2, <2>4, <2>5
<1> QED
  BY <1>6, <1>7

\* While no event has been dropped, an event that has a table is done with only
\* when it has its row.
LEMMA DoneHasRow ==
    ASSUME lost = {}, NEW tx, NEW i, Done(tx, i), Family(EventsOf[tx][i].topic) # "none"
    PROVE  \E r \in rows : r.tx = tx /\ r.index = i
BY DEF Done

\* Then the stored mints and burns are those of the chain up to the event that
\* is being stored, so the supply it reports is theirs.
LEMMA RowsAreTheSupply ==
    ASSUME LoopInv, Agg, forks = 0, ~rewound, lost = {}, pc = "process", 1 \in DOMAIN events,
           ~Stored(events[1]), Family(events[1].topic) \in SupplyTopics
    PROVE  SupplyEvents(events[1].ledger, events[1].index)
             = SupplyRows \cup {<<events[1].tx, events[1].index>>}
<1>1. PICK ev : ev = events[1]
  OBVIOUS
<1>2. PICK n, i : n = ev.ledger /\ i = ev.index
  OBVIOUS
<1>3. ~rewound /\ RowsInPlace /\ EventsInPlace
  BY AggParts
<1>4. WasEmitted(ev) /\ InPlace(ev) /\ ~Stored(ev)
  BY <1>1, <1>3, Facts DEF EventsWereEmitted, EventsInPlace
<1>5. /\ Len(chain) \in Nat /\ DOMAIN chain = 1 .. Len(chain) /\ n \in 1 .. Len(chain) /\ n \in DOMAIN chain
      /\ ev.tx \in Txs /\ i \in DOMAIN EventsOf[ev.tx] /\ chain[n].tx = ev.tx /\ ev.tx # NoTx
      /\ i \in Nat /\ n \in Nat
  <2>1. /\ ev.tx \in Txs /\ i \in DOMAIN EventsOf[ev.tx] /\ n \in 1 .. Len(chain) /\ chain[n].tx = ev.tx
    BY <1>2, <1>4 DEF WasEmitted, Seen, InPlace
  <2>2. i \in Nat
    BY <2>1, EventShape
  <2>3. Len(chain) \in Nat /\ DOMAIN chain = 1 .. Len(chain)
    BY Facts
  <2> QED
    BY <2>1, <2>2, <2>3, ChainAssumption
<1>6. ev.topic = EventsOf[ev.tx][i].topic /\ EventsOf[ev.tx][i].topic \in SupplyTopics
  BY <1>1, <1>2, <1>4, RowShape, SupplyFamilies
<1>7. ASSUME NEW e \in SupplyEvents(n, i)
      PROVE  e \in SupplyRows \cup {<<ev.tx, i>>}
  <2>1. PICK m \in 1 .. n : /\ chain[m].tx # NoTx /\ e[1] = chain[m].tx /\ e = <<e[1], e[2]>>
                            /\ e[1] \in Txs /\ e[2] \in DOMAIN EventsOf[e[1]]
    BY <1>5, <1>7, SupplyEventsFinite, Facts
  <2>2. EventsOf[e[1]][e[2]].topic \in SupplyTopics /\ (e[1] = chain[n].tx => e[2] <= i)
    BY <1>7 DEF SupplyEvents
  <2>3. e[2] \in Nat /\ m \in DOMAIN chain /\ m <= n
    <3>1. e[2] \in Nat
      BY <2>1, EventShape
    <3> QED
      BY <3>1, <1>5
  <2>4. CASE m = n /\ e[2] = i
    BY <2>1, <2>4, <1>5
  <2>5. CASE m < n \/ e[2] < i
    <3>1. Done(e[1], e[2])
      BY <2>1, <2>3, <2>5, <1>1, <1>2, EarlierIsDone
    <3>2. Family(EventsOf[e[1]][e[2]].topic) \in SupplyTopics
      BY <2>2, SupplyFamilies
    <3>3. Family(EventsOf[e[1]][e[2]].topic) # "none"
      BY <3>2 DEF SupplyTopics
    <3>4. PICK r \in rows : r.tx = e[1] /\ r.index = e[2]
      BY <3>1, <3>3, DoneHasRow
    <3>5. r.family \in SupplyTopics
      BY <3>2, <3>4, RowDeltas DEF EventOf
    <3>6. <<e[1], e[2]>> \in SupplyRows
      BY <3>4, <3>5, SupplyRowsFinite
    <3> QED
      BY <3>6, <2>1
  <2> QED
    BY <2>1, <2>2, <2>3, <2>4, <2>5, <1>5
<1>8. ASSUME NEW m \in DOMAIN chain, m <= n, NEW tx, tx = chain[m].tx, tx # NoTx, NEW h \in DOMAIN EventsOf[tx],
             EventsOf[tx][h].topic \in SupplyTopics, tx = chain[n].tx => h <= i
      PROVE  <<tx, h>> \in SupplyEvents(n, i)
  <2>1. PICK e : e = <<tx, h>>
    OBVIOUS
  <2>2. e[1] = tx /\ e[2] = h
    BY <2>1
  <2>3. m \in {k \in 1 .. n : chain[k].tx # NoTx}
    BY <1>5, <1>8
  <2>4. e \in {chain[m].tx} \X DOMAIN EventsOf[chain[m].tx]
    BY <2>1, <1>8
  <2>5. e \in UNION {{chain[k].tx} \X DOMAIN EventsOf[chain[k].tx] : k \in {q \in 1 .. n : chain[q].tx # NoTx}}
    BY <2>3, <2>4
  <2>6. e \in SupplyEvents(n, i)
    BY <2>2, <2>5, <1>8 DEF SupplyEvents
  <2> QED
    BY <2>1, <2>6
<1>9. <<ev.tx, i>> \in SupplyEvents(n, i)
  <2>1. n <= n /\ i <= i
    BY <1>5
  <2> QED
    BY <2>1, <1>5, <1>6, <1>8
<1>10. ASSUME NEW e \in SupplyRows PROVE e \in SupplyEvents(n, i)
  <2>1. PICK r \in rows : r.family \in SupplyTopics /\ e = <<r.tx, r.index>>
    BY <1>10 DEF SupplyRows
  <2>2. /\ r.tx \in Txs /\ r.index \in DOMAIN EventsOf[r.tx] /\ EventsOf[r.tx][r.index].topic \in SupplyTopics
    BY <2>1, RowDeltas, SupplyFamilies DEF EventOf
  <2>3. r.ledger \in DOMAIN chain /\ chain[r.ledger].tx = r.tx /\ r.tx # NoTx /\ r.index \in Nat /\ r.ledger \in Nat
    <3>1. Seen(r) /\ InPlace(r)
      BY <2>1, <1>3, Facts DEF EventsWereEmitted, RowsInPlace
    <3>2. r.index \in Nat
      BY <2>2, EventShape
    <3> QED
      BY <3>1, <3>2, <2>2, <1>5, ChainAssumption DEF Seen, InPlace
  <2>4. ~(n < r.ledger \/ (n = r.ledger /\ i < r.index))
    <3>1. SUFFICES ASSUME n < r.ledger \/ (n = r.ledger /\ i < r.index) PROVE FALSE
      OBVIOUS
    <3>2. n <= r.ledger /\ (n < r.ledger \/ i < r.index)
      BY <3>1, <2>3, <1>5
    <3>3. Done(ev.tx, i)
      BY <3>2, <1>5, AggParts DEF RowsAreAPrefix
    <3>4. Family(EventsOf[ev.tx][i].topic) # "none"
      BY <1>1, <1>6 DEF SupplyTopics
    <3>5. PICK q \in rows : q.tx = ev.tx /\ q.index = i
      BY <3>3, <3>4, DoneHasRow
    <3> QED
      BY <3>5, <1>2, <1>4, StoredRowIsNew
  <2>5. r.ledger <= n /\ (r.tx = chain[n].tx => r.index <= i)
    <3>1. r.ledger <= n
      BY <2>3, <2>4, <1>5
    <3>2. ASSUME r.tx = chain[n].tx PROVE r.index <= i
      <4>1. r.ledger = n
        BY <3>2, <2>3, <1>5, Facts DEF ChainOK
      <4> QED
        BY <4>1, <2>3, <2>4, <1>5
    <3> QED
      BY <3>1, <3>2
  <2>6. <<r.tx, r.index>> \in SupplyEvents(n, i)
    BY <2>2, <2>3, <2>5, <1>8
  <2> QED
    BY <2>1, <2>6
<1> QED
  BY <1>1, <1>2, <1>7, <1>9, <1>10

\* Processing an event keeps the aggregates those of the rows.
LEMMA ProcessAgg ==
    ASSUME LoopInv, Agg, processEvent
    PROVE  Agg'
<1>1. /\ pc = "process" /\ events # <<>> /\ events' = Tail(events)
      /\ UNCHANGED <<chain, forks, endLedger, rewound>>
      /\ 1 \in DOMAIN events /\ WasEmitted(events[1])
      /\ Drops(events[1]) \/ Stores(events[1])
  BY ProcessStep DEF network
<1>2. PICK ev : ev = events[1]
  OBVIOUS
<1>3. WasEmitted(ev) /\ (Drops(ev) \/ Stores(ev))
  BY <1>1, <1>2
<1>4. /\ \A j \in DOMAIN events' : j + 1 \in DOMAIN events /\ events'[j] = events[j + 1]
      /\ events \in Seq(Range(events)) /\ events' \in Seq(Range(events'))
  BY <1>1, HeadAndTail DEF LoopInv, IndexerTypeOK
<1>5. /\ rows \subseteq rows' /\ lost \subseteq lost' /\ (rows' = rows \/ rows' = rows \cup {RowOf(ev)})
  BY <1>3 DEF Drops, Stores, Persist
<1>6. \A tx, i : Done(tx, i) => Done(tx, i)'
  BY <1>5 DEF Done
<1>7. HoldersMatchRowsUntilRewind' /\ HoldersAddUp'
  <2>1. ASSUME ~rewound
        PROVE  holders' = FoldedBalances' /\ SumFunction(holders') = SupplyOf(SupplyRows')
    <3>1. holders = FoldedBalances /\ SumFunction(holders) = SupplyOf(SupplyRows)
      BY <2>1, AggParts
    <3>2. CASE Drops(ev)
      <4>1. rows' = rows /\ holders' = holders
        BY <3>2 DEF Drops
      <4> QED
        BY <3>1, <4>1 DEF FoldedBalances, TokenRows, EventOf, SupplyRows
    <3>3. CASE Stores(ev)
      BY <3>1, <3>3, <1>3, StoreMatches, StoreAddsUp
    <3> QED
      BY <3>2, <3>3, <1>3
  <2> QED
    BY <2>1, <1>1 DEF HoldersMatchRowsUntilRewind, HoldersAddUp, SupplyRows, SupplyOf
<1>8. SupplyMatchesHolders'
  <2>1. ASSUME forks = 0, ~rewound, lost' = {} PROVE supply' = SumFunction(holders')
    <3>1. lost = {} /\ ~rewound /\ RowsInPlace /\ EventsInPlace
      BY <2>1, <1>5, AggParts
    <3>2. supply = SumFunction(holders) /\ SumFunction(holders) = SupplyOf(SupplyRows)
      BY <2>1, <3>1, AggParts
    <3>3. CASE Drops(ev)
      BY <3>2, <3>3 DEF Drops
    <3>4. CASE Stores(ev) /\ Family(ev.topic) \in SupplyTopics
      <4>1. supply' = ev.newSupply
        BY <3>4, SupplyFamilies DEF Stores, Persist, resolveSupply
      <4>2. ev.newSupply = SupplyOf(SupplyEvents(ev.ledger, ev.index))
        BY <3>1, <1>1, <1>2 DEF EventsInPlace
      <4>3. SupplyEvents(ev.ledger, ev.index) = SupplyRows \cup {<<ev.tx, ev.index>>}
        BY <2>1, <3>1, <3>4, <1>1, <1>2, RowsAreTheSupply DEF Stores
      <4>4. SupplyRows' = SupplyRows \cup {<<ev.tx, ev.index>>}
        <5>1. rows' = rows \cup {RowOf(ev)}
          BY <3>4 DEF Stores, Persist
        <5>2. RowOf(ev).family = Family(ev.topic) /\ RowOf(ev).tx = ev.tx /\ RowOf(ev).index = ev.index
          BY <1>3, RowShape
        <5> QED
          BY <5>1, <5>2, <3>4 DEF SupplyRows
      <4>5. SumFunction(holders') = SupplyOf(SupplyRows')
        BY <3>2, <3>4, <1>3, StoreAddsUp
      <4> QED
        BY <4>1, <4>2, <4>3, <4>4, <4>5
    <3>5. CASE Stores(ev) /\ Family(ev.topic) \notin SupplyTopics
      <4>1. SumFunction(holders') = SumFunction(holders)
        BY <3>2, <3>5, <1>3, StoreAddsUp
      <4>2. supply' = supply
        BY <3>5, SupplyFamilies DEF Stores, Persist, resolveSupply
      <4> QED
        BY <4>1, <4>2, <3>2
    <3> QED
      BY <3>3, <3>4, <3>5, <1>3
  <2> QED
    BY <2>1, <1>1 DEF SupplyMatchesHolders
<1>9. UndisturbedChain'
  <2>1. ASSUME forks' = 0 PROVE (Calm' => ~rewound') /\ RowsInPlace' /\ EventsInPlace'
    <3>7. Calm' => Calm
      BY FaultsAreCounted
    <3>1. (Calm' => ~rewound') /\ RowsInPlace /\ EventsInPlace
      BY <2>1, <3>7, <1>1, AggParts
    <3>2. /\ \A n, i : SupplyOf(SupplyEvents(n, i))' = SupplyOf(SupplyEvents(n, i))
          /\ \A e : InPlace(e)' = InPlace(e)
      BY <1>1, SameSupply
    <3>3. RowsInPlace'
      <4>1. InPlace(RowOf(ev))
        <5>1. InPlace(ev)
          BY <3>1, <1>1, <1>2 DEF EventsInPlace
        <5>2. RowOf(ev).tx = ev.tx /\ RowOf(ev).ledger = ev.ledger
          BY <1>3, RowShape
        <5> QED
          BY <5>1, <5>2 DEF InPlace
      <4>2. \A r \in rows' : InPlace(r)
        BY <4>1, <3>1, <1>5 DEF RowsInPlace
      <4> QED
        BY <4>2, <3>2 DEF RowsInPlace
    <3>4. ASSUME NEW i \in DOMAIN events'
          PROVE  (/\ InPlace(events[i]) /\ (pc \in {"process", "publish"} => events[i].ledger <= endLedger)
                  /\ events[i].newSupply = SupplyOf(SupplyEvents(events[i].ledger, events[i].index)))'
      <4>1. i + 1 \in DOMAIN events /\ events'[i] = events[i + 1]
        BY <3>4, <1>4
      <4>2. PICK d : d = events[i + 1]
        OBVIOUS
      <4>3. /\ InPlace(d) /\ d.ledger <= endLedger
            /\ d.newSupply = SupplyOf(SupplyEvents(d.ledger, d.index))
        BY <4>1, <4>2, <3>1, <1>1 DEF EventsInPlace
      <4> QED
        BY <4>1, <4>2, <4>3, <3>2, <1>1
    <3>5. ASSUME NEW i \in DOMAIN events', NEW j \in DOMAIN events', i < j
          PROVE  Earlier(events'[i], events'[j])
      <4>1. /\ i + 1 \in DOMAIN events /\ events'[i] = events[i + 1]
            /\ j + 1 \in DOMAIN events /\ events'[j] = events[j + 1]
        BY <3>5, <1>4
      <4>2. i + 1 < j + 1
        <5>1. i \in Nat /\ j \in Nat
          BY <3>5, <1>4
        <5> QED
          BY <5>1, <3>5
      <4> QED
        BY <4>1, <4>2, <3>1 DEF EventsInPlace
    <3>6. EventsInPlace'
      BY <3>4, <3>5 DEF EventsInPlace, Earlier
    <3> QED
      BY <3>1, <3>3, <3>6, <1>1
  <2> QED
    BY <2>1, UndisturbedParts
<1>10. RowsAreAPrefix'
  <2>1. ASSUME forks = 0, ~rewound, lost' = {}, NEW r \in rows', NEW n \in DOMAIN chain, n <= r.ledger,
               NEW tx, tx = chain[n].tx, tx # NoTx, NEW i \in DOMAIN EventsOf[tx], n < r.ledger \/ i < r.index
        PROVE  Done(tx, i)'
    <3>1. lost = {}
      BY <2>1, <1>5
    <3>2. CASE r \in rows
      <4>1. Done(tx, i)
        BY <2>1, <3>1, <3>2, AggParts DEF RowsAreAPrefix
      <4> QED
        BY <4>1, <1>6
    <3>3. CASE r = RowOf(ev)
      <4>1. r.ledger = events[1].ledger /\ r.index = events[1].index
        BY <3>3, <1>2, <1>3, RowShape
      <4>2. Done(tx, i)
        BY <4>1, <2>1, <1>1, EarlierIsDone
      <4> QED
        BY <4>2, <1>6
    <3> QED
      BY <3>2, <3>3, <1>5
  <2> QED
    BY <2>1, <1>1 DEF RowsAreAPrefix
<1> QED
  BY <1>7, <1>8, <1>9, <1>10 DEF Agg

\* At the start there are no rows, no balances and no supply.
LEMMA InitAgg ==
    ASSUME IndexerInit
    PROVE  Agg
<1>1. /\ forks = 0 /\ rows = {} /\ holders = [a \in Accounts |-> 0] /\ supply = 0
      /\ events = <<>> /\ rewound = FALSE
  BY DEF IndexerInit, Idle
<1>2. IsFiniteSet(Accounts) /\ DOMAIN events = {}
  BY <1>1, ChainAssumption
<1>3. SumFunction(holders) = 0
  BY <1>1, <1>2, SumZero
<1>4. \A f : DOMAIN f = {} => SumFunction(f) = 0
  BY SumEmpty DEF SumFunction
<1>5. TokenRows = {} /\ SupplyRows = {}
  BY <1>1 DEF TokenRows, SupplyRows
<1>6. holders = FoldedBalances
  <2>1. ASSUME NEW a \in Accounts PROVE FoldedBalances[a] = 0
    <3> DEFINE f == [r \in TokenRows |-> deltasFor(EventOf(r))[a]]
    <3>1. DOMAIN f = {}
      BY <1>5
    <3>2. FoldedBalances[a] = SumFunction(f)
      BY DEF FoldedBalances
    <3> HIDE DEF f
    <3> QED
      BY <3>1, <3>2, <1>4
  <2>2. FoldedBalances = [a \in Accounts |-> FoldedBalances[a]]
    BY DEF FoldedBalances
  <2> QED
    BY <2>1, <2>2, <1>1
<1>7. SupplyOf(SupplyRows) = 0
  <2> DEFINE f == [e \in SupplyRows |-> supplyDeltaFor(EventsOf[e[1]][e[2]])]
  <2>1. DOMAIN f = {} /\ SupplyOf(SupplyRows) = SumFunction(f)
    BY <1>5 DEF SupplyOf
  <2> HIDE DEF f
  <2> QED
    BY <2>1, <1>4
<1>8. HoldersMatchRowsUntilRewind /\ SupplyMatchesHolders /\ HoldersAddUp
  BY <1>1, <1>3, <1>6, <1>7 DEF HoldersMatchRowsUntilRewind, SupplyMatchesHolders, HoldersAddUp, SupplyRows
<1>9. UndisturbedChain /\ RowsAreAPrefix
  BY <1>1, <1>2 DEF UndisturbedChain, RowsAreAPrefix
<1> QED
  BY <1>8, <1>9 DEF Agg

\* Every step keeps the aggregates.
LEMMA ServiceAgg ==
    ASSUME LoopInv, Agg, [ServiceNext]_serviceVars
    PROVE  Agg'
<1>1. CASE Close \/ Reorg
  BY <1>1, NetworkAgg
<1>2. CASE FetchEvents
  BY <1>2, FetchEventsAgg
<1>3. CASE reconcileLedgerCursor
  BY <1>3, ReconcileAgg
<1>4. CASE processEvent
  BY <1>4, ProcessAgg
<1>5. CASE Boot \/ Poll \/ FetchLedgers \/ Commit \/ IngestionError
  <2>1. /\ UNCHANGED <<chain, forks, rows, holders, supply, lost, rewound>>
        /\ events' = events /\ pc' \in {"poll", "ledgers", "events", "reconcile"}
    <3>1. CASE Boot
      BY <3>1 DEF Boot, network, history
    <3>2. CASE Poll
      BY <3>2 DEF Poll, network, database, history
    <3>3. CASE FetchLedgers
      BY <3>3 DEF FetchLedgers, network, database, history
    <3>4. CASE Commit
      BY <3>4 DEF Commit, network, history
    <3>5. CASE IngestionError
      BY <3>5 DEF IngestionError, network, database, local, history
    <3> QED
      BY <1>5, <3>1, <3>2, <3>3, <3>4, <3>5
  <2>2. Calm' => Calm
    BY <1>5, FaultsAreCounted
  <2> QED
    BY <2>1, <2>2, QuietAgg
<1>6. CASE publishIndexerEvent
  BY <1>6, FaultsAreCounted, QuietAgg DEF publishIndexerEvent, network, database
<1>7. CASE Restart
  BY <1>7, FaultsAreCounted, QuietAgg DEF Restart, network, database, history
<1>8. CASE ResetCursor
  BY <1>8, FaultsAreCounted, QuietAgg DEF ResetCursor, network, local
<1>9. CASE UNCHANGED indexerVars
  BY <1>9, FaultsAreCounted, QuietAgg DEF indexerVars, network, database, local, history
<1> QED
  BY <1>1, <1>2, <1>3, <1>4, <1>5, <1>6, <1>7, <1>8, <1>9, ServiceSteps

----------------------------------------------------------------------------
(* The webhooks *)

\* The types of the API's state.
ApiTypes ==
    /\ hooks \subseteq Urls
    /\ goneAt \in [Urls -> Nat] /\ count \in Nat
    /\ \A j \in jobs : /\ DOMAIN j = {"n", "url", "attempt"} /\ j.n \in 1 .. count
                       /\ IF j.url = "load" THEN j.attempt = 0 ELSE j.url \in Urls /\ j.attempt \in 1 .. 2
    /\ \A p \in posts : p.n \in 1 .. count /\ p.url \in Urls /\ p.attempt \in 1 .. 2

Hooked == ApiTypes /\ PostsAreWarranted /\ JobsAreOpen

\* A job keeps its event and its target when it is tried again.
LEMMA FailedJob ==
    ASSUME Hooked, NEW j \in jobs, j.url # "load", NEW k \in Failed(j)
    PROVE  /\ DOMAIN k = {"n", "url", "attempt"} /\ k.n = j.n /\ k.url = j.url /\ k.attempt = 2
           /\ j.attempt = 1
<1>1. DOMAIN j = {"n", "url", "attempt"} /\ j.attempt \in 1 .. 2
  BY DEF Hooked, ApiTypes
<1>2. j.attempt < 2 /\ k = [j EXCEPT !.attempt = 2]
  BY DEF Failed
<1>3. j.attempt = 1
  BY <1>1, <1>2
<1> QED
  BY <1>1, <1>2, <1>3

\* The targets are loaded for an event no target has been told of.
LEMMA LoadHooked ==
    ASSUME Hooked, NEW j \in jobs, deliverIndexerEventToWebhooks(j)
    PROVE  Hooked'
<1>1. /\ j.url = "load" /\ UNCHANGED <<hooks, goneAt, count, posts>>
      /\ jobs' \subseteq (jobs \ {j}) \cup {[n |-> j.n, url |-> u, attempt |-> 1] : u \in hooks}
  BY DEF deliverIndexerEventToWebhooks
<1>2. ASSUME NEW k \in jobs'
      PROVE  \/ k \in jobs /\ k # j
             \/ \E u \in hooks : k = [n |-> j.n, url |-> u, attempt |-> 1]
  BY <1>1
<1>3. ASSUME NEW k, NEW u \in hooks, k = [n |-> j.n, url |-> u, attempt |-> 1]
      PROVE  /\ DOMAIN k = {"n", "url", "attempt"} /\ k.n = j.n /\ k.url = u /\ k.attempt = 1
             /\ k.url \in Urls /\ k.url # "load" /\ k.n \in 1 .. count
  BY <1>3, UrlAssumption DEF Hooked, ApiTypes
<1>4. ApiTypes'
  BY <1>1, <1>2, <1>3 DEF Hooked, ApiTypes
<1>5. PostsAreWarranted'
  <2>1. ASSUME NEW k \in jobs', k.url \in Urls, k.url \notin hooks PROVE k.n <= goneAt[k.url]
    <3>1. k \in jobs
      BY <1>2, <1>3, <2>1
    <3> QED
      BY <3>1, <2>1 DEF Hooked, PostsAreWarranted
  <2> QED
    BY <2>1, <1>1 DEF Hooked, PostsAreWarranted
<1>6. \A k \in jobs : k.n = j.n => k = j
  BY <1>1 DEF Hooked, JobsAreOpen
<1>7. \A p \in posts : p.n # j.n
  <2>1. \A p \in posts : p.n = j.n => j.url = p.url /\ p.url \in Urls
    BY <1>1 DEF Hooked, JobsAreOpen, ApiTypes
  <2> QED
    BY <2>1, <1>1, UrlAssumption
<1>8. JobsAreOpen'
  <2>1. ASSUME NEW i \in jobs', NEW k \in jobs', i.n = k.n, i.url = k.url \/ i.url = "load"
        PROVE  i = k
    <3>1. CASE i \in jobs /\ i # j
      <4>1. k \in jobs
        BY <3>1, <1>2, <1>3, <1>6, <2>1
      <4> QED
        BY <3>1, <4>1, <2>1 DEF Hooked, JobsAreOpen
    <3>2. CASE \E u \in hooks : i = [n |-> j.n, url |-> u, attempt |-> 1]
      <4>1. PICK u \in hooks : i = [n |-> j.n, url |-> u, attempt |-> 1]
        BY <3>2
      <4>2. i.n = j.n /\ i.url = u /\ i.url # "load"
        BY <4>1, <1>3
      <4>3. PICK v \in hooks : k = [n |-> j.n, url |-> v, attempt |-> 1]
        BY <4>2, <2>1, <1>2, <1>6
      <4>4. k.url = v
        BY <4>3, <1>3
      <4> QED
        BY <4>1, <4>2, <4>3, <4>4, <2>1
    <3> QED
      BY <3>1, <3>2, <1>2
  <2>2. ASSUME NEW k \in jobs', NEW p \in posts, k.n = p.n, k.url \in {p.url, "load"}
        PROVE  k.url = p.url /\ p.attempt < k.attempt /\ ~p.ok
    <3>1. k \in jobs
      BY <1>2, <1>3, <1>7, <2>2
    <3> QED
      BY <3>1, <2>2 DEF Hooked, JobsAreOpen
  <2> QED
    BY <2>1, <2>2, <1>1 DEF JobsAreOpen
<1> QED
  BY <1>4, <1>5, <1>8 DEF Hooked

\* A POST, whatever becomes of it.
LEMMA PostHooked ==
    ASSUME Hooked, NEW j \in jobs, deliverWebhook(j)
    PROVE  Hooked'
<1>1. j.url # "load" /\ UNCHANGED <<hooks, goneAt, count>>
  BY DEF deliverWebhook
<1>2. /\ DOMAIN j = {"n", "url", "attempt"} /\ j.n \in 1 .. count /\ j.url \in Urls /\ j.attempt \in 1 .. 2
      /\ count \in Nat
  BY <1>1 DEF Hooked, ApiTypes
<1>3. PICK q, b : b \in BOOLEAN /\ q = [n |-> j.n, url |-> j.url, attempt |-> j.attempt, ok |-> b]
                /\ \/ posts' = posts \cup {q} /\ jobs' = jobs \ {j} /\ b
                   \/ posts' \in {posts, posts \cup {q}} /\ jobs' = (jobs \ {j}) \cup Failed(j) /\ ~b
  <2>1. CASE /\ posts' = posts \cup {[n |-> j.n, url |-> j.url, attempt |-> j.attempt, ok |-> TRUE]}
             /\ jobs' = jobs \ {j}
    BY <2>1
  <2>2. CASE /\ posts' \in {posts, posts \cup {[n |-> j.n, url |-> j.url, attempt |-> j.attempt, ok |-> FALSE]}}
             /\ jobs' = (jobs \ {j}) \cup Failed(j)
    BY <2>2
  <2> QED
    BY <2>1, <2>2 DEF deliverWebhook
<1>4. q.n = j.n /\ q.url = j.url /\ q.attempt = j.attempt /\ q.ok = b
  BY <1>3
<1>5. \A p \in posts' : p \in posts \/ p = q
  BY <1>3
<1>6. ASSUME NEW k \in jobs', ~(k \in jobs /\ k # j)
      PROVE  /\ DOMAIN k = {"n", "url", "attempt"} /\ k.n = j.n /\ k.url = j.url /\ k.attempt = 2
             /\ j.attempt = 1 /\ ~b
  BY <1>1, <1>3, <1>6, FailedJob
<1>7. /\ \A k \in jobs : k.n = j.n /\ (k.url = j.url \/ k.url = "load") => k = j
      /\ \A p \in posts : p.n = j.n /\ p.url = j.url => p.attempt < j.attempt /\ ~p.ok
  BY <1>1 DEF Hooked, JobsAreOpen
<1>8. ApiTypes'
  <2>1. ASSUME NEW k \in jobs'
        PROVE  /\ DOMAIN k = {"n", "url", "attempt"} /\ k.n \in 1 .. count
               /\ IF k.url = "load" THEN k.attempt = 0 ELSE k.url \in Urls /\ k.attempt \in 1 .. 2
    <3>1. CASE k \in jobs
      BY <3>1 DEF Hooked, ApiTypes
    <3>2. CASE ~(k \in jobs /\ k # j)
      <4>1. 2 \in 1 .. 2
        OBVIOUS
      <4> QED
        BY <4>1, <3>2, <1>1, <1>2, <1>6
    <3> QED
      BY <3>1, <3>2
  <2>2. \A p \in posts' : p.n \in 1 .. count /\ p.url \in Urls /\ p.attempt \in 1 .. 2
    BY <1>2, <1>4, <1>5 DEF Hooked, ApiTypes
  <2> QED
    BY <2>1, <2>2, <1>1 DEF Hooked, ApiTypes
<1>9. PostsAreWarranted'
  <2>1. \A p \in posts' : p.attempt <= 2
    <3>1. \A p \in posts' : p.attempt \in 1 .. 2
      BY <1>8 DEF ApiTypes
    <3> QED
      BY <3>1
  <2>2. ASSUME NEW p \in posts', NEW r \in posts', p.n = r.n, p.url = r.url, p.attempt < r.attempt
        PROVE  ~p.ok
    <3>1. CASE p \in posts /\ r \in posts
      BY <3>1, <2>2 DEF Hooked, PostsAreWarranted
    <3>2. CASE p \in posts /\ r = q
      BY <3>2, <2>2, <1>4, <1>7
    <3>3. CASE p = q /\ r \in posts
      <4>1. r.attempt < j.attempt /\ j.attempt < r.attempt
        BY <3>3, <2>2, <1>4, <1>7
      <4>2. r.attempt \in 1 .. 2
        BY <3>3 DEF Hooked, ApiTypes
      <4> QED
        BY <4>1, <4>2, <1>2
    <3>4. CASE p = q /\ r = q
      BY <3>4, <2>2, <1>2, <1>4
    <3> QED
      BY <3>1, <3>2, <3>3, <3>4, <1>5
  <2>3. ASSUME NEW k \in jobs', k.url \in Urls, k.url \notin hooks PROVE k.n <= goneAt[k.url]
    <3>1. \A i \in jobs : i.url \in Urls /\ i.url \notin hooks => i.n <= goneAt[i.url]
      BY DEF Hooked, PostsAreWarranted
    <3>2. CASE k \in jobs
      BY <3>1, <3>2, <2>3
    <3>3. CASE k.n = j.n /\ k.url = j.url
      BY <3>1, <3>3, <2>3
    <3> QED
      BY <3>2, <3>3, <1>6
  <2> QED
    BY <2>1, <2>2, <2>3, <1>1 DEF PostsAreWarranted
<1>10. JobsAreOpen'
  <2>1. ASSUME NEW i \in jobs', NEW k \in jobs', i.n = k.n, i.url = k.url \/ i.url = "load"
        PROVE  i = k
    <3>1. CASE i \in jobs /\ i # j /\ k \in jobs /\ k # j
      BY <3>1, <2>1 DEF Hooked, JobsAreOpen
    <3>2. CASE i \in jobs /\ i # j /\ ~(k \in jobs /\ k # j)
      BY <3>2, <2>1, <1>6, <1>7
    <3>3. CASE ~(i \in jobs /\ i # j) /\ k \in jobs /\ k # j
      BY <3>3, <2>1, <1>1, <1>6, <1>7
    <3>4. CASE ~(i \in jobs /\ i # j) /\ ~(k \in jobs /\ k # j)
      <4>1. i \in Failed(j) /\ k \in Failed(j)
        BY <3>4, <2>1, <1>3
      <4> QED
        BY <4>1 DEF Failed
    <3> QED
      BY <3>1, <3>2, <3>3, <3>4
  <2>2. ASSUME NEW k \in jobs', NEW p \in posts', k.n = p.n, k.url \in {p.url, "load"}
        PROVE  k.url = p.url /\ p.attempt < k.attempt /\ ~p.ok
    <3>1. CASE k \in jobs /\ k # j /\ p \in posts
      BY <3>1, <2>2 DEF Hooked, JobsAreOpen
    <3>2. CASE k \in jobs /\ k # j /\ p = q
      BY <3>2, <2>2, <1>4, <1>7
    <3>3. CASE ~(k \in jobs /\ k # j) /\ p = q
      BY <3>3, <2>2, <1>4, <1>6
    <3>4. CASE ~(k \in jobs /\ k # j) /\ p \in posts
      <4>1. k.n = j.n /\ k.url = j.url /\ k.attempt = 2 /\ j.attempt = 1
        BY <3>4, <2>2, <1>6
      <4>2. p.n = j.n /\ p.url = j.url
        BY <4>1, <2>2, <1>1
      <4>3. p.attempt < 1 /\ ~p.ok /\ p.attempt \in 1 .. 2
        BY <4>1, <4>2, <3>4, <1>7 DEF Hooked, ApiTypes
      <4> QED
        BY <4>3
    <3> QED
      BY <3>1, <3>2, <3>3, <3>4, <1>5
  <2> QED
    BY <2>1, <2>2 DEF JobsAreOpen
<1> QED
  BY <1>8, <1>9, <1>10 DEF Hooked

\* A published event is a new one, and nobody has been told of it.
LEMMA PublishHooked ==
    ASSUME Hooked, Publish
    PROVE  Hooked'
<1>1. /\ count' = count + 1 /\ UNCHANGED <<hooks, goneAt, posts>>
      /\ jobs' \subseteq jobs \cup {[n |-> count + 1, url |-> "load", attempt |-> 0]}
  BY DEF Publish
<1>2. PICK q : q = [n |-> count + 1, url |-> "load", attempt |-> 0]
  OBVIOUS
<1>3. q.n = count + 1 /\ q.url = "load" /\ q.attempt = 0 /\ DOMAIN q = {"n", "url", "attempt"}
  BY <1>2
<1>4. \A k \in jobs' : k \in jobs \/ k = q
  BY <1>1, <1>2
<1>5. count \in Nat /\ (\A k \in jobs : k.n \in 1 .. count) /\ (\A p \in posts : p.n \in 1 .. count)
  BY DEF Hooked, ApiTypes
<1>6. /\ \A k \in jobs : k.n # q.n /\ k.n \in 1 .. count'
      /\ \A p \in posts : p.n # q.n /\ p.n \in 1 .. count'
      /\ q.n \in 1 .. count' /\ count' \in Nat
  BY <1>1, <1>3, <1>5
<1>7. ApiTypes'
  BY <1>1, <1>3, <1>4, <1>6 DEF Hooked, ApiTypes
<1>8. PostsAreWarranted'
  BY <1>1, <1>3, <1>4, UrlAssumption DEF Hooked, PostsAreWarranted
<1>9. JobsAreOpen'
  BY <1>1, <1>4, <1>6 DEF Hooked, JobsAreOpen
<1> QED
  BY <1>7, <1>8, <1>9 DEF Hooked

\* A target that is removed is told only of what was published before.
LEMMA RequestHooked ==
    ASSUME Hooked, Request
    PROVE  Hooked'
<1>1. CASE startWalk \/ handlePaginatedList
  <2>1. UNCHANGED <<hooks, goneAt, count, jobs, posts>>
    BY <1>1 DEF startWalk, handlePaginatedList
  <2> QED
    BY <2>1 DEF Hooked, ApiTypes, PostsAreWarranted, JobsAreOpen
<1>2. ASSUME NEW u \in Urls, postWebhook(u) PROVE Hooked'
  <2>1. hooks' = hooks \cup {u} /\ UNCHANGED <<goneAt, count, jobs, posts>>
    BY <1>2 DEF postWebhook
  <2> QED
    BY <2>1 DEF Hooked, ApiTypes, PostsAreWarranted, JobsAreOpen
<1>3. ASSUME NEW u \in Urls, deleteWebhook(u) PROVE Hooked'
  <2>1. hooks' = hooks \ {u} /\ goneAt' = [goneAt EXCEPT ![u] = count] /\ UNCHANGED <<count, jobs, posts>>
    BY <1>3 DEF deleteWebhook
  <2>2. goneAt \in [Urls -> Nat] /\ count \in Nat /\ \A j \in jobs : j.n \in 1 .. count
    BY DEF Hooked, ApiTypes
  <2>3. ApiTypes' /\ JobsAreOpen'
    BY <2>1, <2>2 DEF Hooked, ApiTypes, JobsAreOpen
  <2>4. ASSUME NEW j \in jobs, j.url \in Urls, j.url \notin hooks' PROVE j.n <= goneAt'[j.url]
    <3>1. CASE j.url = u
      <4>1. goneAt'[j.url] = count /\ j.n \in 1 .. count
        BY <3>1, <2>1, <2>2
      <4> QED
        BY <4>1, <2>2
    <3>2. CASE j.url # u
      <4>1. goneAt'[j.url] = goneAt[j.url] /\ j.url \notin hooks
        BY <3>2, <2>1, <2>2, <2>4
      <4> QED
        BY <4>1, <2>4 DEF Hooked, PostsAreWarranted
    <3> QED
      BY <3>1, <3>2
  <2> QED
    BY <2>1, <2>3, <2>4 DEF Hooked, PostsAreWarranted
<1> QED
  BY <1>1, <1>2, <1>3 DEF Request

\* Every step keeps the deliveries warranted.
LEMMA ServiceHooked ==
    ASSUME Hooked, [ServiceNext]_serviceVars
    PROVE  Hooked'
<1>1. CASE publishIndexerEvent /\ Publish
  BY <1>1, PublishHooked
<1>2. CASE Deliver
  BY <1>2, LoadHooked, PostHooked DEF Deliver
<1>3. CASE Request
  BY <1>3, RequestHooked
<1>4. CASE Killed
  <2>1. jobs' = {} /\ UNCHANGED <<hooks, goneAt, count, posts>>
    BY <1>4 DEF Killed
  <2> QED
    BY <2>1 DEF Hooked, ApiTypes, PostsAreWarranted, JobsAreOpen
<1>5. CASE UNCHANGED <<hooks, goneAt, count, jobs, posts>>
  BY <1>5 DEF Hooked, ApiTypes, PostsAreWarranted, JobsAreOpen
<1>6. Tables \/ UNCHANGED apiVars => UNCHANGED <<hooks, goneAt, count, jobs, posts>>
  BY DEF Tables, apiVars
<1> QED
  BY <1>1, <1>2, <1>3, <1>4, <1>5, <1>6 DEF ServiceNext, LoopStep, serviceVars

\* At the start nothing is registered and nothing is under way.
LEMMA InitHooked ==
    ASSUME ApiInit
    PROVE  Hooked
<1>1. hooks = {} /\ goneAt = [u \in Urls |-> 0] /\ count = 0 /\ jobs = {} /\ posts = {}
  BY DEF ApiInit
<1> QED
  BY <1>1 DEF Hooked, ApiTypes, PostsAreWarranted, JobsAreOpen

----------------------------------------------------------------------------
(* Paging *)

\* Among finitely many rows one stands highest and one lowest.
LEMMA HighestAndLowest ==
    ASSUME NEW S, IsFiniteSet(S), S # {}, NEW f, \A x \in S : f[x] \in Int
    PROVE  /\ \E m \in S : \A x \in S : f[x] <= f[m]
           /\ \E m \in S : \A x \in S : f[m] <= f[x]
<1>1. ASSUME NEW g, \A x \in S : g[x] \in Int PROVE \E m \in S : \A x \in S : g[x] <= g[m]
  <2> DEFINE Over(x) == {y \in S : g[y] > g[x]}
             T == {U \in SUBSET S : \E x \in S : U = Over(x)}
  <2>1. T # {} /\ T \in SUBSET (SUBSET S)
    <3>1. PICK x \in S : TRUE
      OBVIOUS
    <3>2. Over(x) \in T
      OBVIOUS
    <3> QED
      BY <3>2
  <2>2. PICK U \in T : \A V \in T : V \subseteq U => V = U
    <3> HIDE DEF T
    <3> QED
      BY <2>1, LeastSubset
  <2>3. PICK m \in S : U = Over(m)
    OBVIOUS
  <2>4. ASSUME NEW y \in S, ~(g[y] <= g[m]) PROVE FALSE
    <3>1. g[y] \in Int /\ g[m] \in Int /\ g[y] > g[m]
      BY <1>1, <2>4
    <3>2. Over(y) \in T /\ Over(y) \subseteq U
      <4>1. ASSUME NEW z \in Over(y) PROVE z \in Over(m)
        <5>1. z \in S /\ g[z] \in Int /\ g[z] > g[y]
          BY <1>1
        <5> QED
          BY <5>1, <3>1
      <4> QED
        BY <4>1, <2>3
    <3>3. y \in U /\ y \notin Over(y)
      BY <3>1, <2>3
    <3> QED
      BY <3>2, <3>3, <2>2
  <2> QED
    BY <2>4
<1>2. \E m \in S : \A x \in S : f[m] <= f[x]
  <2> DEFINE g == [x \in S |-> -f[x]]
  <2>1. \A x \in S : g[x] \in Int /\ g[x] = -f[x] /\ f[x] \in Int
    OBVIOUS
  <2> HIDE DEF g
  <2>2. PICK m \in S : \A x \in S : g[x] <= g[m]
    BY <1>1, <2>1
  <2>3. \A x \in S : f[m] <= f[x]
    BY <2>1, <2>2
  <2> QED
    BY <2>3
<1> QED
  BY <1>1, <1>2

\* The first n of finitely many rows: nothing listed before one of them is left
\* out, they are some if there are any, and all when they are fewer than n.
LEMMA FirstOfRows ==
    ASSUME NEW S, IsFiniteSet(S), \A r \in S : place[r] \in Nat, NEW n \in Nat, n > 0
    PROVE  /\ First(S, n) \subseteq S /\ IsFiniteSet(First(S, n))
           /\ \A r \in First(S, n), q \in S : place[q] > place[r] => q \in First(S, n)
           /\ S # {} => First(S, n) # {}
           /\ Cardinality(First(S, n)) < n => First(S, n) = S
           /\ Cardinality(S) <= n => First(S, n) = S
<1> DEFINE Over(r) == {q \in S : place[q] > place[r]}
<1>1. First(S, n) = {r \in S : Cardinality(Over(r)) < n}
  BY DEF First
<1>2. \A r \in S : IsFiniteSet(Over(r)) /\ Cardinality(Over(r)) \in Nat
  <2>1. \A r \in S : IsFiniteSet(Over(r))
    BY FS_Subset
  <2> QED
    BY <2>1, FS_CardinalityType
<1>3. First(S, n) \subseteq S /\ IsFiniteSet(First(S, n))
  BY <1>1, FS_Subset
<1>4. ASSUME NEW r \in First(S, n), NEW q \in S, place[q] > place[r] PROVE q \in First(S, n)
  <2>1. r \in S /\ Cardinality(Over(r)) < n
    BY <1>1
  <2>2. Over(q) \subseteq Over(r)
    <3>1. ASSUME NEW x \in Over(q) PROVE x \in Over(r)
      <4>1. x \in S /\ place[x] \in Nat /\ place[q] \in Nat /\ place[r] \in Nat /\ place[x] > place[q]
        BY <2>1
      <4> QED
        BY <4>1, <1>4
    <3> QED
      BY <3>1
  <2>3. Cardinality(Over(q)) <= Cardinality(Over(r))
    BY <2>1, <2>2, <1>2, FS_Subset
  <2>4. Cardinality(Over(q)) < n
    BY <2>1, <2>3, <1>2
  <2> QED
    BY <2>4, <1>1
<1>5. ASSUME S # {} PROVE First(S, n) # {}
  <2>1. PICK m \in S : \A x \in S : place[x] <= place[m]
    BY <1>5, HighestAndLowest
  <2>2. Over(m) = {}
    <3>1. ASSUME NEW x \in Over(m) PROVE FALSE
      <4>1. x \in S /\ place[x] > place[m] /\ place[x] <= place[m] /\ place[x] \in Nat /\ place[m] \in Nat
        BY <2>1
      <4> QED
        BY <4>1
    <3> QED
      BY <3>1
  <2>3. Cardinality(Over(m)) = 0
    BY <2>2, FS_EmptySet
  <2> QED
    BY <2>3, <1>1
<1>6. ASSUME First(S, n) # S PROVE ~(Cardinality(First(S, n)) < n)
  <2> DEFINE M == S \ First(S, n)
  <2>1. M # {} /\ IsFiniteSet(M) /\ M \subseteq S
    BY <1>3, <1>6, FS_Subset
  <2> HIDE DEF M
  <2>2. PICK m \in M : \A x \in M : place[x] <= place[m]
    BY <2>1, HighestAndLowest
  <2>3. Over(m) \subseteq First(S, n)
    <3>1. ASSUME NEW x \in Over(m), x \notin First(S, n) PROVE FALSE
      <4>1. x \in M /\ place[x] > place[m] /\ place[x] <= place[m] /\ place[x] \in Nat /\ place[m] \in Nat
        BY <3>1, <2>1, <2>2 DEF M
      <4> QED
        BY <4>1
    <3> QED
      BY <3>1
  <2>4. Cardinality(Over(m)) <= Cardinality(First(S, n)) /\ Cardinality(First(S, n)) \in Nat
    BY <2>3, <1>3, FS_Subset, FS_CardinalityType
  <2>5. ~(Cardinality(Over(m)) < n) /\ m \in S
    BY <1>1, <2>1 DEF M
  <2> QED
    BY <2>4, <2>5, <1>2
<1>7. ASSUME Cardinality(S) <= n PROVE First(S, n) = S
  <2>1. ASSUME NEW r \in S PROVE Cardinality(Over(r)) < n
    <3>1. Over(r) \subseteq S \ {r}
      <4>1. place[r] \in Nat
        OBVIOUS
      <4> QED
        BY <4>1
    <3>2. IsFiniteSet(S \ {r}) /\ Cardinality(S \ {r}) = Cardinality(S) - 1 /\ Cardinality(S) \in Nat
      BY FS_RemoveElement, FS_CardinalityType
    <3>3. Cardinality(Over(r)) <= Cardinality(S \ {r})
      BY <3>1, <3>2, FS_Subset
    <3> QED
      BY <3>2, <3>3, <1>2, <1>7
  <2> QED
    BY <2>1, <1>1
<1> QED
  BY <1>3, <1>4, <1>5, <1>6, <1>7

\* The last of a page is one row.
LEMMA LastOfPage ==
    ASSUME NEW S, IsFiniteSet(S), S # {}, \A r \in S : place[r] \in Nat,
           \A q, r \in S : place[q] = place[r] => q = r
    PROVE  \E c \in S : LastOf(S) = {c} /\ \A q \in S : place[c] <= place[q]
<1>1. PICK c \in S : \A q \in S : place[c] <= place[q]
  BY HighestAndLowest
<1>2. c \in LastOf(S)
  BY <1>1 DEF LastOf
<1>3. ASSUME NEW d \in LastOf(S) PROVE d = c
  <2>1. d \in S /\ place[d] <= place[c] /\ place[c] <= place[d] /\ place[c] \in Nat /\ place[d] \in Nat
    BY <1>1 DEF LastOf
  <2>2. place[d] = place[c]
    BY <2>1
  <2> QED
    BY <2>1, <2>2
<1> QED
  BY <1>1, <1>2, <1>3

\* What the steps keep of the client's walk.
Paged == /\ DOMAIN walk = DOMAIN NoWalk /\ walk.limit \in Nat \ {0}
         /\ WalkSeesEveryRow /\ CursorDividesTheRows

\* A walk that has begun has all before it.
LEMMA StartPaged ==
    ASSUME Paged, startWalk, UNCHANGED indexerVars
    PROVE  Paged'
<1>1. place' = place /\ rows' = rows
  BY DEF startWalk, indexerVars, database
<1>2. PICK table \in TokenFamilies \cup OtherFamilies, ask \in Asked :
        walk' = [NoWalk EXCEPT !.table = table, !.where = ask.where, !.limit = ask.limit,
                               !.due = Listed(table, ask.where), !.end = FALSE]
  BY DEF startWalk
<1>3. /\ DOMAIN walk' = DOMAIN NoWalk /\ walk'.table = table /\ walk'.where = ask.where
      /\ walk'.limit = ask.limit /\ walk'.due = Listed(table, ask.where) /\ walk'.end = FALSE
      /\ walk'.cursor = {} /\ walk'.seen = {} /\ walk'.inOrder = TRUE
  BY <1>2 DEF NoWalk
<1>4. walk'.limit \in Nat \ {0}
  BY <1>3, AskedAssumption
<1>5. walk'.due \subseteq Listed(walk'.table, walk'.where)
  BY <1>3
<1>6. (walk.due \subseteq Listed(walk.table, walk.where))'
  BY <1>1, <1>5 DEF Listed, Matches, EventOf
<1>7. CursorDividesTheRows'
  BY <1>1, <1>3, <1>6 DEF Paged, CursorDividesTheRows
<1>8. WalkSeesEveryRow'
  BY <1>3 DEF WalkSeesEveryRow
<1> QED
  BY <1>3, <1>4, <1>7, <1>8, <1>1 DEF Paged, NoWalk

\* The next page: everything down to its last row has been seen.
LEMMA PagePaged ==
    ASSUME LoopInv, Paged, handlePaginatedList, UNCHANGED indexerVars
    PROVE  Paged'
<1>1. place' = place /\ rows' = rows /\ ~walk.end
  BY DEF handlePaginatedList, indexerVars, database
<1> DEFINE rest == {r \in Listed(walk.table, walk.where) : \A c \in walk.cursor : place[r] < place[c]}
           got == First(rest, walk.limit + 1)
           page == First(got, walk.limit)
           next == NextCursor(got, walk.limit)
           ord == walk.inOrder /\ \A s \in walk.seen, r \in page : place[r] < place[s]
           fin == next = {}
<1>2. walk' = IF walk.gone THEN [walk EXCEPT !.end = TRUE, !.broken = TRUE]
              ELSE [walk EXCEPT !.seen = walk.seen \cup page, !.cursor = next, !.end = fin, !.inOrder = ord]
  BY DEF handlePaginatedList
<1>3. /\ DOMAIN walk = DOMAIN NoWalk /\ walk.limit \in Nat \ {0} /\ WalkSeesEveryRow /\ CursorDividesTheRows
  BY DEF Paged
<1>4. DOMAIN NoWalk = {"table", "where", "limit", "cursor", "gone", "seen", "inOrder", "due", "end", "broken"}
  BY DEF NoWalk
<1>5. /\ place \in [rows -> Nat] /\ \A q, r \in rows : place[q] = place[r] => q = r
      /\ walk.seen \subseteq rows /\ walk.due \subseteq Listed(walk.table, walk.where)
  BY <1>3 DEF CursorDividesTheRows
<1>6. \A t, w : Listed(t, w)' = Listed(t, w) /\ Listed(t, w) \subseteq rows
  BY <1>1 DEF Listed, Matches, EventOf
<1>7. CASE walk.gone
  <2>1. walk' = [walk EXCEPT !.end = TRUE, !.broken = TRUE]
    BY <1>2, <1>7
  <2>2. /\ DOMAIN walk' = DOMAIN NoWalk /\ walk'.end = TRUE /\ walk'.broken = TRUE /\ walk'.limit = walk.limit
        /\ walk'.seen = walk.seen /\ walk'.due = walk.due /\ walk'.table = walk.table /\ walk'.where = walk.where
        /\ walk'.inOrder = walk.inOrder
    BY <2>1, <1>3, <1>4
  <2>3. WalkSeesEveryRow'
    BY <2>2, <1>3 DEF WalkSeesEveryRow
  <2>4. CursorDividesTheRows'
    BY <2>2, <1>1, <1>5, <1>6 DEF CursorDividesTheRows
  <2> QED
    BY <2>2, <2>3, <2>4, <1>3, <1>4 DEF Paged, NoWalk
<1>8. CASE ~walk.gone
  <2>1. walk' = [walk EXCEPT !.seen = walk.seen \cup page, !.cursor = next, !.end = fin, !.inOrder = ord]
    BY <1>2, <1>8
  <2>2. /\ DOMAIN walk' = DOMAIN NoWalk /\ walk'.limit = walk.limit
        /\ walk'.due = walk.due /\ walk'.table = walk.table /\ walk'.where = walk.where
        /\ walk'.gone = walk.gone /\ walk'.broken = walk.broken
        /\ walk'.seen = walk.seen \cup page /\ walk'.cursor = next
        /\ walk'.end = fin /\ walk'.inOrder = ord
    BY <2>1, <1>3, <1>4
  <2>3. /\ IsFiniteSet(rest) /\ rest \subseteq rows /\ \A r \in rest : place[r] \in Nat
    <3>1. rest \subseteq rows
      BY <1>6
    <3>2. IsFiniteSet(rows)
      BY DEF LoopInv, IndexerTypeOK
    <3> QED
      BY <3>1, <3>2, <1>5, FS_Subset
  <2>4. PICK lim \in Nat : lim = walk.limit /\ lim > 0 /\ lim + 1 \in Nat /\ lim + 1 > 0
    BY <1>3
  <2> HIDE DEF rest
  <2>5. /\ got \subseteq rest /\ IsFiniteSet(got)
        /\ \A r \in got, q \in rest : place[q] > place[r] => q \in got
        /\ Cardinality(got) < lim + 1 => got = rest
    BY <2>3, <2>4, FirstOfRows
  <2> HIDE DEF got
  <2>6. /\ page \subseteq got /\ IsFiniteSet(page)
        /\ \A r \in page, q \in got : place[q] > place[r] => q \in page
        /\ got # {} => page # {}
        /\ Cardinality(got) <= lim => page = got
    <3>1. \A r \in got : place[r] \in Nat
      BY <2>3, <2>5
    <3> QED
      BY <3>1, <2>4, <2>5, FirstOfRows
  <2>7. next = IF Cardinality(got) > lim THEN LastOf(page) ELSE {}
    BY <2>4 DEF NextCursor
  <2> HIDE DEF page, next
  <2>8. page \subseteq rest /\ page \subseteq rows
    BY <2>3, <2>5, <2>6
  <2>9. ASSUME NEW s \in walk.seen, NEW r \in page PROVE place[r] < place[s]
    <3>1. PICK c \in rows : walk.cursor = {c} /\ place[s] >= place[c]
      BY <2>9, <1>1, <1>3, <1>8 DEF CursorDividesTheRows
    <3>2. place[r] < place[c] /\ place[r] \in Nat /\ place[c] \in Nat /\ place[s] \in Nat
      BY <3>1, <2>3, <2>8, <2>9, <1>5 DEF rest
    <3> QED
      BY <3>1, <3>2
  <2>10. ord
    BY <2>9, <1>3 DEF WalkSeesEveryRow
  <2>11. ASSUME NEW r \in walk.due, r \notin walk.seen PROVE r \in rest
    <3>1. r \in Listed(walk.table, walk.where)
      BY <1>5
    <3>2. \A c \in walk.cursor : place[r] < place[c]
      BY <2>11, <1>1, <1>3, <1>8 DEF CursorDividesTheRows
    <3> QED
      BY <3>1, <3>2 DEF rest
  <2>12. Cardinality(got) \in Nat
    BY <2>5, FS_CardinalityType
  <2>13. CASE Cardinality(got) > lim
    <3>1. got # {}
      <4>1. ASSUME got = {} PROVE FALSE
        <5>1. Cardinality(got) = 0
          BY <4>1, FS_EmptySet
        <5> QED
          BY <5>1, <2>4, <2>13
      <4> QED
        BY <4>1
    <3>2. page # {} /\ (\A r \in page : place[r] \in Nat) /\ (\A q, r \in page : place[q] = place[r] => q = r)
      BY <3>1, <2>6, <2>8, <1>5
    <3>3. PICK c \in page : LastOf(page) = {c} /\ \A q \in page : place[c] <= place[q]
      BY <3>2, <2>6, LastOfPage
    <3>4. next = {c} /\ c \in rows /\ ~fin
      BY <3>3, <2>7, <2>8, <2>13
    <3>5. ASSUME NEW s \in walk.seen \cup page PROVE place[s] >= place[c]
      <4>1. CASE s \in page
        BY <4>1, <3>3, <3>2
      <4>2. CASE s \in walk.seen
        <5>1. place[c] < place[s] /\ place[c] \in Nat /\ place[s] \in Nat
          BY <4>2, <3>2, <2>9, <1>5
        <5> QED
          BY <5>1
      <4> QED
        BY <4>1, <4>2
    <3>6. ASSUME NEW r \in walk.due, r \notin walk.seen \cup page PROVE place[r] < place[c]
      <4>1. r \in rest
        BY <3>6, <2>11
      <4>2. place[r] \in Nat /\ place[c] \in Nat /\ r \in rows
        BY <4>1, <3>2, <2>3
      <4>3. ~(place[r] > place[c])
        <5>1. SUFFICES ASSUME place[r] > place[c] PROVE FALSE
          OBVIOUS
        <5>2. r \in got
          BY <5>1, <4>1, <2>5, <2>6
        <5> QED
          BY <5>1, <5>2, <2>6, <3>6
      <4>4. place[r] # place[c]
        BY <4>2, <3>4, <3>6, <1>5
      <4> QED
        BY <4>2, <4>3, <4>4
    <3>7. WalkSeesEveryRow'
      BY <3>4, <2>2, <2>10 DEF WalkSeesEveryRow
    <3>8. CursorDividesTheRows'
      <4>1. walk'.seen \subseteq rows /\ (walk.due \subseteq Listed(walk.table, walk.where))'
        BY <2>2, <2>8, <1>5, <1>6
      <4>2. walk'.cursor = {c}
        BY <2>2, <3>4
      <4>3. \A s \in walk'.seen : place[s] >= place[c]
        BY <2>2, <3>5
      <4>4. \A r \in walk'.due : r \in walk'.seen \/ place[r] < place[c]
        BY <2>2, <3>6
      <4> QED
        BY <4>1, <4>2, <4>3, <4>4, <3>4, <1>1, <1>5 DEF CursorDividesTheRows
    <3> QED
      BY <3>7, <3>8, <2>2, <1>3, <1>4 DEF Paged, NoWalk
  <2>14. CASE ~(Cardinality(got) > lim)
    <3>1. next = {} /\ fin /\ got = rest /\ page = got
      BY <2>4, <2>5, <2>6, <2>7, <2>12, <2>14
    <3>2. walk.due \subseteq walk.seen \cup page
      BY <3>1, <2>11
    <3>3. WalkSeesEveryRow'
      BY <3>1, <3>2, <2>2, <2>10 DEF WalkSeesEveryRow
    <3>4. CursorDividesTheRows'
      <4>1. walk'.seen \subseteq rows /\ (walk.due \subseteq Listed(walk.table, walk.where))'
        BY <2>2, <2>8, <1>5, <1>6
      <4> QED
        BY <4>1, <3>1, <2>2, <1>1, <1>5 DEF CursorDividesTheRows
    <3> QED
      BY <3>3, <3>4, <2>2, <1>3, <1>4 DEF Paged, NoWalk
  <2> QED
    BY <2>13, <2>14
<1> QED
  BY <1>7, <1>8

\* The tables change under a client: rows go, or one comes, and those that stay
\* keep their order.
LEMMA TablesPaged ==
    ASSUME LoopInv, Paged, Tables, rows' \subseteq rows \/ \E x : rows' = rows \cup {x}
    PROVE  Paged'
<1>1. /\ DOMAIN walk = DOMAIN NoWalk /\ walk.limit \in Nat \ {0} /\ WalkSeesEveryRow /\ CursorDividesTheRows
  BY DEF Paged
<1>2. DOMAIN NoWalk = {"table", "where", "limit", "cursor", "gone", "seen", "inOrder", "due", "end", "broken"}
  BY DEF NoWalk
<1>3. /\ place \in [rows -> Nat] /\ \A q, r \in rows : place[q] = place[r] => q = r
      /\ walk.seen \subseteq rows /\ walk.due \subseteq Listed(walk.table, walk.where)
  BY <1>1 DEF CursorDividesTheRows
<1>4. /\ place' \in [rows' -> Nat] /\ \A q, r \in rows' : place'[q] = place'[r] => q = r
      /\ \A q, r \in rows \cap rows' : place'[q] < place'[r] <=> place[q] < place[r]
  <2>1. CASE rows' \subseteq rows /\ place' = [q \in rows' |-> place[q]]
    BY <2>1, <1>3
  <2>2. ASSUME NEW r \in rows' \ rows, NEW top \in {0} \cup Range(place),
               \A q \in rows : place[q] <= top,
               \/ place' = [q \in rows' |-> IF q = r THEN top + 1 ELSE place[q]]
               \/ place' = [q \in rows' |-> IF q = r THEN top ELSE IF place[q] = top THEN top + 1 ELSE place[q]]
        PROVE  /\ place' \in [rows' -> Nat] /\ \A p, q \in rows' : place'[p] = place'[q] => p = q
               /\ \A p, q \in rows \cap rows' : place'[p] < place'[q] <=> place[p] < place[q]
    <3>1. rows' = rows \cup {r}
      BY <2>2
    <3>2. top \in Nat
      BY <2>2, <1>3 DEF Range
    <3>3. \A q \in rows : place[q] \in Nat /\ place[q] <= top
      BY <2>2, <1>3
    <3>4. CASE place' = [q \in rows' |-> IF q = r THEN top + 1 ELSE place[q]]
      <4>1. place'[r] = top + 1 /\ \A q \in rows : place'[q] = place[q]
        BY <3>1, <3>4, <2>2
      <4>2. \A q \in rows : place'[q] # place'[r]
        BY <4>1, <3>2, <3>3
      <4>3. \A p, q \in rows' : place'[p] = place'[q] => p = q
        BY <4>1, <4>2, <3>1, <1>3
      <4>4. place' \in [rows' -> Nat]
        BY <3>1, <3>2, <3>3, <3>4
      <4> QED
        BY <4>1, <4>3, <4>4
    <3>5. CASE place' = [q \in rows' |-> IF q = r THEN top ELSE IF place[q] = top THEN top + 1 ELSE place[q]]
      <4>1. /\ place'[r] = top
            /\ \A q \in rows : place'[q] = IF place[q] = top THEN top + 1 ELSE place[q]
        BY <3>1, <3>5, <2>2
      <4>2. \A q \in rows : place'[q] # place'[r]
        BY <4>1, <3>2, <3>3
      <4>3. ASSUME NEW p \in rows, NEW q \in rows PROVE place'[p] < place'[q] <=> place[p] < place[q]
        BY <4>1, <3>2, <3>3
      <4>4. ASSUME NEW p \in rows, NEW q \in rows, place'[p] = place'[q] PROVE p = q
        <5>1. place[p] = place[q]
          BY <4>1, <4>4, <3>2, <3>3
        <5> QED
          BY <5>1, <1>3
      <4>5. \A p, q \in rows' : place'[p] = place'[q] => p = q
        BY <4>2, <4>4, <3>1
      <4>6. place' \in [rows' -> Nat]
        BY <3>1, <3>2, <3>3, <3>5
      <4> QED
        BY <4>3, <4>5, <4>6
    <3> QED
      BY <2>2, <3>4, <3>5
  <2> QED
    BY <2>1, <2>2 DEF Tables
<1>5. PICK g : g = (walk.gone \/ ~(walk.cursor \subseteq rows'))
  OBVIOUS
<1>6. walk' = [walk EXCEPT !.due = walk.due \cap rows', !.seen = walk.seen \cap rows', !.gone = g]
  BY <1>5 DEF Tables
<1>7. /\ DOMAIN walk' = DOMAIN NoWalk /\ walk'.limit = walk.limit
      /\ walk'.due = walk.due \cap rows' /\ walk'.table = walk.table /\ walk'.where = walk.where
      /\ walk'.gone = g /\ walk'.broken = walk.broken /\ walk'.cursor = walk.cursor
      /\ walk'.seen = walk.seen \cap rows' /\ walk'.end = walk.end /\ walk'.inOrder = walk.inOrder
  BY <1>1, <1>2, <1>6
<1>8. WalkSeesEveryRow'
  BY <1>1, <1>7 DEF WalkSeesEveryRow
<1>9. (walk.due \subseteq Listed(walk.table, walk.where))'
  <2>1. ASSUME NEW r \in walk'.due PROVE r \in rows' /\ Matches(walk.table, walk.where, r)
    BY <1>3, <1>7 DEF Listed
  <2>2. \A t, w, r : Matches(t, w, r)' = Matches(t, w, r)
    BY DEF Matches, EventOf
  <2> QED
    BY <2>1, <2>2, <1>7 DEF Listed
<1>10. ASSUME ~walk'.end, ~walk'.gone
       PROVE  \/ walk'.cursor = {} /\ walk'.seen = {}
              \/ \E c \in rows' : /\ walk'.cursor = {c}
                                  /\ \A s \in walk'.seen : place'[s] >= place'[c]
                                  /\ \A r \in walk'.due : r \in walk'.seen \/ place'[r] < place'[c]
  <2>1. ~walk.end /\ ~walk.gone /\ walk.cursor \subseteq rows'
    BY <1>5, <1>7, <1>10
  <2>2. CASE walk.cursor = {} /\ walk.seen = {}
    BY <2>2, <1>7
  <2>3. CASE \E c \in rows : /\ walk.cursor = {c}
                             /\ \A s \in walk.seen : place[s] >= place[c]
                             /\ \A r \in walk.due : r \in walk.seen \/ place[r] < place[c]
    <3>1. PICK c \in rows : /\ walk.cursor = {c}
                            /\ \A s \in walk.seen : place[s] >= place[c]
                            /\ \A r \in walk.due : r \in walk.seen \/ place[r] < place[c]
      BY <2>3
    <3>2. c \in rows' /\ walk'.cursor = {c}
      BY <3>1, <2>1, <1>7
    <3>3. ASSUME NEW s \in walk'.seen PROVE place'[s] >= place'[c]
      <4>1. s \in walk.seen /\ s \in rows \cap rows' /\ c \in rows \cap rows'
        BY <3>2, <3>3, <1>3, <1>7
      <4>2. place[s] >= place[c] /\ place[s] \in Nat /\ place[c] \in Nat
        BY <4>1, <3>1, <1>3
      <4>3. ~(place[s] < place[c])
        BY <4>2
      <4>4. ~(place'[s] < place'[c])
        BY <4>1, <4>3, <1>4
      <4>5. place'[s] \in Nat /\ place'[c] \in Nat
        BY <4>1, <1>4
      <4> QED
        BY <4>4, <4>5
    <3>4. ASSUME NEW r \in walk'.due, r \notin walk'.seen PROVE place'[r] < place'[c]
      <4>1. r \in walk.due /\ r \notin walk.seen /\ r \in rows'
        BY <3>4, <1>7
      <4>2. r \in rows
        BY <4>1, <1>3 DEF Listed
      <4>3. place[r] < place[c]
        BY <4>1, <3>1
      <4> QED
        BY <4>1, <4>2, <4>3, <3>2, <1>4
    <3> QED
      BY <3>2, <3>3, <3>4
  <2> QED
    BY <2>1, <2>2, <2>3, <1>1 DEF CursorDividesTheRows
<1>11. CursorDividesTheRows'
  <2>1. walk'.seen \subseteq rows'
    BY <1>7
  <2> QED
    BY <2>1, <1>4, <1>9, <1>10 DEF CursorDividesTheRows
<1> QED
  BY <1>1, <1>2, <1>7, <1>8, <1>11 DEF Paged, NoWalk

\* Steps that touch neither the rows nor the client.
LEMMA StillPaged ==
    ASSUME Paged, UNCHANGED <<rows, place, walk>>
    PROVE  Paged'
<1>1. \A t, w : Listed(t, w)' = Listed(t, w)
  BY DEF Listed, Matches, EventOf
<1>2. CursorDividesTheRows'
  BY <1>1 DEF Paged, CursorDividesTheRows
<1> QED
  BY <1>2 DEF Paged, WalkSeesEveryRow, NoWalk

\* Every step keeps the client's walk right.
LEMMA ServicePaged ==
    ASSUME LoopInv, Paged, [ServiceNext]_serviceVars
    PROVE  Paged'
<1>1. CASE (Boot \/ Poll \/ FetchLedgers \/ FetchEvents \/ Commit) /\ Tables
  <2>1. rows' = rows
    BY <1>1 DEF Boot, Poll, FetchLedgers, FetchEvents, Commit, database
  <2> QED
    BY <2>1, <1>1, TablesPaged
<1>2. CASE reconcileLedgerCursor /\ Tables
  <2>1. rows' \subseteq rows
    BY <1>2 DEF reconcileLedgerCursor, Rewind
  <2> QED
    BY <2>1, <1>2, TablesPaged
<1>3. CASE processEvent /\ Tables
  <2>1. rows' = rows \/ \E x : rows' = rows \cup {x}
    BY <1>3, ProcessStep DEF Drops, Stores, Persist
  <2> QED
    BY <2>1, <1>3, TablesPaged
<1>4. CASE publishIndexerEvent /\ Publish
  BY <1>4, StillPaged DEF publishIndexerEvent, Publish, database
<1>5. CASE Outside /\ UNCHANGED apiVars
  <2>1. rows' = rows
    BY <1>5 DEF Outside, Close, Reorg, IngestionError, ResetCursor, database
  <2> QED
    BY <2>1, <1>5, StillPaged DEF apiVars
<1>6. CASE Restart /\ Killed
  BY <1>6, StillPaged DEF Restart, Killed, database
<1>7. CASE Deliver /\ UNCHANGED indexerVars
  <2>1. UNCHANGED <<place, walk>>
    BY <1>7 DEF Deliver, deliverIndexerEventToWebhooks, deliverWebhook
  <2> QED
    BY <2>1, <1>7, StillPaged DEF indexerVars, database
<1>8. CASE Request /\ UNCHANGED indexerVars
  <2>1. CASE startWalk
    BY <2>1, <1>8, StartPaged
  <2>2. CASE handlePaginatedList
    BY <2>2, <1>8, PagePaged
  <2>3. CASE \E u \in Urls : postWebhook(u) \/ deleteWebhook(u)
    BY <2>3, <1>8, StillPaged DEF postWebhook, deleteWebhook, indexerVars, database
  <2> QED
    BY <2>1, <2>2, <2>3, <1>8 DEF Request
<1>9. CASE UNCHANGED serviceVars
  BY <1>9, StillPaged DEF serviceVars, apiVars, indexerVars, database
<1> QED
  BY <1>1, <1>2, <1>3, <1>4, <1>5, <1>6, <1>7, <1>8, <1>9 DEF ServiceNext, LoopStep

\* At the start there are no rows and nobody pages.
LEMMA InitPaged ==
    ASSUME ServiceInit
    PROVE  Paged
<1>1. rows = {} /\ place = [r \in {} |-> 0] /\ walk = NoWalk
  BY DEF ServiceInit, IndexerInit, ApiInit
<1>2. walk.limit = 1 /\ walk.inOrder = TRUE /\ walk.due = {} /\ walk.seen = {} /\ walk.end = TRUE
  BY <1>1 DEF NoWalk
<1>3. place \in [rows -> Nat]
  BY <1>1
<1> QED
  BY <1>1, <1>2, <1>3 DEF Paged, WalkSeesEveryRow, CursorDividesTheRows

----------------------------------------------------------------------------
(* The service as a whole *)

\* All four hold in every state.
LEMMA AlwaysAll == ServiceSpec => [](LoopInv /\ Agg /\ Hooked /\ Paged)
<1>1. ServiceInit => LoopInv /\ Agg /\ Hooked /\ Paged
  BY InitInv, InitAgg, InitHooked, InitPaged DEF ServiceInit
<1>2. (LoopInv /\ Agg /\ Hooked /\ Paged) /\ [ServiceNext]_serviceVars => (LoopInv /\ Agg /\ Hooked /\ Paged)'
  BY ServiceInv, ServiceAgg, ServiceHooked, ServicePaged
<1> QED
  BY <1>1, <1>2, PTL DEF ServiceSpec

(* Until a rewind the balances are the sum of the stored rows; and on a      *)
(* chain that was never reorganised the supply stored is the sum of the      *)
(* balances, until a rewind and while every event got its row, and nothing   *)
(* is rewound, except by an answer of the RPC that ended early, in which a   *)
(* missing ledger counts as another one (cursor.ts:83-94), or by a cursor    *)
(* set by hand into the ledgers of an older version: through restarts,       *)
(* failed writes, ledgers indexed twice and cursor resets, for any           *)
(* transactions and any number of ledgers (indexer.ts:152).                  *)
THEOREM AggregatesStayRight == ServiceSpec => []AggregatesMatchRows
<1>1. LoopInv /\ Agg /\ Hooked /\ Paged => AggregatesMatchRows
  BY DEF LoopInv, Agg, Hooked, Paged, ApiTypes, AggregatesMatchRows, ServiceTypeOK
<1> QED
  BY <1>1, AlwaysAll, PTL

(* A client that follows nextCursor gets every row that was there when it    *)
(* began and still is, newest first and none twice, whatever the loop        *)
(* inserts and prunes meanwhile, unless the row of its cursor is deleted     *)
(* (api.ts:271); and a target gets an event a second time only if its first  *)
(* answer did not arrive, never a third time, and once removed only events   *)
(* published before (events.ts:54-90, 99-105).                               *)
THEOREM ClientsAlwaysServed == ServiceSpec => []ClientsAreServed
<1>1. LoopInv /\ Agg /\ Hooked /\ Paged => ClientsAreServed
  BY DEF Hooked, Paged, ClientsAreServed
<1> QED
  BY <1>1, AlwaysAll, PTL
=============================================================================
